--------------------------- MODULE ConnectionProofs ---------------------------
(***************************************************************************)
(* What a daemon's connection guarantees, for any number of copies of the  *)
(* device, any queue size, ping limit and number of faults: the safety     *)
(* properties of Connection, from what each daemon's loop, queue and inbox *)
(* have to do with what the gateway thinks of its connection.              *)
(***************************************************************************)
EXTENDS Connection, SequenceTheorems, TLAPS

\* What a sequence holds.
Items(s) == {s[i] : i \in 1 .. Len(s)}

Early == {"hello", "challenged", "auth"}

\* A daemon that waits or dials has nothing of a connection, one that is not through
\* the handshake has no result yet and was sent nothing but a challenge.
Bare(d) ==
    /\ phase[d] \in {"waiting", "dialling"} => inbox[d] = <<>> /\ gw[d] = "none"
    /\ phase[d] \in {"dialling", "hello", "auth"} => result[d] = "none"
    /\ gw[d] \in Early => phase[d] \in {"hello", "auth"} /\ Items(inbox[d]) \subseteq {"challenge"}

\* No pong was missed before the loop runs; a last miss ends it.
Counts(d) ==
    /\ phase[d] \notin {"live", "ending", "closing"} => missed[d] = 0
    /\ phase[d] = "live" => missed[d] < MaxMissed

\* A final verdict on its way, or read, was the gateway's.
Earned(d) ==
    /\ "4403" \in Items(inbox[d]) \/ result[d] \in {"revoked", "unknown_device"} => revoked
    /\ \/ Items(inbox[d]) \cap {"4401", "unauthorized"} # {}
       \/ phase[d] = "verdict" \/ result[d] = "unauthorized"
       => revoked \/ d \in strangers
    /\ "replaced" \in Items(inbox[d]) \/ result[d] = "replaced" => ousted[d] # "no"

\* A daemon stops for nothing else, but for --once.
Stops(d) ==
    /\ phase[d] = "stopped" => result[d] \in Fatal \/ result[d] = "ok"
    /\ result[d] = "ok" => d \in Once

Local(d) == Bare(d) /\ Counts(d) /\ Earned(d) /\ Stops(d)

\* Among those with the device's key, the newest connection was not replaced.
Newest == strangers # Daemon => \E d \in Daemon \ strangers : ousted[d] = "no"

Inv == TypeOK /\ Newest /\ \A d \in Daemon : Local(d)

\* What a step of `d` leaves alone of the other daemons.
Others(d) ==
    /\ revoked => revoked'
    /\ \A e \in Daemon \ {d} :
          UNCHANGED <<phase[e], inbox[e], gw[e], result[e], missed[e], ousted[e]>>

-----------------------------------------------------------------------------
(* Sequences.                                                              *)

\* Nothing is in the empty sequence, and something in any other.
LEMMA ItemsEmpty ==
    ASSUME NEW S, NEW s \in Seq(S)
    PROVE  Items(<<>>) = {} /\ (Items(s) = {} <=> s = <<>>) /\ Items(s) \subseteq S
<1>1. Len(s) \in Nat /\ (s # <<>> => Len(s) > 0) /\ Len(<<>>) = 0
  BY EmptySeq
<1>2. s # <<>> => s[1] \in Items(s)
  BY <1>1 DEF Items
<1>3. Items(<<>>) = {}
  BY <1>1 DEF Items
<1>4. Items(s) \subseteq S
  BY ElementOfSeq DEF Items
<1> QED
  BY <1>2, <1>3, <1>4

\* Append adds one item.
LEMMA ItemsAppend ==
    ASSUME NEW S, NEW s \in Seq(S), NEW m \in S
    PROVE  /\ Append(s, m) \in Seq(S) /\ Append(s, m) # <<>>
           /\ Len(Append(s, m)) = Len(s) + 1
           /\ Items(Append(s, m)) = Items(s) \cup {m}
<1> DEFINE t == Append(s, m)
<1>1. /\ t \in Seq(S) /\ t # <<>> /\ Len(t) = Len(s) + 1 /\ t[Len(s) + 1] = m
      /\ \A i \in 1 .. Len(s) : t[i] = s[i]
  BY AppendProperties
<1>2. Len(s) \in Nat
  BY LenProperties
<1>3. Items(t) \subseteq Items(s) \cup {m}
  <2> SUFFICES ASSUME NEW i \in 1 .. Len(t) PROVE t[i] \in Items(s) \cup {m}
    BY DEF Items
  <2> HIDE DEF t
  <2> QED
    BY <1>1, <1>2 DEF Items
<1>4. Items(s) \cup {m} \subseteq Items(t)
  <2>1. m \in Items(t)
    <3> HIDE DEF t
    <3>1. Len(s) + 1 \in 1 .. Len(t)
      BY <1>1, <1>2
    <3> QED
      BY <1>1, <3>1 DEF Items
  <2>2. ASSUME NEW i \in 1 .. Len(s) PROVE s[i] \in Items(t)
    <3> HIDE DEF t
    <3>1. i \in 1 .. Len(t) /\ t[i] = s[i]
      BY <1>1, <1>2
    <3> QED
      BY <3>1 DEF Items
  <2> QED
    BY <2>1, <2>2 DEF Items
<1> QED
  BY <1>1, <1>3, <1>4

\* A sequence is its head and its tail.
LEMMA ItemsTail ==
    ASSUME NEW S, NEW s \in Seq(S), s # <<>>
    PROVE  /\ Head(s) \in S /\ Tail(s) \in Seq(S) /\ Len(Tail(s)) = Len(s) - 1
           /\ Items(s) = {Head(s)} \cup Items(Tail(s))
<1> DEFINE t == Tail(s)
<1>1. /\ Head(s) \in S /\ t \in Seq(S) /\ Len(t) = Len(s) - 1
      /\ \A i \in 1 .. Len(t) : t[i] = s[i + 1]
  BY HeadTailProperties
<1>2. Len(s) \in Nat \ {0} /\ Head(s) = s[1]
  BY EmptySeq
<1> HIDE DEF t
<1>3. Items(t) \subseteq Items(s)
  <2> SUFFICES ASSUME NEW i \in 1 .. Len(t) PROVE t[i] \in Items(s)
    BY DEF Items
  <2>1. i + 1 \in 1 .. Len(s) /\ t[i] = s[i + 1]
    BY <1>1, <1>2
  <2> QED
    BY <2>1 DEF Items
<1>4. Head(s) \in Items(s)
  <2>1. 1 \in 1 .. Len(s)
    BY <1>2
  <2> QED
    BY <1>2, <2>1 DEF Items
<1>5. Items(s) \subseteq {Head(s)} \cup Items(t)
  <2> SUFFICES ASSUME NEW i \in 1 .. Len(s) PROVE s[i] \in {Head(s)} \cup Items(t)
    BY DEF Items
  <2>1. CASE i = 1
    BY <1>2, <2>1
  <2>2. CASE i # 1
    <3>1. i - 1 \in 1 .. Len(t) /\ t[i - 1] = s[(i - 1) + 1]
      BY <1>1, <1>2, <2>2
    <3> QED
      BY <3>1, <1>2 DEF Items
  <2> QED
    BY <2>1, <2>2
<1> QED
  BY <1>1, <1>3, <1>4, <1>5 DEF t

\* A prefix holds nothing new.
LEMMA ItemsPrefix ==
    ASSUME NEW S, NEW s \in Seq(S), NEW k \in 0 .. Len(s)
    PROVE  SubSeq(s, 1, k) \in Seq(S) /\ Items(SubSeq(s, 1, k)) \subseteq Items(s)
<1>1. Len(s) \in Nat /\ \A i \in 1 .. k : s[i] \in S
  BY LenProperties, ElementOfSeq
<1> DEFINE t == SubSeq(s, 1, k)
<1>2. t \in Seq(S) /\ Len(t) = k /\ \A i \in 1 .. k : t[i] = s[i]
  <2>1. /\ t \in Seq(S) /\ Len(t) = IF 1 <= k THEN k - 1 + 1 ELSE 0
        /\ \A i \in 1 .. k - 1 + 1 : t[i] = s[1 + i - 1]
    BY <1>1, SubSeqProperties
  <2> QED
    BY <1>1, <2>1
<1> HIDE DEF t
<1>3. ASSUME NEW i \in 1 .. Len(t) PROVE t[i] \in Items(s)
  <2>1. i \in 1 .. Len(s) /\ t[i] = s[i]
    BY <1>1, <1>2
  <2> QED
    BY <2>1 DEF Items
<1>4. Items(t) \subseteq Items(s)
  BY <1>3 DEF Items
<1> QED
  BY <1>2, <1>4 DEF t

\* Concatenation adds up.
LEMMA ItemsConcat ==
    ASSUME NEW S, NEW s \in Seq(S), NEW r \in Seq(S)
    PROVE  s \o r \in Seq(S) /\ Items(s \o r) = Items(s) \cup Items(r)
<1> DEFINE t == s \o r
<1>1. /\ t \in Seq(S) /\ Len(t) = Len(s) + Len(r)
      /\ \A i \in 1 .. Len(s) + Len(r) : t[i] = IF i <= Len(s) THEN s[i] ELSE r[i - Len(s)]
  BY ConcatProperties
<1>2. Len(s) \in Nat /\ Len(r) \in Nat
  BY LenProperties
<1> HIDE DEF t
<1>3. ASSUME NEW i \in 1 .. Len(t) PROVE t[i] \in Items(s) \cup Items(r)
  <2>1. CASE i <= Len(s)
    <3>1. i \in 1 .. Len(s) /\ t[i] = s[i]
      BY <1>1, <1>2, <2>1
    <3> QED
      BY <3>1 DEF Items
  <2>2. CASE ~(i <= Len(s))
    <3>1. i - Len(s) \in 1 .. Len(r) /\ t[i] = r[i - Len(s)]
      BY <1>1, <1>2, <2>2
    <3> QED
      BY <3>1 DEF Items
  <2> QED
    BY <2>1, <2>2
<1>4. ASSUME NEW i \in 1 .. Len(s) PROVE s[i] \in Items(t)
  <2>1. i \in 1 .. Len(t) /\ t[i] = s[i]
    BY <1>1, <1>2
  <2> QED
    BY <2>1 DEF Items
<1>5. ASSUME NEW i \in 1 .. Len(r) PROVE r[i] \in Items(t)
  <2>1. Len(s) + i \in 1 .. Len(t) /\ t[Len(s) + i] = r[i]
    BY <1>1, <1>2
  <2> QED
    BY <2>1 DEF Items
<1> QED
  BY <1>1, <1>3, <1>4, <1>5 DEF Items, t

-----------------------------------------------------------------------------
(* Types.                                                                  *)

Pools == Frames \cup Closes

\* The two alphabets and what is in them.
LEMMA Alphabets ==
    /\ Ping \in Message /\ Close \in Message /\ Ping # Close
    /\ \A n \in 0 .. MaxEdits : Servers(n) \in Message /\ Servers(n) # Ping /\ Servers(n) # Close
                                /\ Servers(n).t = "servers" /\ Servers(n).set = n
    /\ Ping.t = "ping" /\ Close.t = "close"
    /\ \A m \in Message : m.t = "servers" => m.set \in 0 .. MaxEdits /\ m = Servers(m.set)
    /\ \A m \in Message : m = Ping \/ m = Close \/ m.t = "servers"
<1>1. Ping.t = "ping" /\ Close.t = "close"
  BY DEF Ping, Close
<1>2. \A n \in 0 .. MaxEdits : Servers(n).t = "servers" /\ Servers(n).set = n
  BY DEF Servers
<1>3. \A m \in Message : m = Ping \/ m = Close \/ \E n \in 0 .. MaxEdits : m = Servers(n)
  BY DEF Message
<1>4. Ping \in Message /\ Close \in Message /\ \A n \in 0 .. MaxEdits : Servers(n) \in Message
  BY DEF Message
<1> QED
  BY <1>1, <1>2, <1>3, <1>4

\* One-message sequences.
LEMMA Singles ==
    ASSUME NEW S, NEW m \in S
    PROVE  <<m>> \in Seq(S) /\ Len(<<m>>) = 1 /\ <<m>>[1] = m /\ Items(<<m>>) = {m}
BY DEF Items

\* What TypeOK says of the queue and of the inbox, and of everything else.
Queues == out \in [Daemon -> Seq(Message)] /\ \A d \in Daemon : Len(out[d]) <= OutCap
Inboxes == inbox \in [Daemon -> Seq(Pools)]
Scalars ==
    /\ phase \in [Daemon -> {"waiting", "dialling", "hello", "auth", "verdict", "live", "ending",
                             "closing", "stopped"}]
    /\ task \in [Daemon -> {"select", "ping", "advertise"}]
    /\ result \in [Daemon -> Results]
    /\ attempt \in [Daemon -> 0 .. MaxAttempt]
    /\ awaiting \in [Daemon -> BOOLEAN]
    /\ missed \in [Daemon -> 0 .. MaxMissed]
    /\ overdue \in [Daemon -> BOOLEAN]
    /\ writer \in [Daemon -> {"none", "running", "failed", "done"}]
    /\ set \in [Daemon -> 0 .. MaxEdits]
    /\ config \in [Daemon -> 0 .. MaxEdits]
    /\ link \in [Daemon -> {"none", "up", "silent", "cut"}]
    /\ gw \in [Daemon -> {"none", "hello", "challenged", "auth", "open"}]
    /\ view \in [Daemon -> 0 .. Untold]
    /\ revoked \in BOOLEAN
    /\ faults \in 0 .. MaxFaults
    /\ strangers \in SUBSET Daemon
    /\ ousted \in [Daemon -> {"no", "told", "lost"}]

\* TypeOK is these three.
LEMMA TypeParts == TypeOK <=> Scalars /\ Queues /\ Inboxes
BY DEF TypeOK, Scalars, Queues, Inboxes, Pools

\* The same after a step.
LEMMA TypePartsNext == TypeOK' <=> Scalars' /\ Queues' /\ Inboxes'
BY DEF TypeOK, Scalars, Queues, Inboxes, Pools

\* The constants, from the assumption.
LEMMA Bounds ==
    /\ MaxEdits \in Nat /\ Untold = MaxEdits + 1 /\ MaxFaults \in Nat
    /\ MaxMissed \in Nat /\ MaxMissed >= 2
    /\ MaxAttempt \in Nat /\ MaxAttempt >= 1 /\ OutCap \in Nat /\ OutCap >= 1
BY ConnectionAssumption DEF ConnectionAssumption, Untold


\* Every close frame has a verdict.
LEMMA VerdictType ==
    ASSUME NEW m \in Closes
    PROVE  Verdict(m) \in Results \ {"none", "ok", "dead", "unknown_device"}
BY DEF Closes, Verdict, Results, Fatal, Failures

\* The end of a connection keeps the types.
LEMMA FailsScalars ==
    ASSUME Scalars, NEW d \in Daemon, NEW why \in Results, Fails(d, why)
    PROVE  Scalars'
<1>1. phase' \in [Daemon -> {"waiting", "dialling", "hello", "auth", "verdict", "live", "ending",
                             "closing", "stopped"}]
  BY DEF Fails, Retry, Scalars
<1>2. attempt' \in [Daemon -> 0 .. MaxAttempt]
  BY Bounds DEF Fails, Retry, Scalars
<1> QED
  BY <1>1, <1>2 DEF Fails, Hangup, Scalars, loop, world

\* So does the end of the loop.
LEMMA EndTypes ==
    ASSUME Scalars, NEW d \in Daemon, NEW why \in Results, End(d, why)
    PROVE  /\ phase' \in [Daemon -> {"waiting", "dialling", "hello", "auth", "verdict", "live",
                                     "ending", "closing", "stopped"}]
           /\ task' \in [Daemon -> {"select", "ping", "advertise"}]
           /\ result' \in [Daemon -> Results]
BY DEF End, Scalars

\* So does a send, whatever comes of it.
LEMMA SendTypes ==
    ASSUME Scalars, NEW d \in Daemon, NEW m, NEW where \in {"ping", "advertise"}, Send(d, m, where)
    PROVE  /\ phase' \in [Daemon -> {"waiting", "dialling", "hello", "auth", "verdict", "live",
                                     "ending", "closing", "stopped"}]
           /\ task' \in [Daemon -> {"select", "ping", "advertise"}]
           /\ result' \in [Daemon -> Results]
<1>1. WriterError(d) \in Results
  BY DEF WriterError, Results, Failures
<1>2. CASE End(d, WriterError(d))
  BY <1>1, <1>2, EndTypes
<1>3. CASE /\ UNCHANGED <<phase, result>>
           /\ \E w \in {"select", where} : task' = [task EXCEPT ![d] = w]
  BY <1>3 DEF Scalars
<1> QED
  BY <1>2, <1>3 DEF Send

\* A dial keeps the types.
LEMMA DialScalars == ASSUME Scalars, NEW d \in Daemon, Dial(d) PROVE Scalars'
BY Bounds DEF Scalars, loop, sending, gateway, world, Results, Fatal, Failures,
              Dial

\* An answered dial keeps the types.
LEMMA DialledScalars == ASSUME Scalars, NEW d \in Daemon, Dialled(d) PROVE Scalars'
<1>1. CASE revoked
  BY <1>1, FailsScalars DEF Dialled, Results, Fatal
<1>2. CASE Fails(d, "unauthorized")
  BY <1>2, FailsScalars DEF Results, Fatal
<1>3. CASE ~revoked /\ ~Fails(d, "unauthorized")
  BY <1>3 DEF Dialled, Scalars, loop, sending, world
<1> QED
  BY <1>1, <1>2, <1>3

\* A refused dial keeps the types.
LEMMA RefusedScalars == ASSUME Scalars, NEW d \in Daemon, Refused(d) PROVE Scalars'
BY Bounds DEF Scalars, loop, sending, gateway, world, Results, Fatal, Failures,
              Refused, Retry

\* The start of the loop keeps the types.
LEMMA StartScalars == ASSUME Scalars, NEW d \in Daemon, Start(d) PROVE Scalars'
BY DEF Start, Scalars, loop, gateway, world

\* A handshake message keeps the types.
LEMMA HandshakeScalars == ASSUME Scalars, Inboxes, NEW d \in Daemon, Handshake(d) PROVE Scalars'
<1> DEFINE m == Head(inbox[d])
<1>1. CASE Start(d)
  BY <1>1, StartScalars
<1>2. CASE m \in Closes /\ Fails(d, Verdict(m))
  BY <1>2, FailsScalars, VerdictType
<1>3. CASE /\ phase[d] = "verdict"
           /\ Fails(d, IF m \in Closes \ {"eof"} THEN Verdict(m) ELSE "unauthorized")
  <2>1. "unauthorized" \in Results
    BY DEF Results, Fatal
  <2> QED
    BY <1>3, <2>1, FailsScalars, VerdictType
<1>4. CASE /\ phase' = [phase EXCEPT ![d] = "auth"]
           /\ gw' = [gw EXCEPT ![d] = IF @ = "challenged" /\ link[d] = "up" THEN "auth" ELSE @]
           /\ UNCHANGED <<loop, result, attempt, sending, set, link, view, revoked, ousted, world>>
  BY <1>4 DEF Scalars, loop, sending, world
<1>5. CASE /\ phase' = [phase EXCEPT ![d] = IF @ = "auth" THEN "verdict" ELSE @]
           /\ UNCHANGED <<loop, result, attempt, sending, set, link, gateway, world>>
  BY <1>5 DEF Scalars, loop, sending, gateway, world
<1> QED
  BY <1>1, <1>2, <1>3, <1>4, <1>5 DEF Handshake

\* A handshake timeout keeps the types.
LEMMA HandshakeTimeoutScalars == ASSUME Scalars, NEW d \in Daemon, HandshakeTimeout(d) PROVE Scalars'
BY FailsScalars DEF HandshakeTimeout, Results, Fatal, Failures

\* A ping tick keeps the types.
LEMMA TickScalars == ASSUME Scalars, NEW d \in Daemon, Counts(d), Tick(d) PROVE Scalars'
<1>1. missed' \in [Daemon -> 0 .. MaxMissed]
  BY Bounds DEF Tick, Idle, Counts, Scalars
<1>2. awaiting' \in [Daemon -> BOOLEAN] /\ overdue' \in [Daemon -> BOOLEAN]
  BY DEF Tick, Scalars
<1>3. End(d, "dead") \/ Send(d, Ping, "ping")
  BY DEF Tick
<1>4. /\ phase' \in [Daemon -> {"waiting", "dialling", "hello", "auth", "verdict", "live", "ending",
                                "closing", "stopped"}]
      /\ task' \in [Daemon -> {"select", "ping", "advertise"}]
      /\ result' \in [Daemon -> Results]
  BY <1>3, EndTypes, SendTypes DEF Results, Failures
<1> QED
  BY <1>1, <1>2, <1>4 DEF Tick, Scalars, gateway, world

\* A change of the set keeps the types.
LEMMA ChangedScalars == ASSUME Scalars, NEW d \in Daemon, Changed(d) PROVE Scalars'
BY Bounds DEF Scalars, loop, sending, gateway, world, Results, Fatal, Failures,
              Changed, Send, End, Idle, WriterError

\* A blocked send that goes on keeps the types.
LEMMA UnblockedScalars == ASSUME Scalars, NEW d \in Daemon, Unblocked(d) PROVE Scalars'
BY Bounds DEF Scalars, loop, sending, gateway, world, Results, Fatal, Failures,
              Unblocked, Send, End, WriterError

\* The end of the writer keeps the types.
LEMMA WriterEndedScalars == ASSUME Scalars, NEW d \in Daemon, WriterEnded(d) PROVE Scalars'
BY Bounds DEF Scalars, loop, sending, gateway, world, Results, Fatal, Failures,
              WriterEnded, End, Idle, WriterError

\* A message read by the loop keeps the types.
LEMMA IncomingScalars == ASSUME Scalars, NEW d \in Daemon, Incoming(d) PROVE Scalars'
<1>1. /\ awaiting' \in [Daemon -> BOOLEAN] /\ overdue' \in [Daemon -> BOOLEAN]
      /\ missed' \in [Daemon -> 0 .. MaxMissed]
  <2>1. /\ overdue' = [overdue EXCEPT ![d] = FALSE]
        /\ \/ /\ awaiting' = [awaiting EXCEPT ![d] = FALSE]
              /\ missed' = [missed EXCEPT ![d] = 0]
           \/ UNCHANGED <<awaiting, missed>>
    BY DEF Incoming
  <2>2. missed' \in [Daemon -> 0 .. MaxMissed]
    BY <2>1, Bounds DEF Scalars
  <2> QED
    BY <2>1, <2>2 DEF Scalars
<1>2. \/ End(d, "ok") \/ UNCHANGED <<phase, result, task>>
      \/ Head(inbox[d]) \in Closes /\ End(d, Verdict(Head(inbox[d])))
  BY DEF Incoming
<1>3. /\ phase' \in [Daemon -> {"waiting", "dialling", "hello", "auth", "verdict", "live", "ending",
                                "closing", "stopped"}]
      /\ task' \in [Daemon -> {"select", "ping", "advertise"}]
      /\ result' \in [Daemon -> Results]
  <2>1. "ok" \in Results
    BY DEF Results
  <2> QED
    BY <1>2, <2>1, EndTypes, VerdictType DEF Scalars
<1> QED
  BY <1>1, <1>3 DEF Incoming, Scalars, sending, gateway, world

\* The --once goodbye keeps the types.
LEMMA GoodbyeScalars == ASSUME Scalars, NEW d \in Daemon, Goodbye(d) PROVE Scalars'
BY Bounds DEF Scalars, loop, sending, gateway, world, Results, Fatal, Failures,
              Goodbye

\* The end of a connection keeps the types.
LEMMA LeaveScalars == ASSUME Scalars, NEW d \in Daemon, Leave(d) PROVE Scalars'
BY Bounds DEF Scalars, loop, sending, gateway, world, Results, Fatal, Failures,
              Leave, Retry, Hangup

\* A write keeps the types.
LEMMA WriterSendsScalars == ASSUME Scalars, Queues, NEW d \in Daemon, WriterSends(d) PROVE Scalars'
<1>1. Head(out[d]) \in Message
  BY ItemsTail DEF Queues, WriterSends
<1>2. Head(out[d]).t = "servers" => Head(out[d]).set \in 0 .. Untold
  BY <1>1, Alphabets, Bounds
<1>3. /\ view' \in [Daemon -> 0 .. Untold]
      /\ gw' \in [Daemon -> {"none", "hello", "challenged", "auth", "open"}]
      /\ writer' \in [Daemon -> {"none", "running", "failed", "done"}]
  <2> DEFINE m == Head(out[d])
             heard == link[d] = "up" /\ gw[d] = "open"
  <2>1. CASE /\ writer' = [writer EXCEPT ![d] = "failed"]
             /\ UNCHANGED <<inbox, view, gw>>
    BY <2>1 DEF Scalars
  <2>2. CASE /\ writer' = [writer EXCEPT ![d] = IF m = Close THEN "done" ELSE @]
             /\ view' = [view EXCEPT ![d] = IF heard /\ m.t = "servers" THEN m.set ELSE @]
             /\ gw' = [gw EXCEPT ![d] = IF heard /\ m = Close THEN "none" ELSE @]
    <3> HIDE DEF heard
    <3>1. view' \in [Daemon -> 0 .. Untold]
      BY <1>2, <2>2 DEF Scalars
    <3>2. gw' \in [Daemon -> {"none", "hello", "challenged", "auth", "open"}]
      BY <2>2 DEF Scalars
    <3>3. writer' \in [Daemon -> {"none", "running", "failed", "done"}]
      BY <2>2 DEF Scalars
    <3> QED
      BY <3>1, <3>2, <3>3
  <2> QED
    BY <2>1, <2>2 DEF WriterSends
<1> QED
  BY <1>3 DEF WriterSends, Scalars, loop, world

\* A challenge keeps the types.
LEMMA ChallengeScalars == ASSUME Scalars, NEW d \in Daemon, Challenge(d) PROVE Scalars'
BY Bounds DEF Scalars, loop, sending, gateway, world, Results, Fatal, Failures,
              Challenge, Arrives

\* A rejection keeps the types.
LEMMA RejectScalars == ASSUME Scalars, NEW d \in Daemon, Reject(d) PROVE Scalars'
BY Bounds DEF Scalars, loop, sending, gateway, world, Results, Fatal, Failures,
              Reject, Arrives

\* A broken link keeps the types.
LEMMA CutScalars == ASSUME Scalars, NEW d \in Daemon, Cut(d) PROVE Scalars'
<1>1. faults' \in 0 .. MaxFaults
  BY Bounds DEF Cut, Strikes, Scalars
<1>2. /\ link' \in [Daemon -> {"none", "up", "silent", "cut"}]
      /\ gw' \in [Daemon -> {"none", "hello", "challenged", "auth", "open"}]
      /\ ousted' \in [Daemon -> {"no", "told", "lost"}]
  BY DEF Cut, Lost, Scalars
<1> QED
  BY <1>1, <1>2 DEF Cut, Scalars, loop, sending

\* A silent link keeps the types.
LEMMA HushScalars == ASSUME Scalars, NEW d \in Daemon, Hush(d) PROVE Scalars'
BY Bounds DEF Scalars, loop, sending, gateway, world, Results, Fatal, Failures,
              Hush, Strikes, Connected, Lost

\* A write that fails keeps the types.
LEMMA ResetScalars == ASSUME Scalars, NEW d \in Daemon, Reset(d) PROVE Scalars'
BY Bounds DEF Scalars, loop, Reset, Strikes, Lost

\* A gateway restart keeps the types.
LEMMA RestartScalars == ASSUME Scalars, NEW d \in Daemon, Restart(d) PROVE Scalars'
BY Bounds DEF Scalars, loop, sending, gateway, world, Results, Fatal, Failures,
              Restart, Strikes, Arrives

\* An edit of the config keeps the types.
LEMMA EditScalars == ASSUME Scalars, NEW d \in Daemon, Edit(d) PROVE Scalars'
BY Bounds DEF Scalars, loop, sending, gateway, world, Results, Fatal, Failures,
              Edit

\* A welcome, and the notice to the connection it replaces, keeps the types.
LEMMA WelcomeScalars == ASSUME Scalars, NEW d \in Daemon, Welcome(d) PROVE Scalars'
BY Bounds DEF Scalars, loop, sending, gateway, world, Results, Fatal, Failures,
              Welcome
-----------------------------------------------------------------------------
(* What a step of one daemon does to it, and leaves alone of the others.   *)

\* A queue is replaced by one that fits.
LEMMA QueueStep ==
    ASSUME Queues, NEW d \in Daemon, NEW q \in Seq(Message), Len(q) <= OutCap,
           out' = [out EXCEPT ![d] = q]
    PROVE  Queues'
BY DEF Queues

\* An inbox is replaced by another one.
LEMMA InboxStep ==
    ASSUME Inboxes, NEW d \in Daemon, NEW q \in Seq(Pools), inbox' = [inbox EXCEPT ![d] = q]
    PROVE  Inboxes' /\ inbox'[d] = q /\ \A e \in Daemon \ {d} : inbox'[e] = inbox[e]
BY DEF Inboxes

\* An empty queue, and an empty inbox.
LEMMA Emptied ==
    ASSUME NEW d \in Daemon
    PROVE  /\ Queues /\ out' = [out EXCEPT ![d] = <<>>] => Queues'
           /\ Inboxes /\ inbox' = [inbox EXCEPT ![d] = <<>>] =>
                 Inboxes' /\ inbox'[d] = <<>> /\ \A e \in Daemon \ {d} : inbox'[e] = inbox[e]
<1>1. <<>> \in Seq(Message) /\ <<>> \in Seq(Pools) /\ Len(<<>>) <= OutCap
  BY Bounds
<1> QED
  BY <1>1, QueueStep, InboxStep

\* The first message is read.
LEMMA Reads ==
    ASSUME Inboxes, NEW d \in Daemon, inbox[d] # <<>>, inbox' = [inbox EXCEPT ![d] = Tail(@)]
    PROVE  /\ Inboxes' /\ \A e \in Daemon \ {d} : inbox'[e] = inbox[e]
           /\ Head(inbox[d]) \in Items(inbox[d]) /\ Items(inbox'[d]) \subseteq Items(inbox[d])
<1>1. inbox[d] \in Seq(Pools)
  BY DEF Inboxes
<1>2. /\ Tail(inbox[d]) \in Seq(Pools) /\ Head(inbox[d]) \in Items(inbox[d])
      /\ Items(Tail(inbox[d])) \subseteq Items(inbox[d])
  BY <1>1, ItemsTail
<1>3. inbox' = [inbox EXCEPT ![d] = Tail(inbox[d])]
  OBVIOUS
<1> QED
  BY <1>2, <1>3, InboxStep

\* A message is added, on its way to the daemon.
LEMMA Adds ==
    ASSUME Inboxes, NEW d \in Daemon, NEW m \in Pools, inbox' = [inbox EXCEPT ![d] = Append(@, m)]
    PROVE  /\ Inboxes' /\ \A e \in Daemon \ {d} : inbox'[e] = inbox[e]
           /\ Items(inbox'[d]) = Items(inbox[d]) \cup {m}
<1>1. inbox[d] \in Seq(Pools)
  BY DEF Inboxes
<1>2. /\ Append(inbox[d], m) \in Seq(Pools)
      /\ Items(Append(inbox[d], m)) = Items(inbox[d]) \cup {m}
  BY <1>1, ItemsAppend
<1>3. inbox' = [inbox EXCEPT ![d] = Append(inbox[d], m)]
  OBVIOUS
<1> QED
  BY <1>2, <1>3, InboxStep

\* Frames arrive, or are lost with the link.
LEMMA ArrivesItems ==
    ASSUME Inboxes, NEW d \in Daemon, NEW ms \in Seq(Pools), Arrives(d, ms)
    PROVE  /\ Inboxes' /\ \A e \in Daemon \ {d} : inbox'[e] = inbox[e]
           /\ Items(inbox'[d]) \subseteq Items(inbox[d]) \cup Items(ms)
<1>1. inbox[d] \in Seq(Pools)
  BY DEF Inboxes
<1>2. /\ inbox[d] \o ms \in Seq(Pools)
      /\ Items(inbox[d] \o ms) = Items(inbox[d]) \cup Items(ms)
  BY <1>1, ItemsConcat
<1>3. inbox' = [inbox EXCEPT ![d] = IF link[d] = "up" THEN inbox[d] \o ms ELSE inbox[d]]
  BY DEF Arrives
<1>4. PICK q \in Seq(Pools) : /\ inbox' = [inbox EXCEPT ![d] = q]
                              /\ Items(q) \subseteq Items(inbox[d]) \cup Items(ms)
  BY <1>1, <1>2, <1>3
<1> QED
  BY <1>4, InboxStep

\* A connection that fails before it is up.
LEMMA FailsKeeps ==
    ASSUME TypeOK, NEW d \in Daemon, Local(d), NEW why \in Results \ {"none", "ok"},
           why \in {"revoked", "unknown_device"} => revoked,
           why = "unauthorized" => revoked \/ d \in strangers, strangers' = strangers,
           why = "replaced" => ousted[d] # "no",
           phase[d] \notin {"live", "ending", "closing"}, Fails(d, why)
    PROVE  Queues' /\ Inboxes' /\ Local(d)' /\ Others(d)
<1>1. Scalars /\ Queues /\ Inboxes
  BY TypeParts
<1>2. Queues' /\ Inboxes' /\ inbox'[d] = <<>> /\ \A e \in Daemon \ {d} : inbox'[e] = inbox[e]
  BY <1>1, Emptied DEF Fails, Hangup
<1>3. /\ phase'[d] = IF why \in Fatal THEN "stopped" ELSE "waiting"
      /\ result'[d] = why /\ gw'[d] = "none" /\ missed' = missed
      /\ ousted' = ousted /\ revoked' = revoked
      /\ \A e \in Daemon \ {d} : phase'[e] = phase[e] /\ result'[e] = result[e] /\ gw'[e] = gw[e]
  BY <1>1 DEF Fails, Hangup, Retry, Scalars, loop
<1>4. Items(inbox'[d]) = {}
  BY <1>1, <1>2, ItemsEmpty DEF Inboxes
<1>5. Bare(d)' /\ Counts(d)'
  BY <1>2, <1>3, <1>4 DEF Bare, Counts, Local, Early
<1>6. Earned(d)' /\ Stops(d)'
  BY <1>3, <1>4 DEF Earned, Stops
<1> QED
  BY <1>2, <1>3, <1>5, <1>6 DEF Local, Others

\* The loop ends.
LEMMA EndKeeps ==
    ASSUME TypeOK, NEW d \in Daemon, Local(d), NEW why \in Results \ {"none"},
           why \in {"revoked", "unknown_device"} => revoked,
           why = "unauthorized" => revoked \/ d \in strangers, strangers' = strangers,
           why = "replaced" => ousted[d] # "no", why = "ok" => d \in Once,
           phase[d] = "live", End(d, why), UNCHANGED <<gw, revoked, ousted>>,
           Items(inbox'[d]) \subseteq Items(inbox[d])
    PROVE  /\ Local(d)'
           /\ \A e \in Daemon \ {d} : phase'[e] = phase[e] /\ result'[e] = result[e]
<1>1. Scalars
  BY TypeParts
<1>2. /\ phase'[d] = "ending" /\ result'[d] = why
      /\ \A e \in Daemon \ {d} : phase'[e] = phase[e] /\ result'[e] = result[e]
  BY <1>1 DEF End, Scalars
<1>3. Bare(d)' /\ Counts(d)'
  BY <1>2 DEF Local, Bare, Counts, Early
<1>4. Earned(d)' /\ Stops(d)'
  BY <1>2 DEF Local, Earned, Stops
<1> QED
  BY <1>2, <1>3, <1>4 DEF Local

\* A handler's send: at once, blocked, or the end of the loop.
LEMMA SendKeeps ==
    ASSUME TypeOK, NEW d \in Daemon, Local(d), NEW m \in Message, NEW where, Send(d, m, where),
           phase[d] = "live", UNCHANGED <<inbox, gw, revoked, strangers, ousted>>,
           missed'[d] < MaxMissed
    PROVE  /\ Queues' /\ Local(d)'
           /\ \A e \in Daemon \ {d} : phase'[e] = phase[e] /\ result'[e] = result[e]
<1>1. Scalars /\ Queues /\ Inboxes
  BY TypeParts
<1>2. ASSUME UNCHANGED <<phase, result>>
      PROVE  /\ Local(d)'
             /\ \A e \in Daemon \ {d} : phase'[e] = phase[e] /\ result'[e] = result[e]
  BY <1>2 DEF Local, Bare, Counts, Earned, Stops, Early
<1>3. CASE /\ Len(out[d]) < OutCap /\ out' = [out EXCEPT ![d] = Append(@, m)]
           /\ UNCHANGED <<phase, result>>
  <2>1. out[d] \in Seq(Message) /\ Len(out[d]) \in Nat
    BY <1>1, LenProperties DEF Queues
  <2>2. Append(out[d], m) \in Seq(Message) /\ Len(Append(out[d], m)) <= OutCap
    BY <1>3, <2>1, ItemsAppend, Bounds
  <2>3. out' = [out EXCEPT ![d] = Append(out[d], m)]
    BY <1>3
  <2> QED
    BY <1>1, <1>2, <1>3, <2>2, <2>3, QueueStep
<1>4. CASE UNCHANGED <<phase, result, out>>
  BY <1>1, <1>2, <1>4 DEF Queues
<1>5. CASE End(d, WriterError(d)) /\ UNCHANGED out
  <2>1. WriterError(d) \in {"ws", "eof"} /\ WriterError(d) \in Results
    BY DEF WriterError, Results, Failures
  <2> QED
    BY <1>1, <1>5, <2>1, EndKeeps DEF Queues
<1> QED
  BY <1>3, <1>4, <1>5 DEF Send

-----------------------------------------------------------------------------
(* Action by action.                                                       *)

\* A dial keeps its daemon's part of the invariant, and the others as they are.
LEMMA DialStep ==
    ASSUME TypeOK, NEW d \in Daemon, Local(d), Dial(d),
           strangers' = strangers
    PROVE  Queues' /\ Inboxes' /\ Local(d)' /\ Others(d)
<1>1. Scalars /\ Queues /\ Inboxes
  BY TypeParts
<1>2. Queues' /\ Inboxes'
  BY <1>1 DEF Dial, Queues, Inboxes, loop, sending, world
<1>3. Bare(d)' /\ Counts(d)'
  BY <1>1 DEF Dial, Scalars, Local, Bare, Counts, Early, loop, sending, world
<1>4. Earned(d)' /\ Stops(d)' /\ Others(d)
  BY <1>1 DEF Dial, Scalars, Local, Earned, Stops, Others, loop, sending, world
<1> QED
  BY <1>2, <1>3, <1>4 DEF Local

\* An answered dial keeps its daemon's part of the invariant, and the others as they are.
LEMMA DialledStep ==
    ASSUME TypeOK, NEW d \in Daemon, Local(d), Dialled(d),
           strangers' = strangers
    PROVE  Queues' /\ Inboxes' /\ Local(d)' /\ Others(d)
<1>1. Scalars /\ Queues /\ Inboxes /\ phase[d] = "dialling"
  BY TypeParts DEF Dialled
<1>2. CASE revoked /\ Fails(d, "unknown_device")
  <2>1. "unknown_device" \in Results \ {"none", "ok"}
    BY DEF Results, Fatal
  <2> QED
    BY <1>1, <1>2, <2>1, FailsKeeps
<1>3. CASE /\ ~revoked /\ phase' = [phase EXCEPT ![d] = "hello"]
           /\ link' = [link EXCEPT ![d] = "up"] /\ gw' = [gw EXCEPT ![d] = "hello"]
           /\ UNCHANGED <<loop, result, attempt, sending, set, inbox, view, revoked, ousted, world>>
  <2>1. Queues' /\ Inboxes'
    BY <1>1, <1>3 DEF Queues, Inboxes, sending
  <2>2. inbox[d] = <<>> /\ Items(inbox[d]) = {}
    BY <1>1, ItemsEmpty DEF Local, Bare, Inboxes
  <2>3. Bare(d)' /\ Counts(d)'
    BY <1>1, <1>3, <2>2 DEF Scalars, Local, Bare, Counts, Early, loop
  <2>4. Earned(d)' /\ Stops(d)' /\ Others(d)
    BY <1>1, <1>3 DEF Scalars, Local, Earned, Stops, Others, loop
  <2> QED
    BY <2>1, <2>3, <2>4 DEF Local
<1>4. CASE d \in strangers /\ Fails(d, "unauthorized")
  <2>1. "unauthorized" \in Results \ {"none", "ok"}
    BY DEF Results, Fatal
  <2> QED
    BY <1>1, <1>4, <2>1, FailsKeeps
<1> QED
  BY <1>2, <1>3, <1>4 DEF Dialled

\* A refused dial keeps its daemon's part of the invariant, and the others as they are.
LEMMA RefusedStep ==
    ASSUME TypeOK, NEW d \in Daemon, Local(d), Refused(d),
           strangers' = strangers
    PROVE  Queues' /\ Inboxes' /\ Local(d)' /\ Others(d)
<1>1. Scalars /\ Queues /\ Inboxes
  BY TypeParts
<1>2. Queues' /\ Inboxes'
  BY <1>1 DEF Refused, Queues, Inboxes, sending
<1>3. /\ phase[d] = "dialling" /\ phase'[d] = "waiting" /\ result'[d] = "refused"
      /\ UNCHANGED <<inbox, gw, missed, ousted, revoked>>
      /\ \A e \in Daemon \ {d} : phase'[e] = phase[e] /\ result'[e] = result[e]
  BY <1>1 DEF Refused, Retry, Scalars, Fatal, loop, gateway
<1>4. Bare(d)' /\ Counts(d)' /\ Earned(d)' /\ Stops(d)'
  BY <1>3 DEF Local, Bare, Counts, Earned, Stops, Early
<1> QED
  BY <1>2, <1>3, <1>4 DEF Local, Others

\* A message of the handshake was the gateway's: a fatal one says what it decided.
LEMMA VerdictEarned ==
    ASSUME NEW d \in Daemon, Local(d), NEW m \in Closes, m \in Items(inbox[d])
    PROVE  /\ Verdict(m) \in Results \ {"none", "ok"}
           /\ Verdict(m) \in {"revoked", "unknown_device"} => revoked
           /\ Verdict(m) = "unauthorized" => revoked \/ d \in strangers
           /\ Verdict(m) = "replaced" => ousted[d] # "no"
<1>1. Verdict(m) \in Results \ {"none", "ok", "dead", "unknown_device"}
  BY VerdictType
<1>2. /\ Verdict(m) = "unauthorized" => m = "4401"
      /\ Verdict(m) = "revoked" => m = "4403"
      /\ Verdict(m) = "replaced" => m = "replaced"
  BY DEF Verdict, Closes
<1> QED
  BY <1>1, <1>2 DEF Local, Earned

\* A handshake message keeps its daemon's part of the invariant, and the others as they are.
LEMMA HandshakeStep ==
    ASSUME TypeOK, NEW d \in Daemon, Local(d), Handshake(d),
           strangers' = strangers
    PROVE  Queues' /\ Inboxes' /\ Local(d)' /\ Others(d)
<1> DEFINE m == Head(inbox[d])
<1>1. /\ Scalars /\ Queues /\ Inboxes /\ inbox[d] # <<>> /\ inbox[d] \in Seq(Pools)
      /\ phase[d] \in {"hello", "auth", "verdict"}
  BY TypeParts DEF Handshake, Inboxes
<1>2. m \in Items(inbox[d])
  BY <1>1, ItemsTail
<1>3. CASE phase[d] \in {"hello", "auth"} /\ m = "welcome" /\ Start(d)
  <2>1. /\ Inboxes' /\ (\A e \in Daemon \ {d} : inbox'[e] = inbox[e])
        /\ Items(inbox'[d]) \subseteq Items(inbox[d])
    BY <1>1, <1>3, Reads DEF Start
  <2>2. PICK n \in 0 .. MaxEdits : out' = [out EXCEPT ![d] = <<Servers(n)>>]
    BY <1>1, <1>3 DEF Start, Scalars
  <2>3. Queues'
    <3>1. Servers(n) \in Message
      BY Alphabets
    <3>2. <<Servers(n)>> \in Seq(Message) /\ Len(<<Servers(n)>>) <= OutCap
      BY <3>1, Singles, Bounds
    <3> QED
      BY <1>1, <2>2, <3>2, QueueStep
  <2>4. /\ phase'[d] = "live" /\ UNCHANGED <<result, missed, gw, ousted, revoked>>
        /\ \A e \in Daemon \ {d} : phase'[e] = phase[e]
    BY <1>1, <1>3 DEF Start, Scalars, loop, gateway
  <2>5. gw[d] \notin Early
    BY <1>2, <1>3 DEF Local, Bare
  <2>6. Bare(d)' /\ Counts(d)'
    BY <1>1, <2>4, <2>5, Bounds DEF Local, Bare, Counts
  <2>7. Earned(d)' /\ Stops(d)'
    BY <2>1, <2>4 DEF Local, Earned, Stops
  <2> QED
    BY <2>1, <2>3, <2>4, <2>6, <2>7 DEF Local, Others
<1>4. CASE /\ phase[d] = "hello" /\ m = "challenge"
           /\ phase' = [phase EXCEPT ![d] = "auth"]
           /\ inbox' = [inbox EXCEPT ![d] = Tail(@)]
           /\ gw' = [gw EXCEPT ![d] = IF @ = "challenged" /\ link[d] = "up" THEN "auth" ELSE @]
           /\ UNCHANGED <<loop, result, attempt, sending, set, link, view, revoked, ousted, world>>
  <2>1. /\ Inboxes' /\ (\A e \in Daemon \ {d} : inbox'[e] = inbox[e])
        /\ Items(inbox'[d]) \subseteq Items(inbox[d])
    BY <1>1, <1>4, Reads
  <2>2. Queues'
    BY <1>1, <1>4 DEF Queues, sending
  <2>3. /\ phase'[d] = "auth" /\ (gw'[d] = gw[d] \/ gw[d] = "challenged")
        /\ UNCHANGED <<result, missed, ousted, revoked>>
        /\ \A e \in Daemon \ {d} : phase'[e] = phase[e] /\ gw'[e] = gw[e]
    BY <1>1, <1>4 DEF Scalars, loop
  <2>4. Bare(d)' /\ Counts(d)'
    BY <1>4, <2>1, <2>3 DEF Local, Bare, Counts, Early
  <2>5. Earned(d)' /\ Stops(d)'
    BY <2>1, <2>3 DEF Local, Earned, Stops
  <2> QED
    BY <2>1, <2>2, <2>3, <2>4, <2>5 DEF Local, Others
<1>5. CASE /\ phase[d] \in {"hello", "auth"} /\ m = "unauthorized"
           /\ phase' = [phase EXCEPT ![d] = IF @ = "auth" THEN "verdict" ELSE @]
           /\ inbox' = [inbox EXCEPT ![d] = Tail(@)]
           /\ UNCHANGED <<loop, result, attempt, sending, set, link, gateway, world>>
  <2>1. /\ Inboxes' /\ (\A e \in Daemon \ {d} : inbox'[e] = inbox[e])
        /\ Items(inbox'[d]) \subseteq Items(inbox[d])
    BY <1>1, <1>5, Reads
  <2>2. Queues'
    BY <1>1, <1>5 DEF Queues, sending
  <2>3. /\ phase'[d] \in {"hello", "verdict"}
        /\ UNCHANGED <<result, missed, gw, ousted, revoked>>
        /\ \A e \in Daemon \ {d} : phase'[e] = phase[e]
    BY <1>1, <1>5 DEF Scalars, loop, gateway
  <2>4. (revoked \/ d \in strangers) /\ gw[d] \notin Early
    BY <1>2, <1>5 DEF Local, Earned, Bare
  <2>5. phase'[d] = "hello" => phase[d] = "hello"
    BY <1>1, <1>5 DEF Scalars
  <2>6. Bare(d)' /\ Counts(d)'
    BY <1>5, <2>3, <2>4, <2>5 DEF Local, Bare, Counts
  <2>7. Earned(d)' /\ Stops(d)'
    BY <2>1, <2>3, <2>4 DEF Local, Earned, Stops
  <2> QED
    BY <2>1, <2>2, <2>3, <2>6, <2>7 DEF Local, Others
<1>6. CASE m \in Closes /\ Fails(d, Verdict(m))
  BY <1>1, <1>2, <1>6, VerdictEarned, FailsKeeps
<1>7. CASE /\ phase[d] = "verdict"
           /\ Fails(d, IF m \in Closes \ {"eof"} THEN Verdict(m) ELSE "unauthorized")
  <2>1. "unauthorized" \in Results \ {"none", "ok"} /\ (revoked \/ d \in strangers)
    BY <1>7 DEF Results, Fatal, Local, Earned
  <2>2. CASE m \in Closes \ {"eof"}
    BY <1>1, <1>2, <1>7, <2>2, VerdictEarned, FailsKeeps
  <2>3. CASE m \notin Closes \ {"eof"}
    BY <1>1, <1>7, <2>1, <2>3, FailsKeeps
  <2> QED
    BY <2>2, <2>3
<1> QED
  BY <1>3, <1>4, <1>5, <1>6, <1>7 DEF Handshake

\* A handshake timeout keeps its daemon's part of the invariant, and the others as they are.
LEMMA HandshakeTimeoutStep ==
    ASSUME TypeOK, NEW d \in Daemon, Local(d), HandshakeTimeout(d),
           strangers' = strangers
    PROVE  Queues' /\ Inboxes' /\ Local(d)' /\ Others(d)
<1>1. {"unauthorized", "timeout"} \subseteq Results \ {"none", "ok"}
  BY DEF Results, Fatal, Failures
<1>2. CASE phase[d] = "verdict"
  BY <1>1, <1>2, FailsKeeps DEF HandshakeTimeout, Local, Earned
<1>3. CASE phase[d] \in {"hello", "auth"}
  BY <1>1, <1>3, FailsKeeps DEF HandshakeTimeout
<1> QED
  BY <1>2, <1>3 DEF HandshakeTimeout

\* A ping tick keeps its daemon's part of the invariant, and the others as they are.
LEMMA TickStep ==
    ASSUME TypeOK, NEW d \in Daemon, Local(d), Tick(d),
           strangers' = strangers
    PROVE  Queues' /\ Inboxes' /\ Local(d)' /\ Others(d)
<1>1. Scalars /\ Queues /\ Inboxes /\ phase[d] = "live"
  BY TypeParts DEF Tick, Idle
<1>2. /\ Inboxes' /\ UNCHANGED <<inbox, gw, revoked, ousted>>
      /\ \A e \in Daemon \ {d} : missed'[e] = missed[e]
  BY <1>1 DEF Tick, gateway, Inboxes, Scalars
<1>3. CASE End(d, "dead") /\ UNCHANGED out
  <2>1. "dead" \in Results \ {"none"}
    BY DEF Results, Failures
  <2> QED
    BY <1>1, <1>2, <1>3, <2>1, EndKeeps DEF Others, Queues
<1>4. CASE Send(d, Ping, "ping") /\ (~awaiting[d] \/ missed'[d] < MaxMissed)
  <2>1. missed'[d] < MaxMissed
    BY <1>1, <1>4 DEF Tick, Local, Counts, Scalars
  <2> QED
    BY <1>1, <1>2, <1>4, <2>1, SendKeeps, Alphabets DEF Others
<1> QED
  BY <1>3, <1>4 DEF Tick

\* A change of the set keeps its daemon's part of the invariant, and the others as they are.
LEMMA ChangedStep ==
    ASSUME TypeOK, NEW d \in Daemon, Local(d), Changed(d),
           strangers' = strangers
    PROVE  Queues' /\ Inboxes' /\ Local(d)' /\ Others(d)
<1>1. Scalars /\ Queues /\ Inboxes /\ phase[d] = "live"
  BY TypeParts DEF Changed, Idle
<1>2. Inboxes' /\ UNCHANGED <<inbox, gw, revoked, ousted, missed>>
  BY <1>1 DEF Changed, gateway, Inboxes
<1>3. Servers(config[d]) \in Message /\ missed'[d] < MaxMissed
  BY <1>1, <1>2, Alphabets DEF Scalars, Local, Counts
<1> QED
  BY <1>1, <1>2, <1>3, SendKeeps DEF Changed, Others

\* A blocked send that goes on keeps its daemon's part of the invariant, and the others as they are.
LEMMA UnblockedStep ==
    ASSUME TypeOK, NEW d \in Daemon, Local(d), Unblocked(d),
           strangers' = strangers
    PROVE  Queues' /\ Inboxes' /\ Local(d)' /\ Others(d)
<1>1. Scalars /\ Queues /\ Inboxes /\ phase[d] = "live"
  BY TypeParts DEF Unblocked
<1>2. Inboxes' /\ UNCHANGED <<inbox, gw, revoked, ousted, missed>>
  BY <1>1 DEF Unblocked, gateway, Inboxes
<1>3. PICK m \in Message : Send(d, m, task[d])
  BY <1>1, Alphabets DEF Unblocked, Scalars
<1>4. missed'[d] < MaxMissed
  BY <1>1, <1>2 DEF Local, Counts
<1> QED
  BY <1>1, <1>2, <1>3, <1>4, SendKeeps DEF Others

\* The end of the writer keeps its daemon's part of the invariant, and the others as they are.
LEMMA WriterEndedStep ==
    ASSUME TypeOK, NEW d \in Daemon, Local(d), WriterEnded(d),
           strangers' = strangers
    PROVE  Queues' /\ Inboxes' /\ Local(d)' /\ Others(d)
<1>1. Scalars /\ Queues /\ Inboxes /\ phase[d] = "live"
  BY TypeParts DEF WriterEnded, Idle
<1>2. Queues' /\ Inboxes' /\ UNCHANGED <<inbox, gw, revoked, ousted, missed>>
  BY <1>1 DEF WriterEnded, gateway, sending, Inboxes, Queues
<1>3. WriterError(d) \in {"ws", "eof"} /\ WriterError(d) \in Results
  BY DEF WriterError, Results, Failures
<1> QED
  BY <1>1, <1>2, <1>3, EndKeeps DEF WriterEnded, Others

\* A message read by the loop keeps its daemon's part of the invariant, and the others as they are.
LEMMA IncomingStep ==
    ASSUME TypeOK, NEW d \in Daemon, Local(d), Incoming(d),
           strangers' = strangers
    PROVE  Queues' /\ Inboxes' /\ Local(d)' /\ Others(d)
<1>1. Scalars /\ Queues /\ Inboxes /\ phase[d] = "live"
  BY TypeParts DEF Incoming, Idle
<1>2. /\ Inboxes' /\ (\A e \in Daemon \ {d} : inbox'[e] = inbox[e])
      /\ Head(inbox[d]) \in Items(inbox[d]) /\ Items(inbox'[d]) \subseteq Items(inbox[d])
  BY <1>1, Reads DEF Incoming
<1>3. Queues' /\ UNCHANGED <<gw, revoked, ousted>>
  BY <1>1 DEF Incoming, Queues, sending, gateway
<1>4. missed'[d] \in {0, missed[d]} /\ \A e \in Daemon \ {d} : missed'[e] = missed[e]
  BY <1>1 DEF Incoming, Scalars
<1>5. CASE d \in Once /\ End(d, "ok")
  <2>1. "ok" \in Results \ {"none"}
    BY DEF Results
  <2> QED
    BY <1>1, <1>2, <1>3, <1>4, <1>5, <2>1, EndKeeps DEF Others
<1>6. CASE UNCHANGED <<phase, result, task>>
  <2>1. Bare(d)' /\ Counts(d)'
    BY <1>1, <1>2, <1>3, <1>4, <1>6, Bounds DEF Local, Bare, Counts, Early
  <2>2. Earned(d)' /\ Stops(d)'
    BY <1>2, <1>3, <1>6 DEF Local, Earned, Stops
  <2> QED
    BY <1>2, <1>3, <1>4, <1>6, <2>1, <2>2 DEF Local, Others
<1>7. CASE Head(inbox[d]) \in Closes /\ End(d, Verdict(Head(inbox[d])))
  BY <1>1, <1>2, <1>3, <1>4, <1>7, VerdictEarned, EndKeeps DEF Others
<1> QED
  BY <1>5, <1>6, <1>7 DEF Incoming

\* The --once goodbye keeps its daemon's part of the invariant, and the others as they are.
LEMMA GoodbyeStep ==
    ASSUME TypeOK, NEW d \in Daemon, Local(d), Goodbye(d),
           strangers' = strangers
    PROVE  Queues' /\ Inboxes' /\ Local(d)' /\ Others(d)
<1>1. Scalars /\ Queues /\ Inboxes /\ phase[d] = "ending" /\ Len(out[d]) < OutCap
  BY TypeParts DEF Goodbye
<1>2. out[d] \in Seq(Message) /\ Len(out[d]) \in Nat
  BY <1>1, LenProperties DEF Queues
<1>3. Append(out[d], Close) \in Seq(Message) /\ Len(Append(out[d], Close)) <= OutCap
  BY <1>1, <1>2, ItemsAppend, Alphabets, Bounds
<1>4. out' = [out EXCEPT ![d] = Append(out[d], Close)]
  BY DEF Goodbye
<1>5. Queues' /\ Inboxes'
  BY <1>1, <1>3, <1>4, QueueStep DEF Goodbye, Inboxes
<1>6. /\ phase'[d] = "closing" /\ UNCHANGED <<result, missed, inbox, gw, revoked, ousted>>
      /\ \A e \in Daemon \ {d} : phase'[e] = phase[e]
  BY <1>1 DEF Goodbye, Scalars, loop, gateway
<1>7. Bare(d)' /\ Counts(d)' /\ Earned(d)' /\ Stops(d)'
  BY <1>1, <1>6 DEF Local, Bare, Counts, Earned, Stops, Early
<1> QED
  BY <1>5, <1>6, <1>7 DEF Local, Others

\* The end of a connection keeps its daemon's part of the invariant, and the others as they are.
LEMMA LeaveStep ==
    ASSUME TypeOK, NEW d \in Daemon, Local(d), Leave(d),
           strangers' = strangers
    PROVE  Queues' /\ Inboxes' /\ Local(d)' /\ Others(d)
<1>1. Scalars /\ Queues /\ Inboxes /\ phase[d] \in {"ending", "closing"}
  BY TypeParts DEF Leave
<1>2. Queues' /\ Inboxes' /\ inbox'[d] = <<>> /\ \A e \in Daemon \ {d} : inbox'[e] = inbox[e]
  BY <1>1, Emptied DEF Leave, Hangup
<1>3. Items(inbox'[d]) = {}
  BY <1>1, <1>2, ItemsEmpty DEF Inboxes
<1>4. /\ phase'[d] \in {"stopped", "waiting"} /\ gw'[d] = "none" /\ missed'[d] = 0
      /\ phase'[d] = "stopped" => result[d] \in Fatal \/ result[d] = "ok"
      /\ UNCHANGED <<result, revoked, ousted>>
      /\ \A e \in Daemon \ {d} : phase'[e] = phase[e] /\ gw'[e] = gw[e] /\ missed'[e] = missed[e]
  BY <1>1 DEF Leave, Retry, Hangup, Scalars
<1>5. Bare(d)' /\ Counts(d)'
  BY <1>2, <1>4 DEF Bare, Counts, Early
<1>6. Earned(d)' /\ Stops(d)'
  BY <1>3, <1>4 DEF Local, Earned, Stops
<1> QED
  BY <1>2, <1>4, <1>5, <1>6 DEF Local, Others

\* A write keeps its daemon's part of the invariant, and the others as they are.
LEMMA WriterSendsStep ==
    ASSUME TypeOK, NEW d \in Daemon, Local(d), WriterSends(d),
           strangers' = strangers
    PROVE  Queues' /\ Inboxes' /\ Local(d)' /\ Others(d)
<1>1. Scalars /\ Queues /\ Inboxes /\ out[d] \in Seq(Message) /\ out[d] # <<>>
  BY TypeParts DEF WriterSends, Queues
<1>2. /\ Tail(out[d]) \in Seq(Message) /\ Len(Tail(out[d])) <= OutCap
      /\ <<>> \in Seq(Message) /\ Len(<<>>) <= OutCap
  <2>1. Len(out[d]) <= OutCap /\ Len(out[d]) \in Nat
    BY <1>1, LenProperties DEF Queues
  <2> QED
    BY <1>1, <2>1, ItemsTail, Bounds
<1>3. out' = [out EXCEPT ![d] = <<>>] \/ out' = [out EXCEPT ![d] = Tail(out[d])]
  BY DEF WriterSends
<1>4. Queues'
  BY <1>1, <1>2, <1>3, QueueStep
<1>5. gw' = gw \/ gw' = [gw EXCEPT ![d] = "none"]
  <2>1. CASE gw' = [gw EXCEPT ![d] = IF (link[d] = "up" /\ gw[d] = "open") /\ Head(out[d]) = Close
                                     THEN "none" ELSE @]
    <3>1. gw = [gw EXCEPT ![d] = gw[d]]
      BY <1>1 DEF Scalars
    <3> QED
      BY <2>1, <3>1
  <2> QED
    BY <2>1 DEF WriterSends
<1>6. \/ inbox' = inbox
      \/ gw[d] = "open" /\ inbox' = [inbox EXCEPT ![d] = Append(@, "pong")]
  <2>1. CASE inbox' = [inbox EXCEPT ![d] = IF (link[d] = "up" /\ gw[d] = "open")
                                              /\ Head(out[d]) = Ping
                                           THEN Append(@, "pong") ELSE @]
    <3>1. inbox = [inbox EXCEPT ![d] = inbox[d]]
      BY <1>1 DEF Inboxes
    <3> QED
      BY <2>1, <3>1
  <2> QED
    BY <2>1 DEF WriterSends
<1>7. "pong" \in Pools
  BY DEF Pools, Frames
<1>8. /\ Inboxes' /\ (\A e \in Daemon \ {d} : inbox'[e] = inbox[e])
      /\ \/ inbox' = inbox
         \/ gw[d] = "open" /\ Items(inbox'[d]) = Items(inbox[d]) \cup {"pong"}
  <2>1. CASE inbox' = inbox
    <3>1. Inboxes'
      BY <1>1, <2>1 DEF Inboxes
    <3> QED
      BY <2>1, <3>1
  <2>2. CASE gw[d] = "open" /\ inbox' = [inbox EXCEPT ![d] = Append(@, "pong")]
    BY <1>1, <1>7, <2>2, Adds
  <2> QED
    BY <1>6, <2>1, <2>2
<1>9. UNCHANGED <<phase, result, missed, revoked, ousted>>
  BY DEF WriterSends, loop
<1>10. Bare(d)' /\ Counts(d)'
  <2>1. gw'[d] = gw[d] \/ gw'[d] = "none"
    BY <1>1, <1>5 DEF Scalars
  <2>2. gw[d] = "open" \/ inbox'[d] = inbox[d]
    BY <1>8
  <2>3. "open" \notin Early /\ "none" \notin Early
    BY DEF Early
  <2>4. Bare(d)'
    BY <1>9, <2>1, <2>2, <2>3 DEF Local, Bare
  <2> QED
    BY <1>9, <2>4 DEF Local, Counts
<1>11. Earned(d)' /\ Stops(d)'
  BY <1>8, <1>9 DEF Local, Earned, Stops
<1> QED
  BY <1>1, <1>4, <1>5, <1>8, <1>9, <1>10, <1>11 DEF Local, Others, Scalars

\* One-frame deliveries.
LEMMA ArrivesOne ==
    ASSUME Inboxes, NEW d \in Daemon, NEW m \in Pools, Arrives(d, <<m>>)
    PROVE  /\ Inboxes' /\ \A e \in Daemon \ {d} : inbox'[e] = inbox[e]
           /\ Items(inbox'[d]) \subseteq Items(inbox[d]) \cup {m}
<1>1. <<m>> \in Seq(Pools) /\ Items(<<m>>) = {m}
  BY Singles
<1> QED
  BY <1>1, ArrivesItems

\* A challenge keeps its daemon's part of the invariant, and the others as they are.
LEMMA ChallengeStep ==
    ASSUME TypeOK, NEW d \in Daemon, Local(d), Challenge(d),
           strangers' = strangers
    PROVE  Queues' /\ Inboxes' /\ Local(d)' /\ Others(d)
<1>1. Scalars /\ Queues /\ Inboxes
  BY TypeParts
<1>2. "challenge" \in Pools
  BY DEF Pools, Frames
<1>3. /\ Inboxes' /\ (\A e \in Daemon \ {d} : inbox'[e] = inbox[e])
      /\ Items(inbox'[d]) \subseteq Items(inbox[d]) \cup {"challenge"}
  BY <1>1, <1>2, ArrivesOne DEF Challenge
<1>4. /\ Queues' /\ gw[d] = "hello" /\ gw'[d] = "challenged"
      /\ UNCHANGED <<phase, result, missed, revoked, ousted>>
      /\ \A e \in Daemon \ {d} : gw'[e] = gw[e]
  BY <1>1 DEF Challenge, Queues, Scalars, loop, sending
<1>5. Bare(d)' /\ Counts(d)'
  BY <1>3, <1>4 DEF Local, Bare, Counts, Early
<1>6. Earned(d)' /\ Stops(d)'
  BY <1>3, <1>4 DEF Local, Earned, Stops
<1> QED
  BY <1>3, <1>4, <1>5, <1>6 DEF Local, Others

\* A rejection keeps its daemon's part of the invariant, and the others as they are.
LEMMA RejectStep ==
    ASSUME TypeOK, NEW d \in Daemon, Local(d), Reject(d),
           strangers' = strangers
    PROVE  Queues' /\ Inboxes' /\ Local(d)' /\ Others(d)
<1>1. Scalars /\ Queues /\ Inboxes
  BY TypeParts
<1>2. PICK ms \in Seq(Pools) :
          /\ Arrives(d, ms) /\ Items(ms) \subseteq {"4403", "4401", "unauthorized", "eof"}
          /\ revoked \/ (d \in strangers /\ "4403" \notin Items(ms))
  <2>1. {"4403", "4401", "unauthorized", "eof"} \subseteq Pools
    BY DEF Pools, Frames, Closes
  <2>2. /\ <<"4403">> \in Seq(Pools) /\ <<"unauthorized", "4401">> \in Seq(Pools)
        /\ <<"unauthorized", "eof">> \in Seq(Pools)
    BY <2>1
  <2>3. /\ Items(<<"4403">>) = {"4403"}
        /\ Items(<<"unauthorized", "4401">>) = {"unauthorized", "4401"}
        /\ Items(<<"unauthorized", "eof">>) = {"unauthorized", "eof"}
    BY DEF Items
  <2>4. CASE revoked /\ Arrives(d, <<"4403">>)
    BY <2>2, <2>3, <2>4
  <2>5. CASE /\ revoked \/ d \in strangers
             /\ Arrives(d, <<"unauthorized", "4401">>) \/ Arrives(d, <<"unauthorized", "eof">>)
    BY <2>2, <2>3, <2>5
  <2> QED
    BY <2>4, <2>5 DEF Reject
<1>3. /\ Inboxes' /\ (\A e \in Daemon \ {d} : inbox'[e] = inbox[e])
      /\ Items(inbox'[d]) \subseteq Items(inbox[d]) \cup Items(ms)
  BY <1>1, <1>2, ArrivesItems
<1>4. /\ Queues' /\ gw[d] \in Early /\ gw'[d] = "none"
      /\ UNCHANGED <<phase, result, missed, revoked, ousted>>
      /\ \A e \in Daemon \ {d} : gw'[e] = gw[e]
  BY <1>1 DEF Reject, Queues, Scalars, loop, sending, Early
<1>5. Bare(d)' /\ Counts(d)'
  BY <1>4 DEF Local, Bare, Counts, Early
<1>6. Earned(d)'
  <2>1. Earned(d) /\ "replaced" \notin Items(ms)
    BY <1>2 DEF Local
  <2>2. CASE revoked
    BY <1>3, <1>4, <2>1, <2>2 DEF Earned
  <2>3. CASE d \in strangers /\ "4403" \notin Items(ms)
    BY <1>3, <1>4, <2>1, <2>3 DEF Earned
  <2> QED
    BY <1>2, <2>2, <2>3
<1>7. Stops(d)'
  BY <1>4 DEF Local, Stops
<1> QED
  BY <1>3, <1>4, <1>5, <1>6, <1>7 DEF Local, Others

\* A gateway restart keeps its daemon's part of the invariant, and the others as they are.
LEMMA RestartStep ==
    ASSUME TypeOK, NEW d \in Daemon, Local(d), Restart(d),
           strangers' = strangers
    PROVE  Queues' /\ Inboxes' /\ Local(d)' /\ Others(d)
<1>1. Scalars /\ Queues /\ Inboxes
  BY TypeParts
<1>2. "restart" \in Pools
  BY DEF Pools, Closes
<1>3. /\ Inboxes' /\ (\A e \in Daemon \ {d} : inbox'[e] = inbox[e])
      /\ Items(inbox'[d]) \subseteq Items(inbox[d]) \cup {"restart"}
  BY <1>1, <1>2, ArrivesOne DEF Restart
<1>4. /\ Queues' /\ gw[d] # "none" /\ gw'[d] = "none"
      /\ UNCHANGED <<phase, result, missed, revoked, ousted>>
      /\ \A e \in Daemon \ {d} : gw'[e] = gw[e]
  BY <1>1 DEF Restart, Queues, Scalars, loop, sending
<1>5. Bare(d)' /\ Counts(d)'
  BY <1>4 DEF Local, Bare, Counts, Early
<1>6. Earned(d)' /\ Stops(d)'
  BY <1>3, <1>4 DEF Local, Earned, Stops
<1> QED
  BY <1>3, <1>4, <1>5, <1>6 DEF Local, Others

\* An edit of the config keeps its daemon's part of the invariant, and the others as they are.
LEMMA EditStep ==
    ASSUME TypeOK, NEW d \in Daemon, Local(d), Edit(d),
           strangers' = strangers
    PROVE  Queues' /\ Inboxes' /\ Local(d)' /\ Others(d)
<1>1. Scalars /\ Queues /\ Inboxes
  BY TypeParts
<1>2. Queues' /\ UNCHANGED <<phase, inbox, gw, result, missed, revoked, ousted>>
  BY <1>1 DEF Edit, Queues, loop, sending, gateway
<1> QED
  BY <1>1, <1>2 DEF Inboxes, Local, Bare, Counts, Earned, Stops, Early, Others

\* A broken link keeps its daemon's part of the invariant, and the others as they are.
LEMMA CutStep ==
    ASSUME TypeOK, NEW d \in Daemon, Local(d), Cut(d),
           strangers' = strangers
    PROVE  Queues' /\ Inboxes' /\ Local(d)' /\ Others(d)
<1>1. Scalars /\ Queues /\ Inboxes /\ inbox[d] \in Seq(Pools) /\ "eof" \in Pools
  BY TypeParts DEF Inboxes, Pools, Closes
<1>2. PICK k \in 0 .. Len(inbox[d]) : inbox' = [inbox EXCEPT ![d] = Append(SubSeq(inbox[d], 1, k), "eof")]
  BY DEF Cut
<1>3. /\ SubSeq(inbox[d], 1, k) \in Seq(Pools)
      /\ Items(SubSeq(inbox[d], 1, k)) \subseteq Items(inbox[d])
  BY <1>1, ItemsPrefix
<1>4. PICK q \in Seq(Pools) : /\ inbox' = [inbox EXCEPT ![d] = q]
                              /\ Items(q) \subseteq Items(inbox[d]) \cup {"eof"}
  <2> DEFINE r == SubSeq(inbox[d], 1, k)
  <2>1. r \in Seq(Pools) /\ Items(r) \subseteq Items(inbox[d])
    BY <1>3
  <2> HIDE DEF r
  <2>2. Append(r, "eof") \in Seq(Pools) /\ Items(Append(r, "eof")) = Items(r) \cup {"eof"}
    BY <1>1, <2>1, ItemsAppend
  <2>3. inbox' = [inbox EXCEPT ![d] = Append(r, "eof")]
    BY <1>2 DEF r
  <2> QED
    BY <2>1, <2>2, <2>3
<1>5. /\ Inboxes' /\ (\A e \in Daemon \ {d} : inbox'[e] = inbox[e])
      /\ Items(inbox'[d]) \subseteq Items(inbox[d]) \cup {"eof"}
  BY <1>1, <1>4, InboxStep
<1>6. /\ Queues' /\ gw'[d] = "none" /\ (ousted[d] # "no" => ousted'[d] # "no")
      /\ phase[d] \in {"hello", "auth", "verdict", "live"}
      /\ UNCHANGED <<phase, result, missed, revoked>>
      /\ \A e \in Daemon \ {d} : gw'[e] = gw[e] /\ ousted'[e] = ousted[e]
  BY <1>1 DEF Cut, Lost, Connected, Queues, Scalars, loop, sending
<1>7. Bare(d)' /\ Counts(d)'
  BY <1>6 DEF Local, Bare, Counts, Early
<1>8. Earned(d)' /\ Stops(d)'
  BY <1>5, <1>6 DEF Local, Earned, Stops
<1> QED
  BY <1>5, <1>6, <1>7, <1>8 DEF Local, Others

\* A silent link keeps its daemon's part of the invariant, and the others as they are.
LEMMA HushStep ==
    ASSUME TypeOK, NEW d \in Daemon, Local(d), Hush(d),
           strangers' = strangers
    PROVE  Queues' /\ Inboxes' /\ Local(d)' /\ Others(d)
<1>1. Scalars /\ Queues /\ Inboxes /\ inbox[d] \in Seq(Pools)
  BY TypeParts DEF Inboxes
<1>2. PICK k \in 0 .. Len(inbox[d]) : inbox' = [inbox EXCEPT ![d] = SubSeq(inbox[d], 1, k)]
  BY DEF Hush
<1>3. /\ SubSeq(inbox[d], 1, k) \in Seq(Pools)
      /\ Items(SubSeq(inbox[d], 1, k)) \subseteq Items(inbox[d])
  BY <1>1, ItemsPrefix
<1>4. /\ Inboxes' /\ (\A e \in Daemon \ {d} : inbox'[e] = inbox[e])
      /\ Items(inbox'[d]) \subseteq Items(inbox[d])
  BY <1>1, <1>2, <1>3, InboxStep
<1>5. /\ Queues' /\ (ousted[d] # "no" => ousted'[d] # "no")
      /\ phase[d] \in {"hello", "auth", "verdict", "live"}
      /\ UNCHANGED <<phase, result, missed, revoked, gw>>
      /\ \A e \in Daemon \ {d} : ousted'[e] = ousted[e]
  BY <1>1 DEF Hush, Lost, Connected, Queues, Scalars, loop, sending
<1>6. Bare(d)' /\ Counts(d)'
  BY <1>4, <1>5 DEF Local, Bare, Counts, Early
<1>7. Earned(d)' /\ Stops(d)'
  BY <1>4, <1>5 DEF Local, Earned, Stops
<1> QED
  BY <1>4, <1>5, <1>6, <1>7 DEF Local, Others

\* A write that fails keeps its daemon's part of the invariant, and the others as they are.
LEMMA ResetStep ==
    ASSUME TypeOK, NEW d \in Daemon, Local(d), Reset(d),
           strangers' = strangers
    PROVE  Queues' /\ Inboxes' /\ Local(d)' /\ Others(d)
<1>1. Scalars /\ Queues /\ Inboxes
  BY TypeParts
<1>2. Queues' /\ Inboxes'
  BY <1>1, Emptied DEF Reset, Inboxes
<1>3. /\ UNCHANGED <<phase, result, missed, revoked, gw, inbox>>
      /\ ousted[d] # "no" => ousted'[d] # "no"
      /\ \A e \in Daemon \ {d} : ousted'[e] = ousted[e]
  BY <1>1 DEF Reset, Lost, Scalars, loop
<1>4. Bare(d)' /\ Counts(d)'
  BY <1>3 DEF Local, Bare, Counts, Early
<1>5. Earned(d)' /\ Stops(d)'
  BY <1>3 DEF Local, Earned, Stops
<1> QED
  BY <1>2, <1>3, <1>4, <1>5 DEF Local, Others

\* A welcome, and the notice to the connection it replaces, keeps the invariant's part on every daemon.
LEMMA WelcomeStep ==
    ASSUME TypeOK, NEW d \in Daemon, \A e \in Daemon : Local(e), Welcome(d),
           strangers' = strangers
    PROVE  /\ Queues' /\ Inboxes' /\ \A e \in Daemon : Local(e)'
           /\ ousted'[d] = "no"
<1> DEFINE old == {e \in Daemon \ {d} : gw[e] = "open"}
<1>1. Scalars /\ Queues /\ Inboxes /\ {"welcome", "replaced"} \subseteq Pools
  BY TypeParts DEF Pools, Frames, Closes
<1>2. /\ Queues' /\ gw[d] \in Early /\ UNCHANGED <<phase, result, missed, revoked>>
      /\ gw' = [e \in Daemon |-> IF e = d THEN "open" ELSE IF e \in old THEN "none" ELSE gw[e]]
      /\ ousted' = [e \in Daemon |-> IF e = d THEN "no"
                                     ELSE IF e \in old THEN (IF link[e] = "up" THEN "told" ELSE "lost")
                                     ELSE ousted[e]]
      /\ inbox' = [e \in Daemon |->
                     IF link[e] # "up" THEN inbox[e]
                     ELSE IF e = d THEN Append(inbox[e], "welcome")
                     ELSE IF e \in old THEN Append(inbox[e], "replaced") ELSE inbox[e]]
  BY <1>1 DEF Welcome, Queues, Early, loop, sending
<1>3. ASSUME NEW e \in Daemon
      PROVE  /\ inbox'[e] \in Seq(Pools)
             /\ inbox'[e] = inbox[e] \/ e = d \/ e \in old
             /\ e = d => Items(inbox'[e]) \subseteq Items(inbox[e]) \cup {"welcome"}
             /\ e \in old => Items(inbox'[e]) \subseteq Items(inbox[e]) \cup {"replaced"}
  <2>1. inbox[e] \in Seq(Pools)
    BY <1>1 DEF Inboxes
  <2>2. /\ Append(inbox[e], "welcome") \in Seq(Pools)
        /\ Items(Append(inbox[e], "welcome")) = Items(inbox[e]) \cup {"welcome"}
        /\ Append(inbox[e], "replaced") \in Seq(Pools)
        /\ Items(Append(inbox[e], "replaced")) = Items(inbox[e]) \cup {"replaced"}
    BY <1>1, <2>1, ItemsAppend
  <2>3. inbox'[e] = IF link[e] # "up" THEN inbox[e]
                    ELSE IF e = d THEN Append(inbox[e], "welcome")
                    ELSE IF e \in old THEN Append(inbox[e], "replaced") ELSE inbox[e]
    BY <1>2
  <2> HIDE DEF old
  <2>4. e \in old => e # d
    BY DEF old
  <2> QED
    BY <2>1, <2>2, <2>3, <2>4
<1>4. Inboxes'
  <2>1. inbox' = [e \in Daemon |-> inbox'[e]]
    BY <1>2
  <2> QED
    BY <1>3, <2>1 DEF Inboxes
<1>5. ASSUME NEW e \in Daemon PROVE Local(e)'
  <2>1. CASE e = d
    <3>1. /\ phase[d] \in {"hello", "auth"} /\ result[d] = "none"
          /\ Items(inbox[d]) \subseteq {"challenge"} /\ gw'[d] = "open"
      BY <1>2 DEF Local, Bare
    <3>2. Bare(d)' /\ Counts(d)'
      BY <1>2, <3>1 DEF Local, Bare, Counts, Early
    <3>3. /\ Items(inbox'[d]) \subseteq {"challenge", "welcome"} /\ phase'[d] # "verdict"
          /\ phase'[d] # "stopped" /\ result'[d] = "none"
      BY <1>2, <1>3, <2>1, <3>1
    <3>4. Earned(d)' /\ Stops(d)'
      BY <3>3 DEF Earned, Stops
    <3> QED
      BY <2>1, <3>2, <3>4 DEF Local
  <2>2. CASE e \in old
    <3>1. /\ gw[e] = "open" /\ gw'[e] = "none" /\ ousted'[e] # "no"
          /\ phase[e] \notin {"waiting", "dialling"}
      BY <1>2, <2>2 DEF Local, Bare
    <3>2. Bare(e)' /\ Counts(e)'
      BY <1>2, <3>1 DEF Local, Bare, Counts, Early
    <3>3. Earned(e)' /\ Stops(e)'
      BY <1>2, <1>3, <2>2, <3>1 DEF Local, Earned, Stops
    <3> QED
      BY <3>2, <3>3 DEF Local
  <2>3. CASE e # d /\ e \notin old
    <3>1. gw'[e] = gw[e] /\ ousted'[e] = ousted[e] /\ inbox'[e] = inbox[e]
      BY <1>2, <1>3, <2>3
    <3> QED
      BY <1>2, <3>1 DEF Local, Bare, Counts, Earned, Stops, Early
  <2> QED
    BY <2>1, <2>2, <2>3
<1> QED
  BY <1>2, <1>4, <1>5

\* A revocation keeps the invariant's part on every daemon.
LEMMA RevokeStep ==
    ASSUME TypeOK, \A e \in Daemon : Local(e), Revoke,
           strangers' = strangers
    PROVE  Scalars' /\ Queues' /\ Inboxes' /\ \A e \in Daemon : Local(e)'
<1>1. Scalars /\ Queues /\ Inboxes /\ "4403" \in Pools
  BY TypeParts DEF Pools, Closes
<1>2. /\ Queues' /\ revoked' = TRUE
      /\ UNCHANGED <<phase, result, missed, ousted>>
      /\ gw' = [d \in Daemon |-> IF gw[d] = "open" THEN "none" ELSE gw[d]]
      /\ inbox' = [d \in Daemon |-> IF gw[d] = "open" /\ link[d] = "up" THEN Append(inbox[d], "4403")
                                    ELSE inbox[d]]
  BY <1>1 DEF Revoke, Queues, loop, sending
<1>3. Scalars'
  <2>1. gw' \in [Daemon -> {"none", "hello", "challenged", "auth", "open"}]
    BY <1>1, <1>2 DEF Scalars
  <2> QED
    BY <1>1, <1>2, <2>1 DEF Revoke, Scalars, loop, sending, world
<1>4. ASSUME NEW e \in Daemon
      PROVE  /\ inbox'[e] \in Seq(Pools)
             /\ \/ inbox'[e] = inbox[e]
                \/ gw[e] = "open" /\ Items(inbox'[e]) = Items(inbox[e]) \cup {"4403"}
  <2>1. inbox[e] \in Seq(Pools)
    BY <1>1 DEF Inboxes
  <2>2. /\ Append(inbox[e], "4403") \in Seq(Pools)
        /\ Items(Append(inbox[e], "4403")) = Items(inbox[e]) \cup {"4403"}
    BY <1>1, <2>1, ItemsAppend
  <2>3. CASE inbox'[e] = inbox[e]
    BY <2>1, <2>3
  <2>4. CASE gw[e] = "open" /\ inbox'[e] = Append(inbox[e], "4403")
    BY <2>2, <2>4
  <2> QED
    BY <1>2, <2>3, <2>4
<1>5. Inboxes'
  <2>1. inbox' = [e \in Daemon |-> inbox'[e]]
    BY <1>2
  <2> QED
    BY <1>4, <2>1 DEF Inboxes
<1>6. ASSUME NEW e \in Daemon PROVE Local(e)'
  <2>1. Local(e) /\ gw'[e] = (IF gw[e] = "open" THEN "none" ELSE gw[e])
    BY <1>2
  <2>2. Bare(e)' /\ Counts(e)'
    BY <1>2, <1>4, <2>1 DEF Local, Bare, Counts, Early
  <2>3. inbox'[e] = inbox[e] \/ Items(inbox'[e]) = Items(inbox[e]) \cup {"4403"}
    BY <1>4
  <2>4. "replaced" \in Items(inbox'[e]) => "replaced" \in Items(inbox[e])
    BY <2>3
  <2>5. Earned(e)' /\ Stops(e)'
    BY <1>2, <2>1, <2>4 DEF Local, Earned, Stops
  <2> QED
    BY <2>2, <2>5 DEF Local
<1> QED
  BY <1>2, <1>3, <1>5, <1>6

-----------------------------------------------------------------------------
(* The invariant.                                                          *)

\* The invariant holds at the start.
LEMMA InitInv == Init => Inv
<1> SUFFICES ASSUME Init PROVE Inv
  OBVIOUS
<1>1. <<>> \in Seq(Message) /\ <<>> \in Seq(Pools) /\ Len(<<>>) = 0
  OBVIOUS
<1>2. Scalars
  <2>1. /\ attempt \in [Daemon -> 0 .. MaxAttempt] /\ missed \in [Daemon -> 0 .. MaxMissed]
        /\ set \in [Daemon -> 0 .. MaxEdits] /\ config \in [Daemon -> 0 .. MaxEdits]
        /\ view \in [Daemon -> 0 .. Untold] /\ faults \in 0 .. MaxFaults
    BY Bounds DEF Init
  <2>2. result \in [Daemon -> Results]
    BY DEF Init, Results
  <2> QED
    BY <2>1, <2>2 DEF Init, Scalars
<1>3. Queues /\ Inboxes
  BY <1>1, Bounds DEF Init, Queues, Inboxes
<1>4. Newest
  BY DEF Init, Newest
<1>5. Items(<<>>) = {}
  BY <1>1, ItemsEmpty
<1>6. ASSUME NEW d \in Daemon PROVE Local(d)
  <2>1. Bare(d) /\ Counts(d)
    BY DEF Init, Bare, Counts, Early
  <2>2. Earned(d) /\ Stops(d)
    BY <1>5 DEF Init, Earned, Stops
  <2> QED
    BY <2>1, <2>2 DEF Local
<1> QED
  BY <1>2, <1>3, <1>4, <1>6, TypeParts DEF Inv

\* What others do not see of a step does not disturb them.
LEMMA OthersKeep ==
    ASSUME NEW d \in Daemon, \A e \in Daemon : Local(e), Local(d)', Others(d),
           strangers' = strangers
    PROVE  \A e \in Daemon : Local(e)'
<1>1. ASSUME NEW e \in Daemon \ {d} PROVE Local(e)'
  BY <1>1 DEF Others, Local, Bare, Counts, Earned, Stops, Early
<1> QED
  BY <1>1

\* No step of a daemon changes who holds the device's key.
LEMMA KeysStay ==
    ASSUME NEW d \in Daemon, Step(d) \/ Challenge(d) \/ Reject(d) \/ WriterSends(d) \/ Welcome(d)
           \/ Refused(d) \/ Cut(d) \/ Hush(d) \/ Reset(d) \/ Restart(d) \/ Edit(d)
    PROVE  strangers' = strangers
<1>1. CASE Step(d)
  BY <1>1 DEF Step, Dial, Dialled, Fails, Handshake, Start, HandshakeTimeout, Tick, Changed,
              Unblocked, WriterEnded, Incoming, Goodbye, Leave, world
<1>2. CASE Challenge(d) \/ Reject(d) \/ WriterSends(d) \/ Welcome(d)
  BY <1>2 DEF Challenge, Reject, WriterSends, Welcome, world
<1>3. CASE Refused(d) \/ Cut(d) \/ Hush(d) \/ Reset(d) \/ Restart(d) \/ Edit(d)
  BY <1>3 DEF Refused, Cut, Hush, Reset, Restart, Edit
<1> QED
  BY <1>1, <1>2, <1>3

\* A step that touches one daemon: only a notice under way may be marked as lost.
LEMMA StepInv ==
    ASSUME Inv, NEW d \in Daemon, Step(d) \/ Challenge(d) \/ Reject(d) \/ WriterSends(d)
           \/ Refused(d) \/ Cut(d) \/ Hush(d) \/ Reset(d) \/ Restart(d) \/ Edit(d)
    PROVE  Inv'
<1>1. /\ TypeOK /\ Newest /\ Local(d) /\ (\A e \in Daemon : Local(e))
      /\ Scalars /\ Queues /\ Inboxes /\ strangers' = strangers
  BY TypeParts, KeysStay DEF Inv
<1>2. Scalars' /\ Queues' /\ Inboxes' /\ Local(d)' /\ Others(d)
  <2>1. CASE Dial(d)
    BY <1>1, <2>1, DialScalars, DialStep
  <2>2. CASE Dialled(d)
    BY <1>1, <2>2, DialledScalars, DialledStep
  <2>3. CASE Handshake(d)
    BY <1>1, <2>3, HandshakeScalars, HandshakeStep
  <2>4. CASE HandshakeTimeout(d)
    BY <1>1, <2>4, HandshakeTimeoutScalars, HandshakeTimeoutStep
  <2>5. CASE Tick(d)
    BY <1>1, <2>5, TickScalars, TickStep DEF Local
  <2>6. CASE Changed(d)
    BY <1>1, <2>6, ChangedScalars, ChangedStep
  <2>7. CASE Unblocked(d)
    BY <1>1, <2>7, UnblockedScalars, UnblockedStep
  <2>8. CASE WriterEnded(d)
    BY <1>1, <2>8, WriterEndedScalars, WriterEndedStep
  <2>9. CASE Incoming(d)
    BY <1>1, <2>9, IncomingScalars, IncomingStep
  <2>10. CASE Goodbye(d)
    BY <1>1, <2>10, GoodbyeScalars, GoodbyeStep
  <2>11. CASE Leave(d)
    BY <1>1, <2>11, LeaveScalars, LeaveStep
  <2>12. CASE Challenge(d)
    BY <1>1, <2>12, ChallengeScalars, ChallengeStep
  <2>13. CASE Reject(d)
    BY <1>1, <2>13, RejectScalars, RejectStep
  <2>14. CASE WriterSends(d)
    BY <1>1, <2>14, WriterSendsScalars, WriterSendsStep
  <2>15. CASE Refused(d)
    BY <1>1, <2>15, RefusedScalars, RefusedStep
  <2>16. CASE Cut(d)
    BY <1>1, <2>16, CutScalars, CutStep
  <2>17. CASE Hush(d)
    BY <1>1, <2>17, HushScalars, HushStep
  <2>18. CASE Restart(d)
    BY <1>1, <2>18, RestartScalars, RestartStep
  <2>19. CASE Edit(d)
    BY <1>1, <2>19, EditScalars, EditStep
  <2>20. CASE Reset(d)
    BY <1>1, <2>20, ResetScalars, ResetStep
  <2> QED
    BY <2>1, <2>2, <2>3, <2>4, <2>5, <2>6, <2>7, <2>8, <2>9, <2>10, <2>11, <2>12, <2>13, <2>14,
       <2>15, <2>16, <2>17, <2>18, <2>19, <2>20 DEF Step
<1>3. \A e \in Daemon : Local(e)'
  BY <1>1, <1>2, OthersKeep
<1>4. Newest'
  <2>1. \A e \in Daemon : ousted[e] = "no" => ousted'[e] = "no"
    <3>1. CASE Cut(d) \/ Hush(d) \/ Reset(d)
      BY <1>1, <3>1 DEF Cut, Hush, Reset, Lost, Scalars
    <3>2. CASE ousted' = ousted
      BY <3>2
    <3>3. CASE Step(d)
      BY <3>3 DEF Step, Dial, Dialled, Fails, Handshake, Start, HandshakeTimeout, Tick, Changed,
                  Unblocked, WriterEnded, Incoming, Goodbye, Leave, gateway
    <3>4. CASE Challenge(d) \/ Reject(d) \/ WriterSends(d) \/ Refused(d) \/ Restart(d) \/ Edit(d)
      BY <3>4 DEF Challenge, Reject, WriterSends, Refused, Restart, Edit, gateway
    <3> QED
      BY <3>1, <3>3, <3>4
  <2> QED
    BY <1>1, <2>1 DEF Newest
<1> QED
  BY <1>2, <1>3, <1>4, TypePartsNext DEF Inv

\* Every step keeps the invariant.
LEMMA NextInv == Inv /\ [Next]_vars => Inv'
<1> SUFFICES ASSUME Inv, [Next]_vars PROVE Inv'
  OBVIOUS
<1>1. ASSUME NEW d \in Daemon, Step(d) \/ Challenge(d) \/ Reject(d) \/ WriterSends(d)
             \/ Refused(d) \/ Cut(d) \/ Hush(d) \/ Reset(d) \/ Restart(d) \/ Edit(d)
      PROVE  Inv'
  BY <1>1, StepInv
<1>2. ASSUME NEW d \in Daemon, Welcome(d) PROVE Inv'
  <2>1. TypeOK /\ (\A e \in Daemon : Local(e)) /\ Scalars /\ strangers' = strangers
    BY <1>2, TypeParts, KeysStay DEF Inv
  <2>2. d \notin strangers
    BY <1>2 DEF Welcome
  <2> QED
    BY <1>2, <2>1, <2>2, WelcomeScalars, WelcomeStep, TypePartsNext DEF Inv, Newest
<1>3. CASE Revoke
  <2>1. /\ TypeOK /\ Newest /\ (\A e \in Daemon : Local(e))
        /\ ousted' = ousted /\ strangers' = strangers
    BY <1>3 DEF Inv, Revoke, world
  <2> QED
    BY <1>3, <2>1, RevokeStep, TypePartsNext DEF Inv, Newest
<1>4. CASE UNCHANGED vars
  <2>1. UNCHANGED <<phase, task, awaiting, missed, overdue, result, attempt, out, writer, set, link,
                    inbox, gw, view, revoked, ousted, config, faults, strangers>>
    BY <1>4 DEF vars, loop, sending, gateway, world
  <2>2. TypeOK'
    BY <2>1 DEF Inv, TypeOK
  <2>3. Newest' /\ \A d \in Daemon : Local(d)'
    BY <2>1 DEF Inv, Newest, Local, Bare, Counts, Earned, Stops, Early
  <2> QED
    BY <2>2, <2>3 DEF Inv
<1> QED
  BY <1>1, <1>2, <1>3, <1>4 DEF Next, Gateway

\* So it always holds.
LEMMA Invariance == Spec => []Inv
BY InitInv, NextInv, PTL DEF Spec

-----------------------------------------------------------------------------
(* What loop, queue and inbox have to do with the gateway's end.           *)

\* What ends a connection, once it is read.
Ends == Closes \cup {"unauthorized"}

\* The link of a connection stands or falls until it is hung up, and the writer gives
\* up on one that fell or was let go of, or after the goodbye.
Wire(d) ==
    /\ phase[d] \notin {"waiting", "dialling", "stopped"} => link[d] # "none"
    /\ phase[d] \notin {"live", "ending", "closing"} => writer[d] = "none"
    /\ phase[d] = "live" => writer[d] \in {"running", "failed"} /\ Close \notin Items(out[d])
    /\ writer[d] = "failed" => link[d] # "up" \/ gw[d] = "none"

\* Where nothing is broken, the gateway lets go of a connection with a word, and says
\* nothing after it.
Word(d) ==
    /\ phase[d] \in {"verdict", "stopped"} \/ Items(inbox[d]) \cap Ends # {} => gw[d] = "none"
    /\ phase[d] \in {"hello", "auth", "live"} /\ link[d] = "up" /\ gw[d] = "none"
           => Items(inbox[d]) \cap Closes # {}
    /\ phase[d] \in {"hello", "auth", "verdict"} => "pong" \notin Items(inbox[d])

\* Why the loop ended.
Over(d) ==
    phase[d] \in {"ending", "closing"} =>
        /\ gw[d] = "open" => result[d] = "ok" \/ link[d] # "up"
        /\ result[d] = "dead" => link[d] # "up"

\* On a link that stands a pong is missed at most once, while something waits to be
\* read; a ping not yet answered is in the queue, or its answer in the inbox.
Alive(d) ==
    /\ phase[d] \notin {"live", "ending", "closing"} => ~awaiting[d]
    /\ phase[d] = "live" /\ link[d] = "up" =>
        /\ missed[d] # 0 => missed[d] = 1 /\ overdue[d] /\ inbox[d] # <<>>
        /\ awaiting[d] => inbox[d] # <<>> \/ Ping \in Items(out[d]) \/ task[d] = "ping"

\* A daemon whose notice was not lost has it before it, or has taken it.
Noticed(d) ==
    ousted[d] = "told" =>
        \/ /\ phase[d] \in {"hello", "auth", "live"} /\ link[d] = "up" /\ gw[d] = "none"
           /\ Items(inbox[d]) \cap Ends = {"replaced"} /\ writer[d] # "failed"
        \/ /\ phase[d] \in {"ending", "closing", "stopped"}
           /\ result[d] = "replaced" \/ (result[d] = "ok" /\ d \in Once)

Quiet(q) == \A m \in Items(q) : m.t # "servers"

\* The last set in the queue is n.
Carries(q, n) ==
    \E i \in 1 .. Len(q) :
        q[i] = Servers(n) /\ \A j \in (i + 1) .. Len(q) : q[j].t # "servers"

Hears(d) == link[d] = "up" /\ gw[d] = "open"

\* The gateway knows the set served, or will: the last servers frame in the queue is
\* it. With --once there is no other, and no ping is answered before it was heard.
Knows(d) ==
    /\ phase[d] = "live" /\ Hears(d) /\ task[d] # "advertise" =>
        (view[d] = set[d] /\ Quiet(out[d])) \/ Carries(out[d], set[d])
    /\ d \in Once =>
        /\ task[d] # "advertise"
        /\ \A m \in Items(out[d]) : m.t = "servers" => m = Servers(set[d])
        /\ phase[d] = "live" =>
             \/ view[d] = set[d]
             \/ /\ "pong" \notin Items(inbox[d])
                /\ Hears(d) => out[d] # <<>> /\ Head(out[d]) = Servers(set[d])
        /\ result[d] = "ok" => view[d] = set[d]

Linked(d) == Wire(d) /\ Word(d) /\ Over(d) /\ Alive(d) /\ Noticed(d) /\ Knows(d)

-----------------------------------------------------------------------------
(* Queues that carry a set.                                                *)

\* A servers frame put last is the one carried, and no other frame changes that.
LEMMA CarriesAppend ==
    ASSUME NEW q \in Seq(Message), NEW m \in Message, NEW n \in 0 .. MaxEdits
    PROVE  /\ Carries(Append(q, Servers(n)), n)
           /\ m.t # "servers" /\ Carries(q, n) => Carries(Append(q, m), n)
           /\ m.t # "servers" /\ Quiet(q) => Quiet(Append(q, m))
<1>1. ASSUME NEW e \in Message
      PROVE  /\ Append(q, e) \in Seq(Message) /\ Len(Append(q, e)) = Len(q) + 1
             /\ Append(q, e)[Len(q) + 1] = e
             /\ \A i \in 1 .. Len(q) : Append(q, e)[i] = q[i]
             /\ Items(Append(q, e)) = Items(q) \cup {e}
  BY AppendProperties, ItemsAppend
<1>2. Len(q) \in Nat
  BY LenProperties
<1>3. Carries(Append(q, Servers(n)), n)
  <2> DEFINE r == Append(q, Servers(n))
  <2>1. Len(r) = Len(q) + 1 /\ r[Len(q) + 1] = Servers(n)
    BY <1>1, Alphabets
  <2> HIDE DEF r
  <2>2. Len(q) + 1 \in 1 .. Len(r) /\ ((Len(q) + 1) + 1) .. Len(r) = {}
    BY <1>2, <2>1
  <2>3. Carries(r, n)
    BY <2>1, <2>2 DEF Carries
  <2> QED
    BY <2>3 DEF r
<1>4. ASSUME m.t # "servers", Carries(q, n) PROVE Carries(Append(q, m), n)
  <2> DEFINE r == Append(q, m)
  <2>1. Len(r) = Len(q) + 1 /\ r[Len(q) + 1] = m /\ \A i \in 1 .. Len(q) : r[i] = q[i]
    BY <1>1
  <2> HIDE DEF r
  <2>2. PICK i \in 1 .. Len(q) : q[i] = Servers(n) /\ \A j \in (i + 1) .. Len(q) : q[j].t # "servers"
    BY <1>4 DEF Carries
  <2>3. i \in 1 .. Len(r) /\ r[i] = Servers(n)
    BY <1>2, <2>1, <2>2
  <2>4. ASSUME NEW j \in (i + 1) .. Len(r) PROVE r[j].t # "servers"
    <3>1. CASE j = Len(q) + 1
      BY <1>4, <2>1, <3>1
    <3>2. CASE j # Len(q) + 1
      <4>1. j \in (i + 1) .. Len(q) /\ j \in 1 .. Len(q)
        BY <1>2, <2>1, <3>2
      <4> QED
        BY <2>1, <2>2, <4>1
    <3> QED
      BY <3>1, <3>2
  <2>5. Carries(r, n)
    BY <2>3, <2>4 DEF Carries
  <2> QED
    BY <2>5 DEF r
<1>5. m.t # "servers" /\ Quiet(q) => Quiet(Append(q, m))
  BY <1>1 DEF Quiet
<1> QED
  BY <1>3, <1>4, <1>5

\* A queue that carries a set has it behind its head, or at its head for the last time.
LEMMA CarriesTail ==
    ASSUME NEW q \in Seq(Message), q # <<>>, NEW n \in 0 .. MaxEdits
    PROVE  /\ Quiet(q) => Head(q).t # "servers" /\ Quiet(Tail(q))
           /\ Carries(q, n) => \/ Carries(Tail(q), n)
                               \/ Head(q) = Servers(n) /\ Quiet(Tail(q))
<1>1. Items(q) = {Head(q)} \cup Items(Tail(q))
  BY ItemsTail
<1> DEFINE r == Tail(q)
<1>2. Len(r) = Len(q) - 1 /\ Len(q) \in Nat \ {0} /\ Head(q) = q[1] /\ \A i \in 1 .. Len(r) : r[i] = q[i + 1]
  BY HeadTailProperties, EmptySeq
<1> HIDE DEF r
<1>3. ASSUME Carries(q, n) PROVE Carries(r, n) \/ (Head(q) = Servers(n) /\ Quiet(r))
  <2>1. PICK i \in 1 .. Len(q) : q[i] = Servers(n) /\ \A j \in (i + 1) .. Len(q) : q[j].t # "servers"
    BY <1>3 DEF Carries
  <2>2. ASSUME NEW j \in 1 .. Len(r), j >= i PROVE r[j].t # "servers"
    <3>1. j + 1 \in (i + 1) .. Len(q) /\ r[j] = q[j + 1]
      BY <1>2, <2>2
    <3> QED
      BY <2>1, <3>1
  <2>3. CASE i = 1
    <3>1. \A j \in 1 .. Len(r) : r[j].t # "servers"
      BY <1>2, <2>2, <2>3
    <3> QED
      BY <1>2, <2>1, <2>3, <3>1 DEF Quiet, Items
  <2>4. CASE i # 1
    <3>1. i - 1 \in 1 .. Len(r) /\ r[i - 1] = q[(i - 1) + 1] /\ (i - 1) + 1 = i
      BY <1>2, <2>4
    <3>2. \A j \in ((i - 1) + 1) .. Len(r) : r[j].t # "servers"
      BY <1>2, <2>2, <3>1
    <3> QED
      BY <2>1, <3>1, <3>2 DEF Carries
  <2> QED
    BY <2>3, <2>4
<1>4. Quiet(q) => Head(q).t # "servers" /\ Quiet(r)
  BY <1>1 DEF Quiet, r
<1> QED
  BY <1>3, <1>4 DEF r

\* A queue of one servers frame carries it.
LEMMA CarriesOne ==
    ASSUME NEW n \in 0 .. MaxEdits
    PROVE  Carries(<<Servers(n)>>, n) /\ <<Servers(n)>> # <<>> /\ Head(<<Servers(n)>>) = Servers(n)
<1> DEFINE r == <<Servers(n)>>
<1>1. Len(r) = 1 /\ r[1] = Servers(n) /\ r # <<>> /\ Head(r) = Servers(n)
  OBVIOUS
<1> HIDE DEF r
<1>2. 1 \in 1 .. Len(r) /\ (1 + 1) .. Len(r) = {}
  BY <1>1
<1>3. Carries(r, n)
  BY <1>1, <1>2 DEF Carries
<1> QED
  BY <1>1, <1>3 DEF r

-----------------------------------------------------------------------------
(* Action by action.                                                       *)

\* An empty queue carries nothing.
LEMMA NoItems == Items(<<>>) = {} /\ Quiet(<<>>)
BY ItemsEmpty, EmptySeq DEF Quiet

\* What Linked is about is there, and the inbox and the queue are sequences.
LEMMA FailsLinked ==
    ASSUME TypeOK, NEW d \in Daemon, Linked(d), NEW why \in Results \ {"none", "ok"},
           phase[d] \in {"dialling", "hello", "auth", "verdict"},
           ousted[d] = "told" => why = "replaced", Fails(d, why)
    PROVE  Linked(d)'
<1>1. Scalars /\ Queues /\ Inboxes
  BY TypeParts
<1>2. /\ phase'[d] = (IF why \in Fatal THEN "stopped" ELSE "waiting") /\ result'[d] = why
      /\ link'[d] = "none" /\ gw'[d] = "none" /\ writer'[d] = "none"
      /\ out'[d] = <<>> /\ inbox'[d] = <<>>
      /\ UNCHANGED <<task[d], awaiting[d], missed[d], overdue[d], set[d], view[d], ousted[d]>>
  BY <1>1 DEF Fails, Hangup, Retry, Scalars, Queues, Inboxes, loop
<1>3. Wire(d)' /\ Word(d)' /\ Over(d)' /\ Alive(d)' /\ Noticed(d)'
  BY <1>2, NoItems DEF Linked, Wire, Word, Over, Alive, Noticed, Fatal
<1>4. Knows(d)'
  BY <1>2, NoItems DEF Linked, Knows
<1> QED
  BY <1>3, <1>4 DEF Linked

\* A dial starts from nothing.
LEMMA DialLinked ==
    ASSUME TypeOK, NEW d \in Daemon, Local(d), Linked(d), Dial(d)
    PROVE  Linked(d)'
<1>1. Scalars
  BY TypeParts
<1>2. /\ phase[d] = "waiting" /\ phase'[d] = "dialling" /\ result'[d] = "none"
      /\ UNCHANGED <<task, awaiting, missed, overdue, out, writer, set, link, inbox, gw, ousted>>
  BY <1>1 DEF Dial, Scalars, loop, sending
<1>3. Wire(d)' /\ Word(d)' /\ Over(d)' /\ Alive(d)' /\ Noticed(d)'
  BY <1>2, NoItems DEF Linked, Wire, Word, Over, Alive, Noticed, Local, Bare
<1>4. Knows(d)'
  BY <1>2 DEF Linked, Knows
<1> QED
  BY <1>3, <1>4 DEF Linked

\* The answer to the upgrade is a refusal or a socket that stands.
LEMMA DialledLinked ==
    ASSUME TypeOK, NEW d \in Daemon, Local(d), Linked(d), Dialled(d)
    PROVE  Linked(d)'
<1>1. Scalars /\ phase[d] = "dialling" /\ ousted[d] # "told"
  BY TypeParts DEF Dialled, Linked, Noticed
<1>2. CASE revoked
  <2>1. Fails(d, "unknown_device")
    BY <1>2 DEF Dialled
  <2> QED
    BY <1>1, <2>1, FailsLinked DEF Results, Fatal
<1>3. CASE Fails(d, "unauthorized")
  BY <1>1, <1>3, FailsLinked DEF Results, Fatal
<1>4. CASE ~revoked /\ ~Fails(d, "unauthorized")
  <2>1. /\ phase'[d] = "hello" /\ link'[d] = "up" /\ gw'[d] = "hello"
        /\ UNCHANGED <<task, awaiting, missed, overdue, out, writer, set, inbox, view, ousted, result>>
    BY <1>1, <1>4 DEF Dialled, Scalars, loop, sending
  <2>2. Wire(d)' /\ Word(d)' /\ Over(d)' /\ Alive(d)' /\ Noticed(d)'
    BY <1>1, <2>1, NoItems DEF Linked, Wire, Word, Over, Alive, Noticed, Local, Bare
  <2>3. Knows(d)'
    BY <2>1 DEF Linked, Knows
  <2> QED
    BY <2>2, <2>3 DEF Linked
<1> QED
  BY <1>2, <1>3, <1>4

\* A dial refused for now leaves nothing.
LEMMA RefusedLinked ==
    ASSUME TypeOK, NEW d \in Daemon, Local(d), Linked(d), Refused(d)
    PROVE  Linked(d)'
<1>1. Scalars /\ phase[d] = "dialling" /\ ousted[d] # "told"
  BY TypeParts DEF Refused, Linked, Noticed
<1>2. /\ phase'[d] = "waiting" /\ result'[d] = "refused"
      /\ UNCHANGED <<task, awaiting, missed, overdue, out, writer, set, link, inbox, gw, view, ousted>>
  BY <1>1 DEF Refused, Retry, Fatal, Scalars, loop, sending, gateway
<1>3. Wire(d)' /\ Word(d)' /\ Over(d)' /\ Alive(d)' /\ Noticed(d)'
  BY <1>1, <1>2, NoItems DEF Linked, Wire, Word, Over, Alive, Noticed, Local, Bare
<1>4. Knows(d)'
  BY <1>2 DEF Linked, Knows
<1> QED
  BY <1>3, <1>4 DEF Linked

\* The loop starts with the servers frame alone in its queue.
LEMMA StartLinked ==
    ASSUME TypeOK, NEW d \in Daemon, Local(d), Linked(d), phase[d] \in {"hello", "auth"},
           inbox[d] # <<>>, Head(inbox[d]) = "welcome", Start(d)
    PROVE  Linked(d)'
<1>1. Scalars /\ Queues /\ Inboxes /\ inbox[d] \in Seq(Pools)
  BY TypeParts DEF Inboxes
<1> DEFINE now == IF d \in Once THEN set[d] ELSE config[d]
<1>2. /\ phase'[d] = "live" /\ set'[d] = now /\ out'[d] = <<Servers(now)>> /\ writer'[d] = "running"
      /\ inbox'[d] = Tail(inbox[d]) /\ now \in 0 .. MaxEdits
      /\ UNCHANGED <<task, awaiting, missed, overdue, result, link, gw, view, ousted>>
  BY <1>1 DEF Start, Scalars, Queues, Inboxes, loop, gateway
<1>3. now = set[d] \/ d \notin Once
  OBVIOUS
<1> HIDE DEF now
<1>4. /\ Items(inbox[d]) = {"welcome"} \cup Items(inbox'[d])
      /\ "welcome" \notin Ends /\ "pong" # "welcome"
  BY <1>1, <1>2, ItemsTail DEF Ends, Closes
<1>5. /\ Items(out'[d]) = {Servers(now)} /\ Servers(now) # Close
      /\ Carries(out'[d], now) /\ out'[d] # <<>> /\ Head(out'[d]) = Servers(now)
  BY <1>2, CarriesOne, Alphabets, Singles
<1>6. Wire(d)' /\ Over(d)'
  BY <1>2, <1>5 DEF Linked, Wire, Over
<1>7. Word(d)'
  BY <1>2, <1>4 DEF Linked, Word, Ends
<1>8. Alive(d)'
  BY <1>2 DEF Linked, Alive, Local, Counts
<1>9. Noticed(d)'
  BY <1>2, <1>4 DEF Linked, Noticed
<1>10. Knows(d)'
  <2>1. result[d] = "none"
    BY DEF Local, Bare
  <2>2. d \in Once => task[d] # "advertise" /\ now = set[d]
    BY <1>3 DEF Linked, Knows
  <2>3. "pong" \notin Items(inbox'[d])
    BY <1>4 DEF Linked, Word
  <2> QED
    BY <1>2, <1>5, <2>1, <2>2, <2>3 DEF Knows
<1> QED
  BY <1>6, <1>7, <1>8, <1>9, <1>10 DEF Linked

\* One message of the handshake keeps the daemon and the gateway together.
LEMMA HandshakeLinked ==
    ASSUME TypeOK, NEW d \in Daemon, Local(d), Linked(d), Handshake(d)
    PROVE  Linked(d)'
<1>1. /\ Scalars /\ Inboxes /\ inbox[d] \in Seq(Pools) /\ inbox[d] # <<>>
      /\ phase[d] \in {"hello", "auth", "verdict"}
  BY TypeParts DEF Inboxes, Handshake
<1> DEFINE m == Head(inbox[d])
<1>2. Items(inbox[d]) = {m} \cup Items(Tail(inbox[d]))
  BY <1>1, ItemsTail
<1>3. ASSUME phase[d] \in {"hello", "auth"}, m = "welcome", Start(d) PROVE Linked(d)'
  BY <1>1, <1>3, StartLinked
<1>4. ASSUME /\ phase[d] = "hello" /\ m = "challenge"
             /\ phase' = [phase EXCEPT ![d] = "auth"]
             /\ inbox' = [inbox EXCEPT ![d] = Tail(@)]
             /\ gw' = [gw EXCEPT ![d] = IF @ = "challenged" /\ link[d] = "up" THEN "auth" ELSE @]
             /\ UNCHANGED <<loop, result, sending, set, link, view, ousted>>
      PROVE  Linked(d)'
  <2>1. /\ phase'[d] = "auth" /\ inbox'[d] = Tail(inbox[d])
        /\ gw'[d] = "none" <=> gw[d] = "none"
        /\ UNCHANGED <<task, awaiting, missed, overdue, out, writer, result, set, link, view, ousted>>
    BY <1>1, <1>4 DEF Scalars, Inboxes, loop, sending
  <2>2. Items(inbox[d]) = {"challenge"} \cup Items(inbox'[d]) /\ "challenge" \notin Ends
    BY <1>2, <1>4, <2>1 DEF Ends, Closes
  <2>3. Wire(d)' /\ Over(d)' /\ Alive(d)' /\ Noticed(d)'
    BY <1>4, <2>1, <2>2 DEF Linked, Wire, Over, Alive, Noticed
  <2>4. Word(d)'
    BY <1>4, <2>1, <2>2 DEF Linked, Word, Ends
  <2>5. Knows(d)'
    BY <1>4, <2>1 DEF Linked, Knows
  <2> QED
    BY <2>3, <2>4, <2>5 DEF Linked
<1>5. ASSUME /\ phase[d] \in {"hello", "auth"} /\ m = "unauthorized"
             /\ phase' = [phase EXCEPT ![d] = IF @ = "auth" THEN "verdict" ELSE @]
             /\ inbox' = [inbox EXCEPT ![d] = Tail(@)]
             /\ UNCHANGED <<loop, result, sending, set, link, gateway>>
      PROVE  Linked(d)'
  <2>1. /\ phase'[d] \in {"hello", "auth", "verdict"} /\ inbox'[d] = Tail(inbox[d])
        /\ phase'[d] \in {"hello", "auth"} => phase[d] \in {"hello", "auth"}
        /\ UNCHANGED <<task, awaiting, missed, overdue, out, writer, result, set, link, gw, view, ousted>>
    BY <1>1, <1>5 DEF Scalars, Inboxes, loop, sending, gateway
  <2>2. /\ Items(inbox[d]) = {"unauthorized"} \cup Items(inbox'[d])
        /\ "unauthorized" \in Ends /\ "unauthorized" \notin Closes
    BY <1>2, <1>5, <2>1 DEF Ends, Closes
  <2>3. gw[d] = "none" /\ ousted[d] # "told"
    BY <1>5, <2>2 DEF Linked, Word, Noticed
  <2>4. Wire(d)' /\ Over(d)' /\ Alive(d)' /\ Noticed(d)'
    BY <1>1, <2>1, <2>3 DEF Linked, Wire, Over, Alive, Noticed
  <2>5. Word(d)'
    BY <1>5, <2>1, <2>2, <2>3 DEF Linked, Word
  <2>6. Knows(d)'
    BY <2>1 DEF Linked, Knows
  <2> QED
    BY <2>4, <2>5, <2>6 DEF Linked
<1>6. ASSUME phase[d] \in {"hello", "auth"}, m \in Closes, Fails(d, Verdict(m)) PROVE Linked(d)'
  <2>1. Verdict(m) \in Results \ {"none", "ok"}
    BY <1>6, VerdictType
  <2>2. ousted[d] = "told" => m = "replaced"
    BY <1>2, <1>6 DEF Linked, Noticed, Ends
  <2>3. ousted[d] = "told" => Verdict(m) = "replaced"
    BY <2>2 DEF Verdict
  <2> QED
    BY <1>6, <2>1, <2>3, FailsLinked
<1>7. ASSUME phase[d] = "verdict",
             Fails(d, IF m \in Closes \ {"eof"} THEN Verdict(m) ELSE "unauthorized")
      PROVE  Linked(d)'
  <2> DEFINE why == IF m \in Closes \ {"eof"} THEN Verdict(m) ELSE "unauthorized"
  <2>1. why \in Results \ {"none", "ok"}
    BY VerdictType DEF Results, Fatal
  <2>2. ousted[d] # "told"
    BY <1>7 DEF Linked, Noticed
  <2>3. Fails(d, why)
    BY <1>7
  <2> HIDE DEF why
  <2> QED
    BY <1>7, <2>1, <2>2, <2>3, FailsLinked
<1> QED
  BY <1>3, <1>4, <1>5, <1>6, <1>7 DEF Handshake, gateway

\* A handshake times out on a silent link only.
LEMMA HandshakeTimeoutLinked ==
    ASSUME TypeOK, NEW d \in Daemon, Local(d), Linked(d), HandshakeTimeout(d)
    PROVE  Linked(d)'
<1>1. phase[d] \in {"hello", "auth", "verdict"} /\ ousted[d] # "told"
  BY DEF HandshakeTimeout, Linked, Noticed
<1>2. PICK why \in {"unauthorized", "timeout"} : Fails(d, why)
  BY DEF HandshakeTimeout
<1>3. why \in Results \ {"none", "ok"}
  BY DEF Results, Fatal, Failures
<1> QED
  BY <1>1, <1>2, <1>3, FailsLinked

\* The loop ends, for a reason that leaves Linked as it is.
LEMMA EndLinked ==
    ASSUME TypeOK, NEW d \in Daemon, Linked(d), NEW why, phase[d] = "live", End(d, why),
           UNCHANGED <<awaiting, out, writer, set, link, gw, view, ousted>>,
           Items(inbox'[d]) \subseteq Items(inbox[d]),
           gw[d] = "open" => why = "ok" \/ link[d] # "up",
           why = "dead" => link[d] # "up",
           ousted[d] = "told" => why = "replaced" \/ (why = "ok" /\ d \in Once),
           d \in Once /\ why = "ok" => view[d] = set[d]
    PROVE  Linked(d)'
<1>1. Scalars
  BY TypeParts
<1>2. phase'[d] = "ending" /\ result'[d] = why /\ task'[d] = "select"
  BY <1>1 DEF End, Scalars
<1>3. Wire(d)' /\ Over(d)' /\ Alive(d)'
  BY <1>2 DEF Linked, Wire, Over, Alive
<1>4. Word(d)' /\ Noticed(d)'
  BY <1>2 DEF Linked, Word, Noticed
<1>5. Knows(d)'
  BY <1>2 DEF Linked, Knows
<1> QED
  BY <1>3, <1>4, <1>5 DEF Linked

\* A handler's send, on whatever the handler did before it: it leaves the gateway's
\* set known if what it sends is the set or a ping, and a ping is answered for.
LEMMA SendLinked ==
    ASSUME TypeOK, NEW d \in Daemon, Local(d), Linked(d), phase[d] = "live",
           NEW m \in Message, NEW where \in {"ping", "advertise"}, Send(d, m, where),
           m # Close, m.t = "servers" => m = Servers(set'[d]) /\ d \notin Once,
           where = "advertise" => d \notin Once,
           set'[d] = set[d] \/ (d \notin Once /\ m.t = "servers" /\ where = "advertise"),
           task[d] = "advertise" => m.t = "servers" /\ where = "advertise",
           m.t # "servers" <=> where = "ping",
           task[d] = "ping" => where = "ping", m = Ping <=> where = "ping",
           awaiting'[d] => awaiting[d] \/ where = "ping",
           link[d] = "up" /\ missed'[d] # 0 => missed'[d] = 1 /\ overdue'[d] /\ inbox[d] # <<>>,
           set' \in [Daemon -> 0 .. MaxEdits],
           UNCHANGED <<writer, link, inbox, gw, view, ousted>>
    PROVE  Linked(d)'
<1>1. Scalars /\ out[d] \in Seq(Message) /\ Queues
  BY TypeParts DEF Queues
<1>2. ASSUME writer[d] = "running", Len(out[d]) < OutCap,
             out' = [out EXCEPT ![d] = Append(@, m)],
             task' = [task EXCEPT ![d] = "select"], UNCHANGED <<phase, result>>
      PROVE  Linked(d)'
  <2>1. out'[d] = Append(out[d], m) /\ task'[d] = "select"
    BY <1>1, <1>2 DEF Queues, Scalars
  <2>2. Items(out'[d]) = Items(out[d]) \cup {m} /\ out'[d] # <<>>
    BY <1>1, <2>1, ItemsAppend
  <2>3. Wire(d)' /\ Word(d)' /\ Over(d)' /\ Noticed(d)'
    BY <1>2, <2>2 DEF Linked, Wire, Word, Over, Noticed
  <2>4. Alive(d)'
    BY <1>2, <2>1, <2>2 DEF Linked, Alive
  <2>5. ASSUME Hears(d)
        PROVE  (view[d] = set'[d] /\ Quiet(out'[d])) \/ Carries(out'[d], set'[d])
    <3>1. CASE m.t = "servers"
      <4>1. set'[d] \in 0 .. MaxEdits
        OBVIOUS
      <4> QED
        BY <1>1, <2>1, <3>1, <4>1, CarriesAppend
    <3>2. CASE m.t # "servers"
      <4>1. set'[d] = set[d] /\ set[d] \in 0 .. MaxEdits /\ task[d] # "advertise"
        BY <1>1, <3>2 DEF Scalars
      <4>2. (view[d] = set[d] /\ Quiet(out[d])) \/ Carries(out[d], set[d])
        BY <2>5, <4>1 DEF Linked, Knows
      <4> QED
        BY <1>1, <2>1, <3>2, <4>1, <4>2, CarriesAppend
    <3> QED
      BY <3>1, <3>2
  <2>6. ASSUME d \in Once
        PROVE  /\ \A n \in Items(out'[d]) : n.t = "servers" => n = Servers(set'[d])
               /\ out[d] # <<>> => Head(out'[d]) = Head(out[d])
    <3>1. set'[d] = set[d] /\ m.t # "servers"
      BY <2>6
    <3>2. out[d] # <<>> => Head(Append(out[d], m)) = Head(out[d])
      <4>1. /\ Append(out[d], m) \in Seq(Message)
            /\ Len(out[d]) > 0 => Append(out[d], m)[1] = out[d][1]
        BY <1>1, AppendProperties, LenProperties
      <4> QED
        BY <1>1, <4>1, EmptySeq, AppendProperties
    <3> QED
      BY <2>1, <2>2, <2>6, <3>1, <3>2 DEF Linked, Knows
  <2>7. Hears(d)' = Hears(d)
    BY DEF Hears
  <2>8. Knows(d)'
    BY <1>2, <2>1, <2>2, <2>5, <2>6, <2>7 DEF Linked, Knows
  <2> QED
    BY <2>3, <2>4, <2>8 DEF Linked
<1>3. ASSUME writer[d] = "running", task' = [task EXCEPT ![d] = where],
             UNCHANGED <<phase, result, out>>
      PROVE  Linked(d)'
  <2>1. task'[d] = where
    BY <1>1, <1>3 DEF Scalars
  <2>2. Wire(d)' /\ Word(d)' /\ Over(d)' /\ Noticed(d)'
    BY <1>3 DEF Linked, Wire, Word, Over, Noticed
  <2>3. Alive(d)'
    BY <1>3, <2>1 DEF Linked, Alive
  <2>4. Hears(d)' = Hears(d)
    BY DEF Hears
  <2>5. Knows(d)'
    BY <1>3, <2>1, <2>4 DEF Linked, Knows
  <2> QED
    BY <2>2, <2>3, <2>5 DEF Linked
<1>4. ASSUME writer[d] # "running", End(d, WriterError(d)), UNCHANGED out
      PROVE  Linked(d)'
  <2>1. /\ link[d] # "up" \/ gw[d] = "none"
        /\ writer[d] = "failed" /\ WriterError(d) = "ws"
    BY <1>4 DEF Linked, Wire, WriterError
  <2>2. ousted[d] # "told"
    BY <2>1 DEF Linked, Noticed
  <2>3. phase'[d] = "ending" /\ result'[d] = "ws" /\ task'[d] = "select"
    BY <1>1, <1>4, <2>1 DEF End, Scalars
  <2>4. Wire(d)' /\ Word(d)' /\ Over(d)' /\ Noticed(d)' /\ Alive(d)'
    BY <1>4, <2>1, <2>2, <2>3 DEF Linked, Wire, Word, Over, Noticed, Alive
  <2>5. Knows(d)'
    BY <1>4, <2>3 DEF Linked, Knows
  <2> QED
    BY <2>4, <2>5 DEF Linked
<1> QED
  BY <1>2, <1>3, <1>4 DEF Send

\* A tick misses a pong late, or on a link that broke.
LEMMA TickLinked ==
    ASSUME TypeOK, NEW d \in Daemon, Local(d), Linked(d), Tick(d)
    PROVE  Linked(d)'
<1>1. /\ Scalars /\ Queues /\ Inboxes /\ phase[d] = "live" /\ task[d] = "select"
      /\ inbox[d] \in Seq(Pools) /\ out[d] \in Seq(Message)
  BY TypeParts DEF Tick, Idle, Queues, Inboxes
<1>2. /\ missed'[d] = (IF awaiting[d] THEN missed[d] + 1 ELSE missed[d])
      /\ overdue'[d] = (inbox[d] # <<>>)
      /\ UNCHANGED <<writer, set, link, inbox, gw, view, ousted>>
  BY <1>1 DEF Tick, Scalars, gateway
<1>3. link[d] = "up" => Ping \notin Items(out[d])
  BY <1>1 DEF Tick, IntervalOver, Items
<1>4. overdue[d] => inbox[d] = <<>>
  BY DEF Tick, IntervalOver
<1>5. link[d] = "up" => missed[d] = 0 /\ (awaiting[d] => inbox[d] # <<>>)
  BY <1>1, <1>3, <1>4 DEF Linked, Alive
<1>6. ASSUME awaiting[d], missed'[d] >= MaxMissed, End(d, "dead"), UNCHANGED <<out, awaiting>>
      PROVE  Linked(d)'
  <2>1. link[d] # "up"
    BY <1>2, <1>5, <1>6, Bounds
  <2>2. ousted[d] # "told"
    BY <1>1, <2>1 DEF Linked, Noticed
  <2> QED
    BY <1>1, <1>2, <1>6, <2>1, <2>2, EndLinked
<1>7. ASSUME Send(d, Ping, "ping"), awaiting' = [awaiting EXCEPT ![d] = TRUE]
      PROVE  Linked(d)'
  <2>1. link[d] = "up" /\ missed'[d] # 0 => missed'[d] = 1 /\ overdue'[d] /\ inbox[d] # <<>>
    <3> SUFFICES ASSUME link[d] = "up", missed'[d] # 0
                 PROVE  missed'[d] = 1 /\ overdue'[d] /\ inbox[d] # <<>>
      OBVIOUS
    <3>1. missed[d] = 0 /\ (awaiting[d] => inbox[d] # <<>>)
      BY <1>5
    <3>2. awaiting[d] /\ missed'[d] = 1
      BY <1>2, <3>1
    <3>3. inbox[d] # <<>> /\ overdue'[d]
      BY <1>2, <3>1, <3>2
    <3> QED
      BY <3>2, <3>3
  <2>2. Ping \in Message /\ Ping # Close /\ Ping.t = "ping" /\ set' \in [Daemon -> 0 .. MaxEdits]
    BY <1>1, <1>2, Alphabets DEF Scalars
  <2> QED
    BY <1>1, <1>2, <1>7, <2>1, <2>2, SendLinked
<1> QED
  BY <1>6, <1>7 DEF Tick

\* A new set goes into the queue last, or waits in `advertise`.
LEMMA ChangedLinked ==
    ASSUME TypeOK, NEW d \in Daemon, Local(d), Linked(d), Changed(d)
    PROVE  Linked(d)'
<1>1. Scalars /\ phase[d] = "live" /\ task[d] = "select" /\ d \notin Once
  BY TypeParts DEF Changed, Idle
<1>2. /\ set'[d] = config[d] /\ set' \in [Daemon -> 0 .. MaxEdits]
      /\ UNCHANGED <<awaiting, missed, overdue, writer, link, inbox, gw, view, ousted>>
  BY <1>1 DEF Changed, Scalars, gateway
<1>3. /\ Servers(config[d]) \in Message /\ Servers(config[d]).t = "servers"
      /\ Servers(config[d]) # Close /\ Servers(config[d]) # Ping
  BY <1>1, Alphabets DEF Scalars
<1>4. link[d] = "up" /\ missed[d] # 0 => missed[d] = 1 /\ overdue[d] /\ inbox[d] # <<>>
  BY <1>1 DEF Linked, Alive
<1>5. Send(d, Servers(config[d]), "advertise")
  BY DEF Changed
<1> QED
  BY <1>1, <1>2, <1>3, <1>4, <1>5, SendLinked

\* The frame a handler waited with goes into the queue last.
LEMMA UnblockedLinked ==
    ASSUME TypeOK, NEW d \in Daemon, Local(d), Linked(d), Unblocked(d)
    PROVE  Linked(d)'
<1>1. Scalars /\ phase[d] = "live" /\ task[d] \in {"ping", "advertise"}
  BY TypeParts DEF Unblocked
<1>2. UNCHANGED <<awaiting, missed, overdue, writer, set, link, inbox, gw, view, ousted>>
  BY DEF Unblocked, gateway
<1>3. link[d] = "up" /\ missed[d] # 0 => missed[d] = 1 /\ overdue[d] /\ inbox[d] # <<>>
  BY <1>1 DEF Linked, Alive
<1>4. d \in Once => task[d] = "ping"
  BY <1>1 DEF Linked, Knows
<1>5. set[d] \in 0 .. MaxEdits /\ set' \in [Daemon -> 0 .. MaxEdits]
  BY <1>1, <1>2 DEF Scalars
<1>6. CASE task[d] = "ping"
  <2>1. Send(d, Ping, "ping")
    BY <1>6 DEF Unblocked
  <2>2. Ping \in Message /\ Ping # Close /\ Ping.t = "ping"
    BY Alphabets
  <2> QED
    BY <1>1, <1>2, <1>3, <1>5, <1>6, <2>1, <2>2, SendLinked
<1>7. CASE task[d] = "advertise"
  <2>1. Send(d, Servers(set[d]), "advertise") /\ d \notin Once
    BY <1>4, <1>7 DEF Unblocked
  <2>2. /\ Servers(set[d]) \in Message /\ Servers(set[d]).t = "servers"
        /\ Servers(set[d]) # Close /\ Servers(set[d]) # Ping
    BY <1>5, Alphabets
  <2> QED
    BY <1>1, <1>2, <1>3, <1>5, <1>7, <2>1, <2>2, SendLinked
<1> QED
  BY <1>1, <1>6, <1>7

\* The loop learns of its writer's end on a link that broke.
LEMMA WriterEndedLinked ==
    ASSUME TypeOK, NEW d \in Daemon, Local(d), Linked(d), WriterEnded(d)
    PROVE  Linked(d)'
<1>1. phase[d] = "live" /\ writer[d] # "running"
  BY DEF WriterEnded, Idle
<1>2. writer[d] = "failed" /\ (link[d] # "up" \/ gw[d] = "none")
  BY <1>1 DEF Linked, Wire
<1>3. End(d, "ws") /\ UNCHANGED <<awaiting, out, writer, set, link, inbox, gw, view, ousted>>
  BY <1>2 DEF WriterEnded, WriterError, sending, gateway
<1>4. ousted[d] # "told"
  BY <1>1, <1>2 DEF Linked, Noticed
<1> QED
  BY <1>1, <1>2, <1>3, <1>4, EndLinked

\* A message read is a pong, or the word the gateway ended with.
LEMMA IncomingLinked ==
    ASSUME TypeOK, NEW d \in Daemon, Local(d), Linked(d), Incoming(d)
    PROVE  Linked(d)'
<1>1. /\ Scalars /\ Inboxes /\ phase[d] = "live" /\ task[d] = "select"
      /\ inbox[d] \in Seq(Pools) /\ inbox[d] # <<>>
  BY TypeParts DEF Incoming, Idle, Inboxes
<1>2. /\ inbox'[d] = Tail(inbox[d])
      /\ UNCHANGED <<out, writer, set, link, gw, view, ousted>>
  BY <1>1 DEF Incoming, Inboxes, sending, gateway
<1> DEFINE m == Head(inbox[d])
<1>3. Items(inbox[d]) = {m} \cup Items(inbox'[d])
  BY <1>1, <1>2, ItemsTail
<1>4. CASE m = "pong"
  <2>1. /\ awaiting' = [awaiting EXCEPT ![d] = FALSE] /\ missed' = [missed EXCEPT ![d] = 0]
        /\ IF d \in Once THEN End(d, "ok") ELSE UNCHANGED <<phase, result, task>>
    BY <1>4 DEF Incoming, Closes
  <2>2. awaiting'[d] = FALSE /\ missed'[d] = 0
    BY <1>1, <2>1 DEF Scalars
  <2>3. "pong" \notin Ends /\ "pong" \notin Closes
    BY DEF Ends, Closes
  <2>4. CASE d \notin Once
    <3>1. UNCHANGED <<phase, result, task>>
      BY <2>1, <2>4
    <3>2. Wire(d)' /\ Over(d)' /\ Alive(d)'
      BY <1>1, <1>2, <2>2, <3>1 DEF Linked, Wire, Over, Alive
    <3>3. Word(d)' /\ Noticed(d)'
      BY <1>1, <1>2, <1>3, <1>4, <2>3, <3>1 DEF Linked, Word, Noticed
    <3>4. Knows(d)'
      BY <1>1, <1>2, <2>4, <3>1 DEF Linked, Knows, Hears
    <3> QED
      BY <3>2, <3>3, <3>4 DEF Linked
  <2>5. CASE d \in Once
    <3>1. phase'[d] = "ending" /\ result'[d] = "ok" /\ task'[d] = "select"
      BY <1>1, <2>1, <2>5 DEF End, Scalars
    <3>2. view[d] = set[d]
      BY <1>1, <1>3, <1>4, <2>5 DEF Linked, Knows
    <3>3. Wire(d)' /\ Over(d)' /\ Alive(d)'
      BY <1>1, <1>2, <3>1 DEF Linked, Wire, Over, Alive
    <3>4. Word(d)' /\ Noticed(d)'
      BY <1>1, <1>2, <1>3, <2>5, <3>1 DEF Linked, Word, Noticed
    <3>5. Knows(d)'
      BY <1>1, <1>2, <3>1, <3>2 DEF Linked, Knows
    <3> QED
      BY <3>3, <3>4, <3>5 DEF Linked
  <2> QED
    BY <2>4, <2>5
<1>5. CASE m \in Closes
  <2>1. End(d, Verdict(m)) /\ UNCHANGED awaiting
    BY <1>5 DEF Incoming, Closes
  <2>2. gw[d] = "none" /\ (ousted[d] = "told" => m = "replaced")
    BY <1>1, <1>3, <1>5 DEF Linked, Word, Noticed, Ends
  <2>3. /\ Verdict(m) \notin {"ok", "dead"} /\ Items(inbox'[d]) \subseteq Items(inbox[d])
        /\ ousted[d] = "told" => Verdict(m) = "replaced"
    BY <1>3, <1>5, <2>2, VerdictType DEF Verdict
  <2> QED
    BY <1>1, <1>2, <2>1, <2>2, <2>3, EndLinked
<1> QED
  BY <1>4, <1>5 DEF Incoming

\* The goodbye is queued when the loop is over.
LEMMA GoodbyeLinked ==
    ASSUME TypeOK, NEW d \in Daemon, Local(d), Linked(d), Goodbye(d)
    PROVE  Linked(d)'
<1>1. Scalars /\ Queues /\ out[d] \in Seq(Message) /\ phase[d] = "ending" /\ result[d] = "ok"
  BY TypeParts DEF Goodbye, Queues
<1>2. /\ phase'[d] = "closing" /\ out'[d] = Append(out[d], Close)
      /\ UNCHANGED <<task, awaiting, missed, overdue, result, writer, set, link, inbox, gw, view, ousted>>
  BY <1>1 DEF Goodbye, Queues, Scalars, loop, gateway
<1>3. Items(out'[d]) = Items(out[d]) \cup {Close} /\ Close.t # "servers"
  BY <1>1, <1>2, ItemsAppend, Alphabets
<1>4. Wire(d)' /\ Word(d)' /\ Over(d)' /\ Alive(d)' /\ Noticed(d)'
  BY <1>1, <1>2 DEF Linked, Wire, Word, Over, Alive, Noticed
<1>5. Knows(d)'
  BY <1>1, <1>2, <1>3 DEF Linked, Knows
<1> QED
  BY <1>4, <1>5 DEF Linked

\* What was on its way is gone with the connection.
LEMMA LeaveLinked ==
    ASSUME TypeOK, NEW d \in Daemon, Local(d), Linked(d), Leave(d)
    PROVE  Linked(d)'
<1>1. Scalars /\ Queues /\ Inboxes /\ phase[d] \in {"ending", "closing"}
  BY TypeParts DEF Leave
<1>2. /\ phase'[d] = (IF result[d] \in Fatal \/ (result[d] = "ok" /\ d \in Once) THEN "stopped"
                      ELSE "waiting")
      /\ link'[d] = "none" /\ gw'[d] = "none" /\ writer'[d] = "none"
      /\ out'[d] = <<>> /\ inbox'[d] = <<>> /\ awaiting'[d] = FALSE
      /\ UNCHANGED <<task, result, set, view, ousted>>
  BY <1>1 DEF Leave, Hangup, Retry, Scalars, Queues, Inboxes
<1>3. Wire(d)' /\ Word(d)' /\ Over(d)' /\ Alive(d)'
  BY <1>2, NoItems DEF Linked, Wire, Word, Over, Alive
<1>4. Noticed(d)'
  BY <1>1, <1>2 DEF Linked, Noticed, Fatal
<1>5. Knows(d)'
  BY <1>2, NoItems DEF Linked, Knows
<1> QED
  BY <1>3, <1>4, <1>5 DEF Linked

\* What the writer's step does to queue, inbox and view.
LEMMA WriterSendsLinked ==
    ASSUME TypeOK, NEW d \in Daemon, Local(d), Linked(d), WriterSends(d)
    PROVE  Linked(d)'
<1>1. /\ Scalars /\ Queues /\ Inboxes /\ writer[d] = "running"
      /\ inbox[d] \in Seq(Pools) /\ out[d] \in Seq(Message) /\ out[d] # <<>>
      /\ phase[d] \in {"live", "ending", "closing"}
  BY TypeParts DEF WriterSends, Queues, Inboxes, Linked, Wire
<1>2. UNCHANGED <<phase, task, awaiting, missed, overdue, result, set, link, ousted>>
  BY DEF WriterSends, loop
<1>3. ASSUME link[d] # "up", writer' = [writer EXCEPT ![d] = "failed"],
             out' = [out EXCEPT ![d] = <<>>], UNCHANGED <<inbox, view, gw>>
      PROVE  Linked(d)'
  <2>1. writer'[d] = "failed" /\ out'[d] = <<>>
    BY <1>1, <1>3 DEF Scalars, Queues
  <2>2. Wire(d)' /\ Word(d)' /\ Over(d)' /\ Alive(d)' /\ Noticed(d)'
    BY <1>1, <1>2, <1>3, <2>1, NoItems DEF Linked, Wire, Word, Over, Alive, Noticed
  <2>3. Knows(d)'
    BY <1>2, <1>3, <2>1, NoItems DEF Linked, Knows, Hears
  <2> QED
    BY <2>2, <2>3 DEF Linked
<1> DEFINE m == Head(out[d])
<1>4. ASSUME /\ link[d] # "cut"
             /\ writer' = [writer EXCEPT ![d] = IF m = Close THEN "done" ELSE @]
             /\ out' = [out EXCEPT ![d] = Tail(out[d])]
             /\ inbox' = [inbox EXCEPT ![d] = IF Hears(d) /\ m = Ping THEN Append(@, "pong") ELSE @]
             /\ view' = [view EXCEPT ![d] = IF Hears(d) /\ m.t = "servers" THEN m.set ELSE @]
             /\ gw' = [gw EXCEPT ![d] = IF Hears(d) /\ m = Close THEN "none" ELSE @]
      PROVE  Linked(d)'
  <2>1. /\ Items(out[d]) = {m} \cup Items(out'[d]) /\ out'[d] = Tail(out[d]) /\ m \in Message
        /\ out'[d] \in Seq(Message)
    BY <1>1, <1>4, ItemsTail DEF Queues
  <2>2. /\ writer'[d] = (IF m = Close THEN "done" ELSE "running")
        /\ view'[d] = (IF Hears(d) /\ m.t = "servers" THEN m.set ELSE view[d])
        /\ gw'[d] = (IF Hears(d) /\ m = Close THEN "none" ELSE gw[d])
    BY <1>1, <1>4 DEF Scalars
  <2>3. \/ Hears(d) /\ m = Ping /\ Items(inbox'[d]) = Items(inbox[d]) \cup {"pong"} /\ inbox'[d] # <<>>
        \/ ~(Hears(d) /\ m = Ping) /\ inbox'[d] = inbox[d]
    <3>1. "pong" \in Pools
      BY DEF Pools, Frames
    <3>2. /\ Items(Append(inbox[d], "pong")) = Items(inbox[d]) \cup {"pong"}
          /\ Append(inbox[d], "pong") # <<>>
      BY <1>1, <3>1, ItemsAppend
    <3>3. inbox'[d] = IF Hears(d) /\ m = Ping THEN Append(inbox[d], "pong") ELSE inbox[d]
      BY <1>1, <1>4 DEF Inboxes
    <3> QED
      BY <3>2, <3>3
  <2> HIDE DEF m
  <2>4. /\ "pong" \notin Ends /\ "pong" \notin Closes
        /\ phase[d] = "live" => m # Close
    BY <2>1 DEF Ends, Closes, Linked, Wire
  <2>5. /\ Items(inbox'[d]) \cap Ends = Items(inbox[d]) \cap Ends
        /\ Items(inbox[d]) \subseteq Items(inbox'[d])
        /\ inbox[d] # <<>> => inbox'[d] # <<>>
    BY <2>3, <2>4
  <2>6. Wire(d)'
    BY <1>1, <1>2, <2>1, <2>2, <2>4 DEF Linked, Wire
  <2>7. Word(d)'
    BY <1>1, <1>2, <2>2, <2>4, <2>5 DEF Linked, Word
  <2>8. Over(d)'
    BY <1>1, <1>2, <2>2 DEF Linked, Over
  <2>9. Alive(d)'
    <3>1. ASSUME phase[d] = "live", link[d] = "up", awaiting[d]
          PROVE  inbox'[d] # <<>> \/ Ping \in Items(out'[d]) \/ task[d] = "ping"
      <4>1. CASE m = Ping /\ ~Hears(d)
        <5>1. gw[d] = "none"
          BY <1>1, <3>1, <4>1 DEF Hears, Local, Bare, Early, Scalars
        <5>2. Items(inbox[d]) # {}
          BY <3>1, <5>1 DEF Linked, Word
        <5> QED
          BY <1>1, <2>5, <5>2, ItemsEmpty
      <4>2. CASE ~(m = Ping /\ ~Hears(d))
        BY <2>1, <2>3, <2>5, <3>1, <4>2 DEF Linked, Alive
      <4> QED
        BY <4>1, <4>2
    <3>2. ASSUME phase[d] = "live", link[d] = "up", missed[d] # 0
          PROVE  missed[d] = 1 /\ overdue[d] /\ inbox'[d] # <<>>
      BY <2>5, <3>2 DEF Linked, Alive
    <3> QED
      BY <1>1, <1>2, <3>1, <3>2 DEF Alive
  <2>10. Noticed(d)'
    BY <1>1, <1>2, <2>2, <2>5 DEF Linked, Noticed
  <2>11. set[d] \in 0 .. MaxEdits /\ (m.t = "servers" => m = Servers(m.set))
    BY <1>1, <2>1, Alphabets DEF Scalars
  <2>12. Servers(set[d]).t = "servers" /\ Servers(set[d]).set = set[d] /\ Servers(set[d]) # Ping
    BY <2>11, Alphabets
  <2>13. ASSUME phase[d] = "live", Hears(d)', task[d] # "advertise"
         PROVE  (view'[d] = set[d] /\ Quiet(out'[d])) \/ Carries(out'[d], set[d])
    <3>1. Hears(d)
      BY <1>2, <2>2, <2>13 DEF Hears
    <3>2. (view[d] = set[d] /\ Quiet(out[d])) \/ Carries(out[d], set[d])
      BY <2>13, <3>1 DEF Linked, Knows
    <3>3. CASE view[d] = set[d] /\ Quiet(out[d])
      <4>1. m.t # "servers" /\ Quiet(out'[d])
        BY <1>1, <2>1, <2>11, <3>3, CarriesTail DEF m
      <4> QED
        BY <2>2, <3>3, <4>1
    <3>4. CASE Carries(out[d], set[d])
      <4>1. Carries(out'[d], set[d]) \/ (m = Servers(set[d]) /\ Quiet(out'[d]))
        BY <1>1, <2>1, <2>11, <3>4, CarriesTail DEF m
      <4> QED
        BY <2>2, <2>12, <3>1, <4>1
    <3> QED
      BY <3>2, <3>3, <3>4
  <2>14. ASSUME d \in Once
         PROVE  /\ \A n \in Items(out'[d]) : n.t = "servers" => n = Servers(set[d])
                /\ view[d] = set[d] => view'[d] = set[d]
    <3>1. \A n \in Items(out[d]) : n.t = "servers" => n = Servers(set[d])
      BY <2>14 DEF Linked, Knows
    <3>2. m.t = "servers" => m.set = set[d]
      BY <2>1, <2>12, <3>1
    <3> QED
      BY <2>1, <2>2, <3>1, <3>2
  <2>15. ASSUME d \in Once, phase[d] = "live", view'[d] # set[d]
         PROVE  "pong" \notin Items(inbox'[d]) /\ ~Hears(d)'
    <3>1. "pong" \notin Items(inbox[d]) /\ (Hears(d) => m = Servers(set[d]))
      BY <2>14, <2>15 DEF Linked, Knows, m
    <3>2. ~Hears(d)
      BY <2>2, <2>12, <2>15, <3>1
    <3> QED
      BY <1>2, <2>2, <2>3, <3>1, <3>2 DEF Hears
  <2>16. Knows(d)'
    BY <1>2, <2>13, <2>14, <2>15 DEF Linked, Knows
  <2> QED
    BY <2>6, <2>7, <2>8, <2>9, <2>10, <2>16 DEF Linked
<1> QED
  BY <1>3, <1>4 DEF WriterSends, Hears

\* What becomes of a connection the gateway lets go of: it says why, on a link that
\* stands, and `replaced` to the one it took the socket from.
LEMMA LetGoLinked ==
    ASSUME TypeOK, NEW d \in Daemon, Local(d), Linked(d), gw[d] # "none", gw'[d] = "none",
           UNCHANGED <<phase[d], task[d], result[d], awaiting[d], missed[d], overdue[d], out[d],
                       writer[d], set[d], link[d], view[d]>>,
           Items(inbox'[d]) \subseteq Items(inbox[d]) \cup Ends,
           Items(inbox[d]) \subseteq Items(inbox'[d]), inbox[d] # <<>> => inbox'[d] # <<>>,
           link[d] = "up" => Items(inbox'[d]) \cap Closes # {},
           ousted'[d] = "told" =>
               \/ ousted[d] = "told"
               \/ link[d] = "up" /\ gw[d] = "open" /\ Items(inbox'[d]) = Items(inbox[d]) \cup {"replaced"}
    PROVE  Linked(d)'
<1>1. "pong" \notin Ends /\ "replaced" \in Ends
  BY DEF Ends, Closes
<1>2. Wire(d)' /\ Over(d)' /\ Alive(d)'
  BY DEF Linked, Wire, Over, Alive
<1>3. Word(d)'
  BY <1>1 DEF Linked, Word
<1>4. Noticed(d)'
  <2> SUFFICES ASSUME ousted'[d] = "told" PROVE Noticed(d)'
    BY DEF Noticed
  <2>1. CASE ousted[d] = "told"
    BY <2>1 DEF Linked, Noticed
  <2>2. CASE /\ link[d] = "up" /\ gw[d] = "open"
             /\ Items(inbox'[d]) = Items(inbox[d]) \cup {"replaced"}
    <3>1. Items(inbox[d]) \cap Ends = {} /\ phase[d] \notin {"verdict", "stopped"}
      BY <2>2 DEF Linked, Word
    <3>2. phase[d] \in {"hello", "auth", "live", "ending", "closing"}
      BY <2>2, <3>1, TypeParts DEF Local, Bare, Scalars
    <3>3. phase[d] \in {"ending", "closing"} => result[d] = "ok" /\ d \in Once
      BY <2>2 DEF Linked, Over, Local, Stops
    <3>4. Items(inbox'[d]) \cap Ends = {"replaced"}
      BY <1>1, <2>2, <3>1
    <3>5. writer'[d] # "failed" /\ link'[d] = "up"
      BY <2>2 DEF Linked, Wire
    <3> QED
      BY <2>2, <3>2, <3>3, <3>4, <3>5 DEF Noticed
  <2> QED
    BY <2>1, <2>2
<1>5. Knows(d)'
  BY <1>1 DEF Linked, Knows, Hears
<1> QED
  BY <1>2, <1>3, <1>4, <1>5 DEF Linked

\* A challenge ends nothing.
LEMMA ChallengeLinked ==
    ASSUME TypeOK, NEW d \in Daemon, Local(d), Linked(d), Challenge(d)
    PROVE  Linked(d)'
<1>1. Scalars /\ Inboxes /\ gw[d] = "hello" /\ phase[d] \in {"hello", "auth"}
  BY TypeParts DEF Challenge, Local, Bare, Early
<1>2. /\ gw'[d] = "challenged"
      /\ UNCHANGED <<phase, task, awaiting, missed, overdue, result, out, writer, set, link, view, ousted>>
  BY <1>1 DEF Challenge, Scalars, loop, sending
<1>3. Items(inbox'[d]) \subseteq Items(inbox[d]) \cup {"challenge"} /\ "challenge" \notin Ends
  BY <1>1, ArrivesOne DEF Challenge, Pools, Frames, Ends, Closes
<1>4. ousted[d] # "told"
  BY <1>1 DEF Linked, Noticed
<1>5. Wire(d)' /\ Word(d)' /\ Over(d)' /\ Alive(d)' /\ Noticed(d)'
  BY <1>1, <1>2, <1>3, <1>4 DEF Linked, Wire, Word, Over, Alive, Noticed
<1>6. Knows(d)'
  BY <1>1, <1>2 DEF Linked, Knows
<1> QED
  BY <1>5, <1>6 DEF Linked

\* On a link that stands every word arrives.
LEMMA ArrivesWhole ==
    ASSUME TypeOK, NEW d \in Daemon, NEW ms \in Seq(Pools), ms # <<>>, Arrives(d, ms)
    PROVE  /\ Items(inbox'[d]) \subseteq Items(inbox[d]) \cup Items(ms)
           /\ Items(inbox[d]) \subseteq Items(inbox'[d]) /\ (inbox[d] # <<>> => inbox'[d] # <<>>)
           /\ link[d] = "up" => Items(inbox'[d]) = Items(inbox[d]) \cup Items(ms)
<1>1. Inboxes /\ inbox[d] \in Seq(Pools)
  BY TypeParts DEF Inboxes
<1>2. /\ inbox[d] \o ms \in Seq(Pools)
      /\ Items(inbox[d] \o ms) = Items(inbox[d]) \cup Items(ms)
      /\ inbox[d] \o ms # <<>>
  <2>1. Items(ms) # {}
    BY ItemsEmpty
  <2>2. inbox[d] \o ms \in Seq(Pools) /\ Items(inbox[d] \o ms) = Items(inbox[d]) \cup Items(ms)
    BY <1>1, ItemsConcat
  <2> QED
    BY <2>1, <2>2, NoItems
<1>3. inbox'[d] = IF link[d] = "up" THEN inbox[d] \o ms ELSE inbox[d]
  BY <1>1 DEF Arrives, Inboxes
<1> QED
  BY <1>2, <1>3

\* A rejected handshake is let go of with a verdict.
LEMMA RejectLinked ==
    ASSUME TypeOK, NEW d \in Daemon, Local(d), Linked(d), Reject(d)
    PROVE  Linked(d)'
<1>1. PICK ms \in Seq(Pools) : /\ Arrives(d, ms) /\ ms # <<>> /\ Items(ms) \subseteq Ends
                               /\ Items(ms) \cap Closes # {}
  <2>1. {"4403", "4401", "unauthorized", "eof"} \subseteq Pools
    BY DEF Pools, Frames, Closes
  <2>2. /\ <<"4403">> \in Seq(Pools) /\ <<"unauthorized", "4401">> \in Seq(Pools)
        /\ <<"unauthorized", "eof">> \in Seq(Pools)
    BY <2>1
  <2>3. /\ Items(<<"4403">>) = {"4403"}
        /\ Items(<<"unauthorized", "4401">>) = {"unauthorized", "4401"}
        /\ Items(<<"unauthorized", "eof">>) = {"unauthorized", "eof"}
    BY DEF Items
  <2>4. <<"4403">> # <<>> /\ <<"unauthorized", "4401">> # <<>> /\ <<"unauthorized", "eof">> # <<>>
    OBVIOUS
  <2>5. ASSUME NEW ms \in {<<"4403">>, <<"unauthorized", "4401">>, <<"unauthorized", "eof">>}
        PROVE  ms \in Seq(Pools) /\ ms # <<>> /\ Items(ms) \subseteq Ends /\ Items(ms) \cap Closes # {}
    <3>1. CASE ms = <<"4403">>
      BY <2>2, <2>3, <2>4, <3>1 DEF Ends, Closes
    <3>2. CASE ms = <<"unauthorized", "4401">>
      BY <2>2, <2>3, <2>4, <3>2 DEF Ends, Closes
    <3>3. CASE ms = <<"unauthorized", "eof">>
      BY <2>2, <2>3, <2>4, <3>3 DEF Ends, Closes
    <3> QED
      BY <3>1, <3>2, <3>3
  <2>6. PICK ms \in {<<"4403">>, <<"unauthorized", "4401">>, <<"unauthorized", "eof">>} : Arrives(d, ms)
    BY DEF Reject
  <2> QED
    BY <2>5, <2>6
<1>2. Scalars /\ gw[d] \in {"hello", "auth"}
  BY TypeParts DEF Reject
<1>3. /\ gw[d] # "none" /\ gw'[d] = "none"
      /\ UNCHANGED <<phase, task, awaiting, missed, overdue, result, out, writer, set, link, view, ousted>>
  BY <1>2 DEF Reject, Scalars, loop, sending
<1> QED
  BY <1>1, <1>3, ArrivesWhole, LetGoLinked

\* A gateway that restarts says so.
LEMMA RestartLinked ==
    ASSUME TypeOK, NEW d \in Daemon, Local(d), Linked(d), Restart(d)
    PROVE  Linked(d)'
<1>1. /\ <<"restart">> \in Seq(Pools) /\ <<"restart">> # <<>> /\ Items(<<"restart">>) = {"restart"}
      /\ "restart" \in Closes /\ "restart" \in Ends
  BY Singles DEF Pools, Ends, Closes
<1>2. Scalars /\ gw[d] # "none" /\ Arrives(d, <<"restart">>)
  BY TypeParts DEF Restart
<1>3. /\ gw'[d] = "none"
      /\ UNCHANGED <<phase, task, awaiting, missed, overdue, result, out, writer, set, link, view, ousted>>
  BY <1>2 DEF Restart, Scalars, loop, sending
<1> QED
  BY <1>1, <1>2, <1>3, ArrivesWhole, LetGoLinked

\* An edit of the config does not reach the connection.
LEMMA EditLinked ==
    ASSUME TypeOK, NEW d \in Daemon, Linked(d), Edit(d)
    PROVE  Linked(d)'
<1>1. UNCHANGED <<phase, task, awaiting, missed, overdue, result, out, writer, set, link, inbox, gw,
                  view, ousted>>
  BY DEF Edit, loop, sending, gateway
<1>2. Wire(d)' /\ Word(d)' /\ Over(d)' /\ Alive(d)' /\ Noticed(d)'
  BY <1>1 DEF Linked, Wire, Word, Over, Alive, Noticed
<1>3. Knows(d)'
  BY <1>1 DEF Linked, Knows, Hears
<1> QED
  BY <1>2, <1>3 DEF Linked

\* A cut link may take notices with it, and is marked as lost.
LEMMA CutLinked ==
    ASSUME TypeOK, NEW d \in Daemon, Local(d), Linked(d), Cut(d)
    PROVE  Linked(d)'
<1>1. /\ Scalars /\ Inboxes /\ inbox[d] \in Seq(Pools) /\ "eof" \in Pools
      /\ phase[d] \in {"hello", "auth", "verdict", "live"}
  BY TypeParts DEF Inboxes, Pools, Closes, Cut, Connected
<1>2. /\ link'[d] = "cut" /\ gw'[d] = "none" /\ ousted'[d] # "told"
      /\ UNCHANGED <<phase, task, awaiting, missed, overdue, result, out, writer, set, view>>
  BY <1>1 DEF Cut, Lost, Scalars, loop, sending
<1>3. PICK k \in 0 .. Len(inbox[d]) : inbox' = [inbox EXCEPT ![d] = Append(SubSeq(inbox[d], 1, k), "eof")]
  BY DEF Cut
<1>4. "pong" \notin Items(inbox[d]) => "pong" \notin Items(inbox'[d])
  <2> DEFINE r == SubSeq(inbox[d], 1, k)
  <2>1. r \in Seq(Pools) /\ Items(r) \subseteq Items(inbox[d])
    BY <1>1, ItemsPrefix
  <2>2. inbox'[d] = Append(r, "eof")
    BY <1>1, <1>3 DEF Inboxes
  <2> HIDE DEF r
  <2>3. Items(Append(r, "eof")) = Items(r) \cup {"eof"}
    BY <1>1, <2>1, ItemsAppend
  <2> QED
    BY <2>1, <2>2, <2>3
<1>5. Wire(d)' /\ Word(d)' /\ Over(d)' /\ Alive(d)' /\ Noticed(d)'
  BY <1>1, <1>2, <1>4 DEF Linked, Wire, Word, Over, Alive, Noticed
<1>6. Knows(d)'
  BY <1>1, <1>2, <1>4 DEF Linked, Knows, Hears
<1> QED
  BY <1>5, <1>6 DEF Linked

\* So may a silent one.
LEMMA HushLinked ==
    ASSUME TypeOK, NEW d \in Daemon, Local(d), Linked(d), Hush(d)
    PROVE  Linked(d)'
<1>1. /\ Scalars /\ Inboxes /\ inbox[d] \in Seq(Pools)
      /\ phase[d] \in {"hello", "auth", "verdict", "live"}
  BY TypeParts DEF Inboxes, Hush, Connected
<1>2. /\ link'[d] = "silent" /\ ousted'[d] # "told"
      /\ UNCHANGED <<phase, task, awaiting, missed, overdue, result, out, writer, set, gw, view>>
  BY <1>1 DEF Hush, Lost, Scalars, loop, sending
<1>3. PICK k \in 0 .. Len(inbox[d]) : inbox' = [inbox EXCEPT ![d] = SubSeq(inbox[d], 1, k)]
  BY DEF Hush
<1>4. Items(inbox'[d]) \subseteq Items(inbox[d])
  <2>1. inbox'[d] = SubSeq(inbox[d], 1, k)
    BY <1>1, <1>3 DEF Inboxes
  <2> QED
    BY <1>1, <2>1, ItemsPrefix
<1>5. Wire(d)' /\ Word(d)' /\ Over(d)' /\ Alive(d)' /\ Noticed(d)'
  BY <1>1, <1>2, <1>4 DEF Linked, Wire, Word, Over, Alive, Noticed
<1>6. Knows(d)'
  BY <1>1, <1>2, <1>4 DEF Linked, Knows, Hears
<1> QED
  BY <1>5, <1>6 DEF Linked

\* A write to an end let go of fails, and a notice not yet read counts as lost.
LEMMA ResetLinked ==
    ASSUME TypeOK, NEW d \in Daemon, Local(d), Linked(d), Reset(d)
    PROVE  Linked(d)'
<1>1. /\ Scalars /\ Queues /\ Inboxes /\ inbox[d] \in Seq(Pools)
      /\ link[d] = "up" /\ gw[d] = "none" /\ writer[d] = "running"
      /\ phase[d] \in {"live", "ending", "closing"}
  BY TypeParts DEF Inboxes, Reset, Linked, Wire
<1>2. /\ writer'[d] = "failed" /\ out'[d] = <<>> /\ ousted'[d] # "told"
      /\ UNCHANGED <<phase, task, awaiting, missed, overdue, result, set, link, inbox, gw, view>>
  BY <1>1 DEF Reset, Lost, Scalars, Queues, loop
<1>3. Wire(d)' /\ Word(d)' /\ Over(d)' /\ Noticed(d)'
  BY <1>1, <1>2, NoItems DEF Linked, Wire, Word, Over, Noticed
<1>4. Alive(d)'
  <2>1. phase[d] = "live" => Items(inbox[d]) # {}
    BY <1>1 DEF Linked, Word
  <2>2. phase[d] = "live" => inbox[d] # <<>>
    BY <1>1, <2>1, ItemsEmpty
  <2> QED
    BY <1>1, <1>2, <2>2 DEF Linked, Alive
<1>5. Knows(d)'
  BY <1>1, <1>2, NoItems DEF Linked, Knows, Hears
<1> QED
  BY <1>3, <1>4, <1>5 DEF Linked

\* What a welcome does to the daemon welcomed, to the one replaced, and to the others.
LEMMA WelcomeLinked ==
    ASSUME TypeOK, NEW d \in Daemon, \A e \in Daemon : Local(e) /\ Linked(e), Welcome(d)
    PROVE  \A e \in Daemon : Linked(e)'
<1> DEFINE old == {e \in Daemon \ {d} : gw[e] = "open"}
<1>1. /\ Scalars /\ Inboxes /\ {"welcome", "replaced"} \subseteq Pools
      /\ "welcome" \notin Ends /\ "replaced" \in Ends /\ "replaced" \in Closes
  BY TypeParts DEF Pools, Frames, Closes, Ends
<1>2. UNCHANGED <<phase, task, result, awaiting, missed, overdue, out, writer, set, link>>
  BY DEF Welcome, loop, sending
<1>3. /\ gw[d] \in Early
      /\ gw' = [e \in Daemon |-> IF e = d THEN "open" ELSE IF e \in old THEN "none" ELSE gw[e]]
      /\ ousted' = [e \in Daemon |-> IF e = d THEN "no"
                                     ELSE IF e \in old THEN (IF link[e] = "up" THEN "told" ELSE "lost")
                                     ELSE ousted[e]]
      /\ inbox' = [e \in Daemon |->
                     IF link[e] # "up" THEN inbox[e]
                     ELSE IF e = d THEN Append(inbox[e], "welcome")
                     ELSE IF e \in old THEN Append(inbox[e], "replaced") ELSE inbox[e]]
      /\ view' = [view EXCEPT ![d] = Untold]
  BY DEF Welcome, Early
<1>4. ASSUME NEW e \in Daemon, NEW m \in Pools
      PROVE  /\ Items(Append(inbox[e], m)) = Items(inbox[e]) \cup {m}
             /\ Append(inbox[e], m) # <<>>
  <2>1. inbox[e] \in Seq(Pools)
    BY <1>1 DEF Inboxes
  <2> QED
    BY <2>1, ItemsAppend
<1>5. Linked(d)'
  <2>1. phase[d] \in {"hello", "auth"} /\ result[d] = "none" /\ Items(inbox[d]) \subseteq {"challenge"}
    BY <1>3 DEF Local, Bare
  <2>2. gw'[d] = "open" /\ ousted'[d] = "no" /\ Items(inbox'[d]) \subseteq {"challenge", "welcome"}
    BY <1>1, <1>3, <1>4, <2>1
  <2>3. Items(inbox'[d]) \cap Ends = {} /\ "pong" \notin Items(inbox'[d])
    BY <2>2 DEF Ends, Closes
  <2>4. Wire(d)' /\ Over(d)' /\ Alive(d)'
    BY <1>2, <2>1 DEF Linked, Wire, Over, Alive
  <2>5. Word(d)' /\ Noticed(d)'
    BY <1>2, <2>1, <2>2, <2>3 DEF Word, Noticed
  <2>6. Knows(d)'
    BY <1>2, <2>1 DEF Linked, Knows
  <2> QED
    BY <2>4, <2>5, <2>6 DEF Linked
<1>6. ASSUME NEW e \in Daemon, e \in old PROVE Linked(e)'
  <2>1. e # d /\ gw[e] = "open" /\ gw'[e] = "none"
    BY <1>3, <1>6
  <2>2. /\ ousted'[e] = (IF link[e] = "up" THEN "told" ELSE "lost")
        /\ inbox'[e] = (IF link[e] = "up" THEN Append(inbox[e], "replaced") ELSE inbox[e])
    BY <1>3, <1>6, <2>1
  <2>3. view'[e] = view[e]
    BY <1>1, <1>3, <2>1 DEF Scalars
  <2>4. /\ Items(inbox'[e]) \subseteq Items(inbox[e]) \cup Ends
        /\ Items(inbox[e]) \subseteq Items(inbox'[e]) /\ (inbox[e] # <<>> => inbox'[e] # <<>>)
        /\ link[e] = "up" => /\ Items(inbox'[e]) \cap Closes # {}
                             /\ Items(inbox'[e]) = Items(inbox[e]) \cup {"replaced"}
    BY <1>1, <1>4, <2>2
  <2> QED
    BY <1>2, <2>1, <2>2, <2>3, <2>4, LetGoLinked
<1>7. ASSUME NEW e \in Daemon, e # d, e \notin old PROVE Linked(e)'
  <2>1. gw'[e] = gw[e] /\ ousted'[e] = ousted[e] /\ inbox'[e] = inbox[e] /\ view'[e] = view[e]
    BY <1>1, <1>3, <1>7 DEF Scalars
  <2>2. Wire(e)' /\ Word(e)' /\ Over(e)' /\ Alive(e)' /\ Noticed(e)'
    BY <1>2, <2>1 DEF Linked, Wire, Word, Over, Alive, Noticed
  <2>3. Knows(e)'
    BY <1>2, <2>1 DEF Linked, Knows, Hears
  <2> QED
    BY <2>2, <2>3 DEF Linked
<1> HIDE DEF old
<1> QED
  BY <1>5, <1>6, <1>7

\* A revocation says 4403 to a connection that is open.
LEMMA RevokeLinked ==
    ASSUME TypeOK, \A e \in Daemon : Local(e) /\ Linked(e), Revoke
    PROVE  \A e \in Daemon : Linked(e)'
<1>1. Scalars /\ Inboxes /\ "4403" \in Pools /\ "4403" \in Ends /\ "4403" \in Closes
  BY TypeParts DEF Pools, Closes, Ends
<1>2. /\ UNCHANGED <<phase, task, result, awaiting, missed, overdue, out, writer, set, link, view, ousted>>
      /\ gw' = [e \in Daemon |-> IF gw[e] = "open" THEN "none" ELSE gw[e]]
      /\ inbox' = [e \in Daemon |-> IF gw[e] = "open" /\ link[e] = "up" THEN Append(inbox[e], "4403")
                                    ELSE inbox[e]]
  BY DEF Revoke, loop, sending
<1>3. ASSUME NEW e \in Daemon, gw[e] = "open" PROVE Linked(e)'
  <2>1. inbox[e] \in Seq(Pools)
    BY <1>1 DEF Inboxes
  <2>2. /\ Items(Append(inbox[e], "4403")) = Items(inbox[e]) \cup {"4403"}
        /\ Append(inbox[e], "4403") # <<>>
    BY <1>1, <2>1, ItemsAppend
  <2>3. gw'[e] = "none" /\ inbox'[e] = (IF link[e] = "up" THEN Append(inbox[e], "4403") ELSE inbox[e])
    BY <1>2, <1>3
  <2>4. /\ Items(inbox'[e]) \subseteq Items(inbox[e]) \cup Ends
        /\ Items(inbox[e]) \subseteq Items(inbox'[e]) /\ (inbox[e] # <<>> => inbox'[e] # <<>>)
        /\ link[e] = "up" => Items(inbox'[e]) \cap Closes # {}
    BY <1>1, <2>2, <2>3
  <2> QED
    BY <1>2, <1>3, <2>3, <2>4, LetGoLinked
<1>4. ASSUME NEW e \in Daemon, gw[e] # "open" PROVE Linked(e)'
  <2>1. gw'[e] = gw[e] /\ inbox'[e] = inbox[e]
    BY <1>2, <1>4
  <2>2. Wire(e)' /\ Word(e)' /\ Over(e)' /\ Alive(e)' /\ Noticed(e)'
    BY <1>2, <2>1 DEF Linked, Wire, Word, Over, Alive, Noticed
  <2>3. Knows(e)'
    BY <1>2, <2>1 DEF Linked, Knows, Hears
  <2> QED
    BY <2>2, <2>3 DEF Linked
<1> QED
  BY <1>3, <1>4

-----------------------------------------------------------------------------
(* The second invariant.                                                   *)

\* A step of `d` leaves alone all of another daemon that Linked speaks of.
Apart(d) ==
    \A e \in Daemon \ {d} :
        /\ UNCHANGED <<phase[e], task[e], result[e], awaiting[e], missed[e], overdue[e], out[e]>>
        /\ UNCHANGED <<writer[e], set[e], link[e], inbox[e], gw[e], view[e], ousted[e]>>

\* Each action of one daemon does.
LEMMA StepApart ==
    ASSUME TypeOK, NEW d \in Daemon, Step(d) \/ Challenge(d) \/ Reject(d) \/ WriterSends(d)
           \/ Refused(d) \/ Cut(d) \/ Hush(d) \/ Reset(d) \/ Restart(d) \/ Edit(d)
    PROVE  Apart(d)
<1>1. Scalars /\ Queues /\ Inboxes
  BY TypeParts
<1>2. CASE Dial(d)
  BY <1>1, <1>2 DEF Dial, Scalars, Queues, Inboxes, loop, sending, Apart
<1>3. ASSUME NEW why, Fails(d, why) PROVE Apart(d)
  BY <1>1, <1>3 DEF Fails, Retry, Hangup, Scalars, Queues, Inboxes, loop, Apart
<1>4. CASE Dialled(d)
  <2>1. CASE Fails(d, "unknown_device") \/ Fails(d, "unauthorized")
    BY <1>3, <2>1
  <2>2. CASE ~revoked /\ ~Fails(d, "unauthorized")
    BY <1>1, <1>4, <2>2 DEF Dialled, Scalars, Queues, Inboxes, loop, sending, Apart
  <2> QED
    BY <1>4, <2>1, <2>2 DEF Dialled
<1>5. CASE Handshake(d)
  <2>1. CASE Start(d)
    BY <1>1, <2>1 DEF Start, Scalars, Queues, Inboxes, loop, gateway, Apart
  <2>2. CASE \E why : Fails(d, why)
    BY <1>3, <2>2
  <2>3. CASE /\ UNCHANGED <<loop, result, sending, set, link, view, ousted>>
             /\ phase' = [phase EXCEPT ![d] = "auth"]
             /\ inbox' = [inbox EXCEPT ![d] = Tail(@)]
             /\ gw' = [gw EXCEPT ![d] = IF @ = "challenged" /\ link[d] = "up" THEN "auth" ELSE @]
    BY <1>1, <2>3 DEF Scalars, Queues, Inboxes, loop, sending, Apart
  <2>4. CASE /\ UNCHANGED <<loop, result, sending, set, link, gateway>>
             /\ phase' = [phase EXCEPT ![d] = IF @ = "auth" THEN "verdict" ELSE @]
             /\ inbox' = [inbox EXCEPT ![d] = Tail(@)]
    BY <1>1, <2>4 DEF Scalars, Queues, Inboxes, loop, sending, gateway, Apart
  <2> QED
    BY <1>5, <2>1, <2>2, <2>3, <2>4 DEF Handshake
<1>6. CASE HandshakeTimeout(d)
  BY <1>3, <1>6 DEF HandshakeTimeout
<1>7. ASSUME NEW m, NEW where, Send(d, m, where)
      PROVE  \A e \in Daemon \ {d} : UNCHANGED <<phase[e], task[e], result[e], out[e]>>
  BY <1>1, <1>7 DEF Send, End, Scalars, Queues
<1>8. ASSUME NEW why, End(d, why)
      PROVE  \A e \in Daemon \ {d} : UNCHANGED <<phase[e], task[e], result[e]>>
  BY <1>1, <1>8 DEF End, Scalars
<1>9. CASE Tick(d)
  <2>1. \A e \in Daemon \ {d} : /\ UNCHANGED <<phase[e], task[e], result[e], out[e]>>
                                /\ awaiting'[e] = awaiting[e]
    BY <1>1, <1>7, <1>8, <1>9 DEF Tick, Scalars
  <2> QED
    BY <1>1, <1>9, <2>1 DEF Tick, Scalars, gateway, Apart
<1>10. CASE Changed(d)
  BY <1>1, <1>7, <1>10 DEF Changed, Scalars, gateway, Apart
<1>11. CASE Unblocked(d)
  BY <1>7, <1>11 DEF Unblocked, gateway, Apart
<1>12. CASE WriterEnded(d)
  BY <1>8, <1>12 DEF WriterEnded, sending, gateway, Apart
<1>13. CASE Incoming(d)
  <2>1. \A e \in Daemon \ {d} : /\ UNCHANGED <<phase[e], task[e], result[e]>>
                                /\ UNCHANGED <<awaiting[e], missed[e]>>
    BY <1>1, <1>8, <1>13 DEF Incoming, Scalars
  <2> QED
    BY <1>1, <1>13, <2>1 DEF Incoming, Scalars, Inboxes, sending, gateway, Apart
<1>14. CASE Goodbye(d)
  BY <1>1, <1>14 DEF Goodbye, Scalars, Queues, loop, gateway, Apart
<1>15. CASE Leave(d)
  BY <1>1, <1>15 DEF Leave, Retry, Hangup, Scalars, Queues, Inboxes, Apart
<1>16. ASSUME NEW ms, Arrives(d, ms) PROVE \A e \in Daemon \ {d} : inbox'[e] = inbox[e]
  BY <1>1, <1>16 DEF Arrives, Inboxes
<1>17. CASE Challenge(d)
  BY <1>1, <1>16, <1>17 DEF Challenge, Scalars, loop, sending, Apart
<1>18. CASE Reject(d)
  BY <1>1, <1>16, <1>18 DEF Reject, Scalars, loop, sending, Apart
<1>19. CASE WriterSends(d)
  <2>1. \A e \in Daemon \ {d} : UNCHANGED <<writer[e], out[e], inbox[e], view[e], gw[e]>>
    BY <1>1, <1>19 DEF WriterSends, Scalars, Queues, Inboxes
  <2> QED
    BY <1>19, <2>1 DEF WriterSends, loop, Apart
<1>20. CASE Refused(d)
  BY <1>1, <1>20 DEF Refused, Retry, Scalars, loop, sending, gateway, Apart
<1>21. CASE Cut(d)
  BY <1>1, <1>21 DEF Cut, Lost, Scalars, Inboxes, loop, sending, Apart
<1>22. CASE Hush(d)
  BY <1>1, <1>22 DEF Hush, Lost, Scalars, Inboxes, loop, sending, Apart
<1>23. CASE Restart(d)
  BY <1>1, <1>16, <1>23 DEF Restart, Scalars, loop, sending, Apart
<1>24. CASE Edit(d)
  BY <1>24 DEF Edit, loop, sending, gateway, Apart
<1>25. CASE Reset(d)
  BY <1>1, <1>25 DEF Reset, Lost, Scalars, Queues, loop, Apart
<1> QED
  BY <1>2, <1>4, <1>5, <1>6, <1>9, <1>10, <1>11, <1>12, <1>13, <1>14, <1>15, <1>17, <1>18,
     <1>19, <1>20, <1>21, <1>22, <1>23, <1>24, <1>25 DEF Step

\* So the others keep their part.
LEMMA ApartKeep ==
    ASSUME NEW d \in Daemon, Apart(d), \A e \in Daemon : Linked(e), Linked(d)'
    PROVE  \A e \in Daemon : Linked(e)'
<1>1. ASSUME NEW e \in Daemon \ {d} PROVE Linked(e)'
  <2>1. Wire(e)' /\ Word(e)' /\ Over(e)'
    BY DEF Apart, Linked, Wire, Word, Over
  <2>2. Alive(e)'
    BY DEF Apart, Linked, Alive
  <2>3. Noticed(e)'
    <3>1. UNCHANGED <<phase[e], result[e], writer[e], link[e], inbox[e], gw[e], ousted[e]>>
      BY DEF Apart
    <3>2. Noticed(e)
      BY DEF Linked
    <3> QED
      BY <3>1, <3>2 DEF Noticed
  <2>4. Knows(e)'
    BY DEF Apart, Linked, Knows, Hears
  <2> QED
    BY <2>1, <2>2, <2>3, <2>4 DEF Linked
<1> QED
  BY <1>1

AllLinked == \A d \in Daemon : Linked(d)

\* At the start there is no connection.
LEMMA InitLinked == Init => AllLinked
<1> SUFFICES ASSUME Init, NEW d \in Daemon PROVE Linked(d)
  BY DEF AllLinked
<1>1. /\ phase[d] = "dialling" /\ task[d] = "select" /\ result[d] = "none" /\ awaiting[d] = FALSE
      /\ out[d] = <<>> /\ inbox[d] = <<>> /\ writer[d] = "none" /\ gw[d] = "none" /\ ousted[d] = "no"
  BY DEF Init
<1>2. Wire(d) /\ Word(d) /\ Over(d) /\ Alive(d) /\ Noticed(d)
  BY <1>1, NoItems DEF Wire, Word, Over, Alive, Noticed
<1>3. Knows(d)
  BY <1>1, NoItems DEF Knows
<1> QED
  BY <1>2, <1>3 DEF Linked

\* Every step keeps loop and gateway together.
LEMMA NextLinked == Inv /\ AllLinked /\ [Next]_vars => AllLinked'
<1> SUFFICES ASSUME Inv, AllLinked, [Next]_vars PROVE AllLinked'
  OBVIOUS
<1>1. TypeOK /\ \A e \in Daemon : Local(e) /\ Linked(e)
  BY DEF Inv, AllLinked
<1>2. ASSUME NEW d \in Daemon, Step(d) \/ Challenge(d) \/ Reject(d) \/ WriterSends(d)
             \/ Refused(d) \/ Cut(d) \/ Hush(d) \/ Reset(d) \/ Restart(d) \/ Edit(d)
      PROVE  AllLinked'
  <2>1. Local(d) /\ Linked(d)
    BY <1>1
  <2>2. Linked(d)'
    <3>1. CASE Step(d)
      BY <1>1, <2>1, <3>1, DialLinked, DialledLinked, HandshakeLinked, HandshakeTimeoutLinked, TickLinked,
         ChangedLinked, UnblockedLinked, WriterEndedLinked, IncomingLinked, GoodbyeLinked, LeaveLinked DEF Step
    <3>2. CASE Challenge(d) \/ Reject(d) \/ WriterSends(d)
      BY <1>1, <2>1, <3>2, ChallengeLinked, RejectLinked, WriterSendsLinked
    <3>3. CASE Refused(d) \/ Cut(d) \/ Hush(d) \/ Reset(d) \/ Restart(d) \/ Edit(d)
      BY <1>1, <2>1, <3>3, RefusedLinked, CutLinked, HushLinked,
         ResetLinked, RestartLinked, EditLinked
    <3> QED
      BY <1>2, <3>1, <3>2, <3>3
  <2>3. Apart(d)
    BY <1>1, <1>2, StepApart
  <2> QED
    BY <1>1, <2>2, <2>3, ApartKeep DEF AllLinked
<1>3. ASSUME NEW d \in Daemon, Welcome(d) PROVE AllLinked'
  BY <1>1, <1>3, WelcomeLinked DEF AllLinked
<1>4. CASE Revoke
  BY <1>1, <1>4, RevokeLinked DEF AllLinked
<1>5. CASE UNCHANGED vars
  <2>1. UNCHANGED <<phase, task, awaiting, missed, overdue, result, out, writer, set, link, inbox, gw,
                    view, ousted>>
    BY <1>5 DEF vars, loop, sending, gateway
  <2>2. ASSUME NEW d \in Daemon PROVE Linked(d)'
    <3>1. Linked(d)
      BY <1>1
    <3>2. Wire(d)' /\ Word(d)' /\ Over(d)' /\ Alive(d)' /\ Noticed(d)'
      BY <2>1, <3>1 DEF Linked, Wire, Word, Over, Alive, Noticed
    <3>3. Knows(d)'
      BY <2>1, <3>1 DEF Linked, Knows, Hears
    <3> QED
      BY <3>2, <3>3 DEF Linked
  <2> QED
    BY <2>2 DEF AllLinked
<1> QED
  BY <1>2, <1>3, <1>4, <1>5 DEF Next, Gateway

\* So it always holds.
LEMMA LinkedInvariance == Spec => [](Inv /\ AllLinked)
<1>1. Init => Inv /\ AllLinked
  BY InitInv, InitLinked
<1>2. Inv /\ AllLinked /\ [Next]_vars => (Inv /\ AllLinked)'
  BY NextInv, NextLinked
<1> QED
  BY <1>1, <1>2, PTL DEF Spec

-----------------------------------------------------------------------------
(* The theorems.                                                           *)

\* Every variable keeps its type; the exponent of the backoff stays below its cap, the
\* outbound queue within OUTBOUND_QUEUE and the missed pongs within max_missed_pongs.
THEOREM TypeCorrect == Spec => []TypeOK
<1>1. Inv => TypeOK
  BY DEF Inv
<1> QED
  BY <1>1, Invariance, PTL

\* However many copies there are and whatever breaks: only a verdict of the gateway
\* stops a daemon for good, and `unauthorized` only with the device revoked or a key
\* that is not its own.
THEOREM FatalOnlyIfEarned == Spec => []FatalIsEarned
<1>1. Inv => FatalIsEarned
  BY DEF Inv, Local, Earned, FatalIsEarned
<1> QED
  BY <1>1, Invariance, PTL

\* Copies of a device of which one has its key never all give way to each other.
THEOREM SomeoneAlwaysStays == Spec => []SomeoneStays
<1>1. Inv => SomeoneStays
  <2> SUFFICES ASSUME Inv, \A d \in Daemon : phase[d] = "stopped", ~revoked,
                      strangers # Daemon
               PROVE  \E d \in Once : result[d] = "ok"
    BY DEF SomeoneStays
  <2>1. PICK d \in Daemon \ strangers : ousted[d] = "no"
    BY DEF Inv, Newest
  <2>2. result[d] \notin Fatal
    BY <2>1 DEF Inv, Local, Earned, Fatal
  <2> QED
    BY <2>2 DEF Inv, Local, Stops
<1> QED
  BY <1>1, Invariance, PTL

\* keepalive gives up as dead only a link that broke: on one that stands a pong is missed at
\* most once, when it was read late, and max_missed_pongs is two or more.
THEOREM AliveAlwaysKept == Spec => []AliveIsKept
<1>1. Inv /\ AllLinked => AliveIsKept
  <2> SUFFICES ASSUME Inv, AllLinked, NEW d \in Daemon, phase[d] = "ending", result[d] = "dead"
               PROVE  link[d] \in {"silent", "cut"}
    BY DEF AliveIsKept
  <2>1. link[d] # "none" /\ link[d] # "up"
    BY DEF AllLinked, Linked, Wire, Over
  <2>2. Scalars
    BY TypeParts DEF Inv
  <2> QED
    BY <2>1, <2>2 DEF Scalars
<1> QED
  BY <1>1, LinkedInvariance, PTL

\* An idle connection whose queue holds no servers frame has told the gateway the set the
\* relay serves (advertise), and a --once run that succeeded did.
THEOREM GatewayAlwaysKnowsTheSet == Spec => []GatewayKnowsTheSet
<1>1. Inv /\ AllLinked => GatewayKnowsTheSet
  <2> SUFFICES ASSUME Inv, AllLinked, NEW d \in Daemon
               PROVE  /\ /\ Idle(d) /\ link[d] = "up" /\ gw[d] = "open"
                         /\ \A i \in 1 .. Len(out[d]) : out[d][i].t # "servers"
                         => view[d] = set[d]
                      /\ d \in Once /\ result[d] = "ok" => view[d] = set[d]
    BY DEF GatewayKnowsTheSet
  <2>1. Knows(d)
    BY DEF AllLinked, Linked
  <2>2. d \in Once /\ result[d] = "ok" => view[d] = set[d]
    BY <2>1 DEF Knows
  <2>3. ASSUME Idle(d), link[d] = "up", gw[d] = "open",
               \A i \in 1 .. Len(out[d]) : out[d][i].t # "servers"
        PROVE  view[d] = set[d]
    <3>1. Scalars /\ set[d] \in 0 .. MaxEdits
      BY TypeParts DEF Inv, Scalars
    <3>2. Servers(set[d]).t = "servers"
      BY <3>1, Alphabets
    <3>3. ~Carries(out[d], set[d])
      BY <2>3, <3>2 DEF Carries
    <3>4. phase[d] = "live" /\ task[d] = "select"
      BY <2>3 DEF Idle
    <3> QED
      BY <2>1, <2>3, <3>3, <3>4 DEF Knows, Hears
  <2> QED
    BY <2>2, <2>3
<1> QED
  BY <1>1, LinkedInvariance, PTL

\* A daemon that was told it was replaced (close code 1012) never has the socket back: `run`
\* stops for good unless the notice was lost, with its link or behind a writer's error.
THEOREM TurnsAlwaysNeedALostNotice == Spec => TurnsNeedALostNotice
<1>1. Inv /\ AllLinked /\ [Next]_vars =>
        [\A d \in Daemon : gw[d] # "open" /\ gw'[d] = "open" => ousted[d] # "told"]_vars
  <2> SUFFICES ASSUME Inv, AllLinked, Next, NEW d \in Daemon, gw[d] # "open", gw'[d] = "open"
               PROVE  ousted[d] # "told"
    OBVIOUS
  <2>1. Scalars /\ Local(d) /\ Linked(d)
    BY TypeParts DEF Inv, AllLinked
  <2>2. gw[d] \in Early
    <3>1. ASSUME NEW e \in Daemon, Step(e) \/ Challenge(e) \/ Reject(e) \/ WriterSends(e)
                 \/ Refused(e) \/ Cut(e) \/ Hush(e) \/ Reset(e) \/ Restart(e) \/ Edit(e)
          PROVE  FALSE
      <4>1. TypeOK
        BY DEF Inv
      <4>2. e = d
        BY <3>1, <4>1, StepApart DEF Apart
      <4>3. CASE Step(e)
        <5>1. gw' = gw \/ \E s \in {"none", "hello"} : gw' = [gw EXCEPT ![d] = s]
              \/ gw' = [gw EXCEPT ![d] = IF @ = "challenged" /\ link[d] = "up" THEN "auth" ELSE @]
          BY <4>2, <4>3 DEF Step, Dial, Dialled, Handshake, HandshakeTimeout, Fails, Hangup, Start, Tick,
             Changed, Unblocked, WriterEnded, Incoming, Goodbye, Leave, gateway
        <5> QED
          BY <2>1, <5>1 DEF Scalars
      <4>4. CASE Challenge(e) \/ Reject(e) \/ WriterSends(e)
        BY <2>1, <4>2, <4>4 DEF Challenge, Reject, WriterSends, Scalars
      <4>5. CASE Refused(e) \/ Cut(e) \/ Hush(e) \/ Reset(e) \/ Restart(e) \/ Edit(e)
        BY <2>1, <4>2, <4>5 DEF Refused, Cut, Hush, Reset, Restart, Edit, Scalars, gateway
      <4> QED
        BY <3>1, <4>3, <4>4, <4>5
    <3>2. CASE Revoke
      BY <3>2 DEF Revoke
    <3>3. ASSUME NEW e \in Daemon, Welcome(e) PROVE gw[d] \in Early
      BY <3>3 DEF Welcome, Early
    <3> QED
      BY <3>1, <3>2, <3>3 DEF Next, Gateway
  <2>3. phase[d] \in {"hello", "auth"} /\ gw[d] # "none"
    BY <2>1, <2>2 DEF Local, Bare, Early
  <2> QED
    BY <2>1, <2>3 DEF Linked, Noticed
<1> QED
  BY <1>1, LinkedInvariance, PTL DEF Spec, TurnsNeedALostNotice
===============================================================================
