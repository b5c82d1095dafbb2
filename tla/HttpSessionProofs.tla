-------------------------- MODULE HttpSessionProofs --------------------------
(***************************************************************************)
(* HttpSession, for any number of messages and any idle time: what the     *)
(* requests carry, when a session counts as idle, that nothing follows the *)
(* DELETE, and the refinement of Delivery.                                 *)
(***************************************************************************)
EXTENDS HttpSession, FiniteSetTheorems, TLAPS

-----------------------------------------------------------------------------
(* The type invariant, in the parts an action disturbs separately.         *)

GatewayOK ==
    /\ messages \in Seq([init : BOOLEAN, saw : BOOLEAN]) /\ Len(messages) <= MaxSent
    /\ taken \in 0..Len(messages)
    /\ dropped \in BOOLEAN /\ relay_up \in BOOLEAN

LoopOK ==
    /\ loop \in {"selecting", "initializing", "shutting", "deleting", "over"}
    /\ reason \in {"running", "none", "server_exited", "message_too_large", "idle"}
    /\ session_id \in 0..MaxSent /\ protocol_version \in 0..MaxSent

TaskOK ==
    /\ task \in [Exchange -> {"unborn", "gone"} \cup Running \cup Finished]
    /\ naming \subseteq {e \in Exchange : e[1] = "POST"}

\* The loop's clock is right about how long it has been quiet.
ClockOK ==
    /\ deadline \in 0..Idle /\ idle_for \in 0..Idle
    /\ silence = idle_for

AccountOK ==
    /\ asked \in [Exchange -> [sid : 0..MaxSent, version : 0..MaxSent, out : BOOLEAN]]
    /\ issued \subseteq MessageNo /\ told \subseteq MessageNo /\ events \in 0..MaxEvents

\* The POSTs the loop has counted and not joined; it counts an initialize when
\* its headers are in.
Underway == {k \in MessageNo : /\ task[<<"POST", k>>] \notin {"unborn", "gone"}
                               /\ ~(loop = "initializing" /\ k = taken)}

FlightOK == in_flight = IF Looping THEN Cardinality(Underway) ELSE 0

Typed == GatewayOK /\ LoopOK /\ TaskOK /\ ClockOK /\ AccountOK

-----------------------------------------------------------------------------
(* In which order things happen.                                           *)

\* Messages are taken in turn; a listener follows its initialize; an initialize
\* whose headers are not in is the one the loop waits for; at the DELETE no
\* exchange is left.
Order ==
    /\ \A k \in MessageNo : task[<<"POST", k>>] = "unborn" <=> k > taken
    /\ \A k \in MessageNo : task[<<"GET", k>>] # "unborn" => task[<<"POST", k>>] = "gone"
    /\ \A k \in MessageNo : k <= taken /\ messages[k].init /\ task[<<"POST", k>>] \in {"ready", "waiting"}
                              => loop = "initializing" /\ k = taken
    /\ loop = "initializing" =>
           taken > 0 /\ task[<<"POST", taken>>] \in {"ready", "waiting"}
    /\ loop \in {"deleting", "over"} => \A e \in Exchange : task[e] \in {"unborn", "gone"}

\* What the account says was asked and answered, and what the session keeps of it.
Accounted ==
    /\ \A e \in Exchange : asked[e].out => task[e] \notin {"unborn", "ready"}
    /\ \A k \in issued : task[<<"POST", k>>] \notin {"unborn", "ready", "waiting"}
    /\ issued # {} => session_id # 0
    /\ told \cup naming # {} => protocol_version # 0
    /\ \A k \in 1..Len(messages) : messages[k].saw => told # {}

HttpInv == Typed /\ FlightOK /\ Order /\ Accounted /\ HeadersFollow
USE DEF Exchange, Running, Finished, gateway, upstream, timers, account

LEMMA Numbers ==
    /\ Idle \in Nat /\ Idle > 0 /\ MaxSent \in Nat /\ MaxEvents \in Nat
    /\ \A k \in MessageNo : k \in Nat /\ k > 0 /\ k <= MaxSent /\ k \in 0..MaxSent
    /\ 0 \in 0..Idle /\ 0 \in 0..MaxSent /\ 0 \in 0..MaxEvents
BY SessionAssumption DEF MessageNo

LEMMA Exchanges ==
    ASSUME NEW e \in Exchange
    PROVE  \E k \in MessageNo : k = e[2] /\ (e = <<"POST", k>> \/ e = <<"GET", k>>)
OBVIOUS

\* The message at the head of the channel.
LEMMA NextMessage ==
    ASSUME GatewayOK, taken < Len(messages)
    PROVE  taken + 1 \in MessageNo /\ taken + 1 \in 1..Len(messages) /\ taken + 1 \in 0..Len(messages)
BY Numbers DEF GatewayOK, MessageNo

LEMMA AskedIsTaken ==
    ASSUME Order, Accounted, taken \in Nat, NEW e \in Exchange, asked[e].out
    PROVE  e[2] <= taken
<1>1. PICK k \in MessageNo : k = e[2] /\ (e = <<"POST", k>> \/ e = <<"GET", k>>)
  BY Exchanges
<1>2. task[e] # "unborn"
  BY DEF Accounted
<1>3. task[<<"POST", k>>] # "unborn"
  BY <1>1, <1>2 DEF Order
<1>4. ~(k > taken)
  BY <1>3 DEF Order
<1> QED
  BY <1>1, <1>4, Numbers

LEMMA InitHttp == HttpInit => HttpInv
<1> SUFFICES ASSUME HttpInit PROVE HttpInv
  OBVIOUS
<1>1. GatewayOK /\ LoopOK /\ ClockOK
  <2>1. Len(messages) = 0 /\ messages \in Seq([init : BOOLEAN, saw : BOOLEAN])
    BY DEF HttpInit
  <2>2. GatewayOK
    <3>1. taken \in 0..Len(messages) /\ Len(messages) <= MaxSent
      BY <2>1, Numbers DEF HttpInit
    <3> QED
      BY <2>1, <3>1 DEF HttpInit, GatewayOK
  <2>3. LoopOK
    BY Numbers DEF HttpInit, LoopOK
  <2>4. ClockOK
    BY Numbers DEF HttpInit, ClockOK
  <2> QED
    BY <2>2, <2>3, <2>4
<1>2. TaskOK
  BY DEF HttpInit, TaskOK
<1>3. AccountOK
  <2>1. Unsent \in [sid : 0..MaxSent, version : 0..MaxSent, out : BOOLEAN]
    BY Numbers DEF Unsent
  <2> QED
    BY <2>1, Numbers DEF HttpInit, AccountOK
<1>4. Underway = {}
  BY DEF HttpInit, Underway
<1>5. FlightOK
  BY <1>4, FS_EmptySet DEF HttpInit, FlightOK
<1>6. Order
  BY Numbers DEF HttpInit, Order
<1>7. Accounted /\ HeadersFollow
  BY DEF HttpInit, Accounted, HeadersFollow, Unsent
<1> QED
  BY <1>1, <1>2, <1>3, <1>5, <1>6, <1>7 DEF HttpInv, Typed

LEMMA UnderwayFinite == IsFiniteSet(Underway) /\ Cardinality(Underway) \in 0..MaxSent
<1>1. 1 \in Int /\ MaxSent \in Int /\ MaxSent >= 0
  BY Numbers
<1>2. IsFiniteSet(MessageNo) /\ Cardinality(MessageNo) = MaxSent
  BY <1>1, FS_Interval DEF MessageNo
<1>3. Underway \in SUBSET MessageNo
  BY DEF Underway
<1>4. IsFiniteSet(Underway) /\ Cardinality(Underway) <= MaxSent
  BY <1>2, <1>3, FS_Subset
<1> QED
  BY <1>1, <1>4, FS_CardinalityType

LEMMA TypedIsTypeOK == Typed /\ FlightOK => HttpTypeOK
BY UnderwayFinite, Numbers DEF Typed, FlightOK, HttpTypeOK, GatewayOK, LoopOK, TaskOK, ClockOK, AccountOK

-----------------------------------------------------------------------------
(* The end of the loop.                                                    *)

LEMMA LeaveKeeps ==
    ASSUME HttpInv, Looping, NEW w \in {"none", "server_exited", "message_too_large", "idle"},
           Leave(w)
    PROVE  HttpInv'
<1> USE DEF HttpInv, Typed
<1>0. /\ reason' = w /\ loop' = "shutting" /\ in_flight' = 0 /\ deadline' = 0 /\ idle_for' = 0
      /\ silence' = 0
      /\ UNCHANGED <<messages, dropped, relay_up, taken, session_id, protocol_version, naming,
                     asked, issued, told, events>>
  BY DEF Leave
<1>1. /\ task' \in [Exchange -> {"unborn", "gone"} \cup Running \cup Finished]
      /\ \A e \in Exchange : \/ task'[e] = task[e] /\ ~(loop = "initializing" /\ e = Initialize)
                             \/ loop = "initializing" /\ e = Initialize /\ task'[e] = "gone"
  BY DEF Leave, TaskOK
<1>2. GatewayOK' /\ LoopOK' /\ TaskOK' /\ ClockOK' /\ AccountOK'
  BY <1>0, <1>1, Numbers DEF GatewayOK, LoopOK, TaskOK, ClockOK, AccountOK
<1>3. FlightOK'
  BY <1>0 DEF FlightOK, Looping
<1>4. loop = "initializing" => Initialize \in Exchange /\ task[Initialize] \in {"ready", "waiting"}
  BY Numbers DEF Order, Initialize, GatewayOK, MessageNo
<1>5. Order'
  BY <1>0, <1>1, <1>4 DEF Order, Initialize
<1>6. Accounted'
  <2>1. \A k \in issued : <<"POST", k>> \in Exchange
    BY DEF AccountOK
  <2> QED
    BY <1>0, <1>1, <1>4, <2>1 DEF Accounted
<1>7. HeadersFollow'
  BY <1>0 DEF HeadersFollow
<1> QED
  BY <1>2, <1>3, <1>5, <1>6, <1>7

-----------------------------------------------------------------------------
(* The gateway and the clock.                                              *)

LEMMA Appended ==
    ASSUME NEW S, NEW s \in Seq(S), NEW m \in S
    PROVE  /\ Append(s, m) \in Seq(S) /\ Len(Append(s, m)) = Len(s) + 1
           /\ Append(s, m)[Len(s) + 1] = m
           /\ \A k \in 1..Len(s) : Append(s, m)[k] = s[k]
OBVIOUS

LEMMA GatewayKeeps ==
    ASSUME HttpInv, (\E init \in BOOLEAN : MessageArrives(init)) \/ HandleDropped \/ ConnectionLost
    PROVE  HttpInv'
<1> USE DEF HttpInv, Typed
<1>0. UNCHANGED <<taken, loop, reason, upstream, task, naming, in_flight, timers, account>>
  BY DEF MessageArrives, HandleDropped, ConnectionLost
<1>1. /\ GatewayOK' /\ Len(messages) <= Len(messages')
      /\ \A k \in 1..Len(messages) : messages'[k] = messages[k]
      /\ \A k \in 1..Len(messages') : messages'[k].saw => told # {}
  <2>1. ASSUME NEW init \in BOOLEAN, MessageArrives(init)
        PROVE  /\ GatewayOK' /\ Len(messages) <= Len(messages')
               /\ \A k \in 1..Len(messages) : messages'[k] = messages[k]
               /\ \A k \in 1..Len(messages') : messages'[k].saw => told # {}
    <3> DEFINE m == [init |-> init, saw |-> told # {}]
               S == [init : BOOLEAN, saw : BOOLEAN]
    <3>1. /\ m \in S
          /\ m.saw => told # {}
          /\ messages' = Append(messages, m) /\ Len(messages) < MaxSent /\ messages \in Seq(S)
          /\ UNCHANGED <<taken, dropped, relay_up>>
      BY <2>1 DEF MessageArrives, GatewayOK
    <3> HIDE DEF m, S
    <3>2. /\ messages' \in Seq(S) /\ Len(messages') = Len(messages) + 1
          /\ messages'[Len(messages) + 1] = m /\ \A k \in 1..Len(messages) : messages'[k] = messages[k]
      BY <3>1, Appended
    <3>3. Len(messages) \in Nat
      BY <3>1
    <3>4. GatewayOK'
      BY <3>1, <3>2, <3>3, Numbers DEF GatewayOK, S
    <3> QED
      BY <3>1, <3>2, <3>3, <3>4 DEF Accounted
  <2>2. CASE HandleDropped \/ ConnectionLost
    <3>1. UNCHANGED <<messages, taken>> /\ dropped' \in BOOLEAN /\ relay_up' \in BOOLEAN
      BY <2>2 DEF HandleDropped, ConnectionLost, GatewayOK
    <3> QED
      BY <3>1, Numbers DEF GatewayOK, Accounted
  <2> QED
    BY <2>1, <2>2
<1>2. LoopOK' /\ TaskOK' /\ ClockOK' /\ AccountOK'
  BY <1>0 DEF LoopOK, TaskOK, ClockOK, AccountOK
<1>3. FlightOK'
  BY <1>0 DEF FlightOK, Looping, Underway
<1>4. \A k \in MessageNo : k <= taken => k \in 1..Len(messages)
  BY Numbers DEF GatewayOK
<1>5. Order'
  BY <1>0, <1>1, <1>4 DEF Order
<1>6. Accounted'
  BY <1>0, <1>1 DEF Accounted
<1>7. HeadersFollow'
  <2>1. \A e \in Exchange : asked[e].out => e[2] <= taken
    BY AskedIsTaken, Numbers DEF GatewayOK
  <2>2. \A i \in issued : i \in MessageNo
    BY DEF AccountOK
  <2> QED
    BY <1>0, <1>1, <1>4, <2>1, <2>2 DEF HeadersFollow
<1> QED
  BY <1>1, <1>2, <1>3, <1>5, <1>6, <1>7

LEMMA TickKeeps ==
    ASSUME HttpInv, HttpTick \/ (DeadlinePasses /\ ~Leave("idle")) \/ UNCHANGED httpVars
    PROVE  HttpInv'
<1> USE DEF HttpInv, Typed
<1>0. UNCHANGED <<gateway, taken, loop, reason, upstream, task, naming, in_flight, account>>
  BY DEF HttpTick, DeadlinePasses, httpVars
<1>1. ClockOK'
  BY Numbers DEF HttpTick, DeadlinePasses, httpVars, ClockOK
<1>2. GatewayOK' /\ LoopOK' /\ TaskOK' /\ AccountOK'
  BY <1>0 DEF GatewayOK, LoopOK, TaskOK, AccountOK
<1>3. FlightOK' /\ Order' /\ Accounted' /\ HeadersFollow'
  BY <1>0 DEF FlightOK, Looping, Underway, Order, Accounted, HeadersFollow
<1> QED
  BY <1>1, <1>2, <1>3
-----------------------------------------------------------------------------
(* The loop takes a message.                                               *)

LEMMA FollowFrame ==
    ASSUME HttpInv, UNCHANGED <<messages, session_id, asked, issued, told>>
    PROVE  HeadersFollow'
<1>1. \A i \in issued : i \in MessageNo /\ ~(i > taken)
  BY DEF HttpInv, Typed, AccountOK, Accounted, Order
<1>2. \A i \in issued : i <= taken
  BY <1>1, Numbers DEF HttpInv, Typed, GatewayOK
<1> QED
  BY <1>2 DEF HttpInv, HeadersFollow

LEMMA TakeKeeps ==
    ASSUME HttpInv, Take
    PROVE  HttpInv'
<1> USE DEF HttpInv, Typed
<1>1. PICK k \in MessageNo : k = taken + 1 /\ k \in 0..Len(messages)
  BY NextMessage DEF Take
<1>2. /\ UNCHANGED <<gateway, reason, upstream, naming, deadline, account>>
      /\ loop = "selecting" /\ taken' = k /\ idle_for' = 0 /\ silence' = 0
      /\ task' = [task EXCEPT ![<<"POST", k>>] = "ready"]
      /\ \/ messages[k].init /\ loop' = "initializing" /\ in_flight' = in_flight
         \/ ~messages[k].init /\ loop' = "selecting" /\ in_flight' = in_flight + 1
  BY <1>1 DEF Take
<1>3. taken \in Nat /\ k > taken /\ task[<<"POST", k>>] = "unborn" /\ task[<<"GET", k>>] = "unborn"
  BY <1>1, Numbers DEF GatewayOK, Order
<1>4. /\ GatewayOK' /\ LoopOK' /\ AccountOK'
      /\ ClockOK'
  BY <1>1, <1>2, Numbers DEF GatewayOK, LoopOK, ClockOK, AccountOK
<1>5. TaskOK' /\ task'[<<"POST", k>>] = "ready"
      /\ \A e \in Exchange : e # <<"POST", k>> => task'[e] = task[e]
  BY <1>2 DEF TaskOK
<1>6. \A j \in MessageNo : j > k <=> j > taken /\ j # k
  BY <1>1, <1>3, Numbers
<1>7. Order'
  <2>1. \A j \in MessageNo : task'[<<"POST", j>>] = "unborn" <=> j > k
    BY <1>3, <1>5, <1>6 DEF Order
  <2>2. \A j \in MessageNo : task'[<<"GET", j>>] # "unborn" => task'[<<"POST", j>>] = "gone"
    BY <1>3, <1>5 DEF Order
  <2>3. \A j \in MessageNo : j # k /\ j <= k => j <= taken
    BY <1>1, <1>3, Numbers
  <2>4. \A j \in MessageNo : j <= k /\ messages[j].init /\ task'[<<"POST", j>>] \in {"ready", "waiting"}
            => loop' = "initializing" /\ j = k
    BY <1>2, <1>5, <2>3 DEF Order
  <2> QED
    BY <1>2, <1>5, <2>1, <2>2, <2>4, Numbers DEF Order
<1>8. Accounted'
  <2>1. \A j \in issued : <<"POST", j>> \in Exchange /\ j # k
    BY <1>3 DEF AccountOK, Accounted
  <2> QED
    BY <1>2, <1>3, <1>5, <2>1 DEF Accounted
<1>9. FlightOK'
  <2>1. in_flight = Cardinality(Underway)
    BY <1>2 DEF FlightOK, Looping
  <2>2. k \notin Underway
    BY <1>3 DEF Underway
  <2>3. CASE messages[k].init
    <3>1. Underway' = Underway
      BY <1>2, <1>3, <1>5, <2>3 DEF Underway
    <3> QED
      BY <1>2, <2>1, <2>3, <3>1 DEF FlightOK, Looping
  <2>4. CASE ~messages[k].init
    <3>1. Underway' = Underway \cup {k}
      BY <1>2, <1>3, <1>5, <2>4 DEF Underway
    <3>2. Cardinality(Underway') = Cardinality(Underway) + 1
      BY <2>2, <3>1, UnderwayFinite, FS_AddElement
    <3> QED
      BY <1>2, <2>1, <2>4, <3>2 DEF FlightOK, Looping
  <2> QED
    BY <2>3, <2>4
<1> QED
  BY <1>2, <1>4, <1>5, <1>7, <1>8, <1>9, FollowFrame

-----------------------------------------------------------------------------
(* The exchanges.                                                          *)

\* An exchange under way moves on, and the loop does not hear of it.
LEMMA MoveKeeps ==
    ASSUME HttpInv, NEW e \in Exchange, task[e] \notin {"unborn", "gone"},
           NEW t \in {"gone", "waiting", "reading", "emitting"} \cup Finished,
           task' = [task EXCEPT ![e] = t],
           t = "waiting" => task[e] = "ready",
           t = "gone" => ~Looping \/ e[1] = "GET",
           loop = "initializing" /\ e = Initialize => t = "waiting",
           UNCHANGED <<messages, taken, loop, in_flight>>
    PROVE  Order' /\ FlightOK'
<1> USE DEF HttpInv, Typed
<1>1. PICK k \in MessageNo : k = e[2] /\ (e = <<"POST", k>> \/ e = <<"GET", k>>)
  BY Exchanges
<1>2. task'[e] = t /\ \A x \in Exchange : x # e => task'[x] = task[x]
  BY DEF TaskOK
<1>3. Order'
  <2>1. \A j \in MessageNo : task'[<<"POST", j>>] = "unborn" <=> j > taken
    BY <1>1, <1>2 DEF Order
  <2>2. \A j \in MessageNo : task'[<<"GET", j>>] # "unborn" => task'[<<"POST", j>>] = "gone"
    BY <1>1, <1>2 DEF Order
  <2>3. \A j \in MessageNo : task'[<<"POST", j>>] \in {"ready", "waiting"}
                               => task[<<"POST", j>>] \in {"ready", "waiting"}
    BY <1>1, <1>2
  <2>4. loop = "initializing" => taken > 0 /\ task'[<<"POST", taken>>] \in {"ready", "waiting"}
    BY <1>1, <1>2, Numbers DEF Order, Initialize, GatewayOK, MessageNo
  <2>5. loop \notin {"deleting", "over"}
    BY DEF Order
  <2> QED
    BY <2>1, <2>2, <2>3, <2>4, <2>5 DEF Order
<1>4. FlightOK'
  <2>1. CASE t # "gone" \/ e[1] = "GET"
    <3>1. Underway' = Underway
      BY <1>1, <1>2, <2>1 DEF Underway
    <3> QED
      BY <3>1 DEF FlightOK, Looping
  <2>2. CASE ~Looping
    BY <2>2 DEF FlightOK, Looping
  <2> QED
    BY <2>1, <2>2
<1> QED
  BY <1>3, <1>4
LEMMA MoveTyped ==
    ASSUME TaskOK, NEW e \in Exchange,
           NEW t \in {"gone", "ready"} \cup Running \cup Finished,
           task' = [task EXCEPT ![e] = t],
           naming' \subseteq naming \/ (naming' = naming \cup {e} /\ e[1] = "POST")
    PROVE  TaskOK' /\ task'[e] = t /\ \A x \in Exchange : x # e => task'[x] = task[x]
BY DEF TaskOK

LEMMA AskKeeps ==
    ASSUME HttpInv, NEW e \in Exchange, Ask(e)
    PROVE  HttpInv'
<1> USE DEF HttpInv, Typed
<1>1. /\ UNCHANGED <<gateway, taken, loop, reason, upstream, naming, in_flight, timers, issued, told,
                     events>>
      /\ task[e] = "ready" /\ task' = [task EXCEPT ![e] = "waiting"]
      /\ asked' = [asked EXCEPT ![e] = [sid |-> session_id, version |-> protocol_version,
                                       out |-> TRUE]]
  BY DEF Ask
<1>2. GatewayOK' /\ LoopOK' /\ ClockOK'
  BY <1>1 DEF GatewayOK, LoopOK, ClockOK
<1>3. Order' /\ FlightOK'
  BY <1>1, MoveKeeps
<1>4. TaskOK' /\ task'[e] = "waiting" /\ \A x \in Exchange : x # e => task'[x] = task[x]
  BY <1>1, MoveTyped
<1>5. /\ AccountOK'
      /\ asked'[e].sid = session_id /\ asked'[e].version = protocol_version
      /\ \A x \in Exchange : x # e => asked'[x] = asked[x]
  <2>1. [sid |-> session_id, version |-> protocol_version, out |-> TRUE]
           \in [sid : 0..MaxSent, version : 0..MaxSent, out : BOOLEAN]
    BY DEF LoopOK
  <2> QED
    BY <1>1, <2>1 DEF AccountOK
<1>6. Accounted'
  <2>1. \A k \in issued : <<"POST", k>> \in Exchange /\ <<"POST", k>> # e
    BY <1>1 DEF AccountOK, Accounted
  <2> QED
    BY <1>1, <1>4, <1>5, <2>1 DEF Accounted
<1>7. HeadersFollow'
  <2>1. \A x \in Exchange : x # e /\ asked'[x].out =>
            /\ asked[x].sid \in {0, session_id}
            /\ (\E i \in issued : i <= taken /\ messages[i].init /\ (i < x[2] \/ x = <<"GET", i>>))
                => asked[x].sid # 0
            /\ (IF x[1] = "GET" THEN x[2] \in told ELSE messages[x[2]].saw) => asked[x].version # 0
    BY <1>5 DEF HeadersFollow
  <2>2. issued # {} => session_id # 0
    BY DEF Accounted
  <2>3. (IF e[1] = "GET" THEN e[2] \in told ELSE messages[e[2]].saw) => protocol_version # 0
    <3>1. PICK k \in MessageNo : k = e[2] /\ (e = <<"POST", k>> \/ e = <<"GET", k>>)
      BY Exchanges
    <3>2. e[1] = "POST" => k \in 1..Len(messages)
      <4>1. e = <<"POST", k>> => ~(k > taken)
        BY <1>1 DEF Order
      <4> QED
        BY <3>1, <4>1, Numbers DEF GatewayOK
    <3> QED
      BY <3>1, <3>2 DEF Accounted
  <2> QED
    BY <1>1, <1>5, <2>1, <2>2, <2>3 DEF HeadersFollow
<1> QED
  BY <1>2, <1>3, <1>4, <1>5, <1>6, <1>7

LEMMA HeadersKeeps ==
    ASSUME HttpInv, NEW e \in Exchange, Headers(e)
    PROVE  HttpInv'
<1> USE DEF HttpInv, Typed
<1>1. /\ UNCHANGED <<gateway, taken, reason, protocol_version, naming, timers, asked, told, events>>
      /\ task[e] = "waiting" /\ task' = [task EXCEPT ![e] = "reading"]
  BY DEF Headers
<1>2. PICK k \in MessageNo : k = e[2] /\ (e = <<"POST", k>> \/ e = <<"GET", k>>)
  BY Exchanges
<1>3. \/ issued' = issued /\ session_id' = session_id
      \/ /\ e = <<"POST", k>> /\ issued' = issued \cup {k}
         /\ session_id' = IF session_id = 0 THEN k ELSE session_id
  BY <1>2 DEF Headers
<1>4. TaskOK' /\ task'[e] = "reading" /\ \A x \in Exchange : x # e => task'[x] = task[x]
  BY <1>1, MoveTyped
<1>5. GatewayOK' /\ ClockOK' /\ AccountOK'
  BY <1>1, <1>3 DEF GatewayOK, ClockOK, AccountOK
<1>6. session_id' \in 0..MaxSent /\ (issued' # {} => session_id' # 0)
  BY <1>3, Numbers DEF LoopOK, Accounted
<1>7. LoopOK' /\ Order' /\ FlightOK'
  <2>1. CASE loop = "initializing" /\ e = Initialize
    <3>1. loop' = "selecting" /\ in_flight' = in_flight + 1 /\ k = taken /\ e = <<"POST", k>>
      BY <1>2, <2>1 DEF Headers, Initialize
    <3>2. Underway' = Underway \cup {k} /\ k \notin Underway
      BY <1>1, <1>2, <1>4, <2>1, <3>1 DEF Underway
    <3>3. Cardinality(Underway') = Cardinality(Underway) + 1
      BY <3>2, UnderwayFinite, FS_AddElement
    <3>4. FlightOK'
      BY <2>1, <3>1, <3>3 DEF FlightOK, Looping
    <3>5. Order'
      <4>1. \A j \in MessageNo : task'[<<"POST", j>>] = "unborn" <=> j > taken
        BY <1>1, <1>2, <1>4 DEF Order
      <4>2. \A j \in MessageNo : task'[<<"GET", j>>] # "unborn" => task'[<<"POST", j>>] = "gone"
        BY <1>1, <1>2, <1>4 DEF Order
      <4>3. \A j \in MessageNo : j <= taken /\ messages[j].init =>
                                   task'[<<"POST", j>>] \notin {"ready", "waiting"}
        BY <1>4, <3>1 DEF Order
      <4> QED
        BY <1>1, <3>1, <4>1, <4>2, <4>3 DEF Order
    <3> QED
      BY <1>1, <1>6, <3>1, <3>4, <3>5 DEF LoopOK
  <2>2. CASE ~(loop = "initializing" /\ e = Initialize)
    <3>1. UNCHANGED <<loop, in_flight>>
      BY <2>2 DEF Headers
    <3> QED
      BY <1>1, <1>6, <2>2, <3>1, MoveKeeps DEF LoopOK
  <2> QED
    BY <2>1, <2>2
<1>8. Accounted'
  <2>1. \A x \in Exchange : asked'[x].out => task'[x] \notin {"unborn", "ready"}
    BY <1>1, <1>4 DEF Accounted
  <2>2. \A j \in issued' : <<"POST", j>> \in Exchange /\ (j \in issued \/ <<"POST", j>> = e)
    BY <1>3 DEF AccountOK
  <2>3. \A j \in issued' : task'[<<"POST", j>>] \notin {"unborn", "ready", "waiting"}
    BY <1>4, <2>2 DEF Accounted
  <2> QED
    BY <1>1, <1>6, <2>1, <2>3 DEF Accounted
<1>9. HeadersFollow'
  <2> SUFFICES ASSUME NEW x \in Exchange, asked[x].out
               PROVE  /\ asked[x].sid \in {0, session_id'}
                      /\ (\E i \in issued' : i <= taken /\ messages[i].init
                                               /\ (i < x[2] \/ x = <<"GET", i>>))
                          => asked[x].sid # 0
                      /\ (IF x[1] = "GET" THEN x[2] \in told ELSE messages[x[2]].saw)
                          => asked[x].version # 0
    BY <1>1 DEF HeadersFollow
  <2>1. asked[x].sid \in {0, session_id'}
    BY <1>3 DEF HeadersFollow
  <2>2. ASSUME NEW i \in issued', i <= taken, messages[i].init, i < x[2] \/ x = <<"GET", i>>
        PROVE  i \in issued
    <3> SUFFICES ASSUME i = k, e = <<"POST", k>> PROVE FALSE
      BY <1>3
    <3>1. k = taken
      BY <1>1, <2>2 DEF Order
    <3>2. x[2] <= taken
      BY AskedIsTaken, Numbers DEF GatewayOK
    <3>3. x = <<"GET", k>>
      BY <2>2, <3>1, <3>2, Exchanges, Numbers
    <3>4. task[x] = "unborn"
      BY <1>1, <3>3 DEF Order
    <3> QED
      BY <3>4 DEF Accounted
  <2> QED
    BY <2>1, <2>2 DEF HeadersFollow
<1> QED
  BY <1>1, <1>4, <1>5, <1>7, <1>8, <1>9
LEMMA EmitKeeps ==
    ASSUME HttpInv, NEW e \in Exchange, Emit(e)
    PROVE  HttpInv'
<1> USE DEF HttpInv, Typed
<1>1. /\ UNCHANGED <<gateway, taken, loop, reason, session_id, in_flight, deadline, asked, issued, told>>
      /\ task[e] = "reading" /\ task' = [task EXCEPT ![e] = "emitting"]
      /\ events' = events + 1 /\ events < MaxEvents /\ idle_for' = 0 /\ silence' = 0
  BY DEF Emit
<1>2. PICK k \in MessageNo : k = e[2] /\ (e = <<"POST", k>> \/ e = <<"GET", k>>)
  BY Exchanges
<1>3. \/ UNCHANGED <<protocol_version, naming>>
      \/ protocol_version' = k /\ naming' = naming \cup {e} /\ e[1] = "POST"
  BY <1>2 DEF Emit, IsInit
<1>4. TaskOK' /\ task'[e] = "emitting" /\ \A x \in Exchange : x # e => task'[x] = task[x]
  BY <1>1, <1>3, MoveTyped
<1>5. GatewayOK' /\ LoopOK' /\ ClockOK'
  BY <1>1, <1>3, Numbers DEF GatewayOK, LoopOK, ClockOK
<1>6. AccountOK'
  BY <1>1, Numbers DEF AccountOK
<1>7. ~(loop = "initializing" /\ e = Initialize)
  BY <1>1 DEF Order, Initialize
<1>8. Order' /\ FlightOK'
  BY <1>1, <1>7, MoveKeeps
<1>9. Accounted'
  <2>1. \A j \in issued : <<"POST", j>> \in Exchange
    BY DEF AccountOK
  <2>2. told' \cup naming' # {} => protocol_version' # 0
    BY <1>1, <1>3, Numbers DEF Accounted
  <2> QED
    BY <1>1, <1>4, <2>1, <2>2 DEF Accounted
<1> QED
  BY <1>1, <1>4, <1>5, <1>6, <1>8, <1>9, FollowFrame

LEMMA EmittedKeeps ==
    ASSUME HttpInv, NEW e \in Exchange, Emitted(e)
    PROVE  HttpInv'
<1> USE DEF HttpInv, Typed
<1>1. /\ UNCHANGED <<gateway, taken, loop, reason, upstream, in_flight, timers, asked, issued, events>>
      /\ task[e] = "emitting" /\ task' = [task EXCEPT ![e] = "reading"]
      /\ naming' = naming \ {e}
  BY DEF Emitted
<1>2. PICK k \in MessageNo : k = e[2] /\ (e = <<"POST", k>> \/ e = <<"GET", k>>)
  BY Exchanges
<1>3. told' = told \/ (told' = told \cup {k} /\ e \in naming /\ e = <<"POST", k>>)
  BY <1>2 DEF Emitted, TaskOK
<1>4. TaskOK' /\ task'[e] = "reading" /\ \A x \in Exchange : x # e => task'[x] = task[x]
  BY <1>1, MoveTyped
<1>5. GatewayOK' /\ LoopOK' /\ ClockOK' /\ AccountOK'
  BY <1>1, <1>3 DEF GatewayOK, LoopOK, ClockOK, AccountOK
<1>6. ~(loop = "initializing" /\ e = Initialize)
  BY <1>1 DEF Order, Initialize
<1>7. Order' /\ FlightOK'
  BY <1>1, <1>6, MoveKeeps
<1>8. Accounted'
  <2>1. \A j \in issued : <<"POST", j>> \in Exchange
    BY DEF AccountOK
  <2>2. told' \cup naming' # {} => told \cup naming # {}
    BY <1>1, <1>3
  <2>3. told # {} => told' # {}
    BY <1>3
  <2> QED
    BY <1>1, <1>4, <2>1, <2>2, <2>3 DEF Accounted
<1>9. HeadersFollow'
  <2>1. ASSUME NEW x \in Exchange, asked[x].out, x[1] = "GET", x[2] \in told'
        PROVE  x[2] \in told
    <3> SUFFICES ASSUME x[2] = k, e = <<"POST", k>> PROVE FALSE
      BY <1>3, <2>1
    <3>1. x = <<"GET", k>>
      BY <2>1, Exchanges
    <3>2. task[x] = "unborn"
      BY <1>1, <3>1 DEF Order
    <3> QED
      BY <2>1, <3>2 DEF Accounted
  <2> QED
    BY <1>1, <2>1 DEF HeadersFollow
<1> QED
  BY <1>1, <1>4, <1>5, <1>7, <1>8, <1>9

LEMMA EndKeeps ==
    ASSUME HttpInv, NEW e \in Exchange,
           Finish(e) \/ Abort(e) \/ (Fail(e) /\ ~(loop = "initializing" /\ e = Initialize))
    PROVE  HttpInv'
<1> USE DEF HttpInv, Typed
<1>1. /\ UNCHANGED <<gateway, taken, loop, reason, upstream, in_flight, timers, account>>
      /\ task[e] \notin {"unborn", "gone"} /\ naming' \subseteq naming
  BY DEF Finish, Abort, Fail
<1>2. PICK t \in Finished \cup {"gone"} : /\ task' = [task EXCEPT ![e] = t]
                                          /\ t = "gone" => loop = "shutting"
  BY DEF Finish, Abort, Fail
<1>3. ~(loop = "initializing" /\ e = Initialize)
  BY DEF Finish, Abort, Fail, Order, Initialize
<1>4. TaskOK' /\ task'[e] = t /\ \A x \in Exchange : x # e => task'[x] = task[x]
  BY <1>1, <1>2, MoveTyped
<1>5. GatewayOK' /\ LoopOK' /\ ClockOK' /\ AccountOK'
  BY <1>1 DEF GatewayOK, LoopOK, ClockOK, AccountOK
<1>6. Order' /\ FlightOK'
  BY <1>1, <1>2, <1>3, MoveKeeps DEF Looping
<1>7. Accounted'
  <2>1. \A j \in issued : <<"POST", j>> \in Exchange
    BY DEF AccountOK
  <2>2. t \notin {"unborn", "ready", "waiting"}
    BY <1>2
  <2> QED
    BY <1>1, <1>4, <2>1, <2>2 DEF Accounted
<1> QED
  BY <1>1, <1>4, <1>5, <1>6, <1>7, FollowFrame

LEMMA JoinKeeps ==
    ASSUME HttpInv, NEW e \in Exchange, Join(e)
    PROVE  HttpInv'
<1> USE DEF HttpInv, Typed
<1>0. loop = "selecting" /\ Looping
  BY DEF Join, Looping
<1>1. CASE task[e] = "failed" \/ task[e] = "too_large"
  BY <1>0, <1>1, LeaveKeeps DEF Join
<1>2. CASE task[e] = "ended"
  <2>1. /\ UNCHANGED <<gateway, taken, loop, reason, upstream, naming, timers, account>>
        /\ in_flight' = IF e[1] = "POST" THEN in_flight - 1 ELSE in_flight
        /\ task' = [x \in Exchange |-> IF x = e THEN "gone"
                                       ELSE IF IsInit(e) /\ x = <<"GET", e[2]>> THEN "ready"
                                       ELSE task[x]]
    BY <1>2 DEF Join
  <2>2. PICK k \in MessageNo : k = e[2] /\ (e = <<"POST", k>> \/ e = <<"GET", k>>)
    BY Exchanges
  <2>3. /\ task'[e] = "gone"
        /\ \A x \in Exchange : x # e =>
               \/ task'[x] = task[x]
               \/ e = <<"POST", k>> /\ x = <<"GET", k>> /\ task'[x] = "ready"
    BY <2>1, <2>2 DEF IsInit
  <2>4. e = <<"POST", k>> => task[<<"GET", k>>] = "unborn"
    BY <1>2 DEF Order
  <2>5. GatewayOK' /\ LoopOK' /\ ClockOK' /\ AccountOK' /\ TaskOK'
    BY <2>1 DEF GatewayOK, LoopOK, ClockOK, AccountOK, TaskOK
  <2>6. Order'
    <3>1. \A j \in MessageNo : task'[<<"POST", j>>] = "unborn" <=> j > taken
      BY <1>2, <2>2, <2>3 DEF Order
    <3>2. \A j \in MessageNo : task'[<<"GET", j>>] # "unborn" => task'[<<"POST", j>>] = "gone"
      BY <1>2, <2>2, <2>3, <2>4 DEF Order
    <3>3. \A j \in MessageNo : task'[<<"POST", j>>] \in {"ready", "waiting"}
                                 => task[<<"POST", j>>] \in {"ready", "waiting"}
      BY <2>2, <2>3
    <3> QED
      BY <1>0, <2>1, <3>1, <3>2, <3>3 DEF Order
  <2>7. FlightOK'
    <3>1. in_flight = Cardinality(Underway)
      BY <1>0 DEF FlightOK
    <3>2. CASE e = <<"POST", k>>
      <4>1. Underway' = Underway \ {k} /\ k \in Underway
        BY <1>0, <1>2, <2>1, <2>3, <3>2 DEF Underway
      <4>2. Cardinality(Underway') = Cardinality(Underway) - 1
        BY <4>1, UnderwayFinite, FS_RemoveElement
      <4> QED
        BY <1>0, <2>1, <3>1, <3>2, <4>2 DEF FlightOK, Looping
    <3>3. CASE e = <<"GET", k>>
      <4>1. Underway' = Underway
        BY <1>0, <1>2, <2>1, <2>3, <3>3 DEF Underway
      <4> QED
        BY <1>0, <2>1, <3>1, <3>3, <4>1 DEF FlightOK, Looping
    <3> QED
      BY <2>2, <3>2, <3>3
  <2>8. Accounted'
    <3>1. \A j \in issued : <<"POST", j>> \in Exchange
      BY DEF AccountOK
    <3>2. \A x \in Exchange : asked[x].out => task'[x] \notin {"unborn", "ready"}
      BY <2>3, <2>4 DEF Accounted
    <3> QED
      BY <2>1, <2>3, <3>1, <3>2 DEF Accounted
  <2> QED
    BY <2>1, <2>5, <2>6, <2>7, <2>8, FollowFrame
<1> QED
  BY <1>1, <1>2 DEF Join

LEMMA DeleteKeeps ==
    ASSUME HttpInv, Terminate \/ Deleted
    PROVE  HttpInv'
<1> USE DEF HttpInv, Typed
<1>1. /\ UNCHANGED <<gateway, taken, reason, upstream, task, naming, in_flight, timers, account>>
      /\ loop \in {"shutting", "deleting"} /\ loop' \in {"deleting", "over"}
      /\ \A e \in Exchange : task[e] \in {"unborn", "gone"}
  BY DEF Terminate, Deleted, Order
<1>2. GatewayOK' /\ LoopOK' /\ ClockOK' /\ AccountOK' /\ TaskOK'
  BY <1>1 DEF GatewayOK, LoopOK, ClockOK, AccountOK, TaskOK
<1>3. FlightOK' /\ Order' /\ Accounted'
  BY <1>1 DEF FlightOK, Looping, Order, Accounted
<1> QED
  BY <1>1, <1>2, <1>3, FollowFrame

LEMMA NextHttp == HttpInv /\ [HttpNext]_httpVars => HttpInv'
<1> SUFFICES ASSUME HttpInv, [HttpNext]_httpVars PROVE HttpInv'
  OBVIOUS
<1>1. CASE Cancelled
  BY <1>1, LeaveKeeps DEF Cancelled
<1>2. CASE DeadlinePasses
  BY <1>2, LeaveKeeps, TickKeeps DEF DeadlinePasses, Looping
<1>3. ASSUME NEW e \in Exchange, Fail(e) PROVE HttpInv'
  BY <1>3, LeaveKeeps, EndKeeps DEF Fail, Looping
<1>4. ASSUME NEW e \in Exchange, ExchangeStep(e) PROVE HttpInv'
  BY <1>3, <1>4, AskKeeps, HeadersKeeps, EmitKeeps, EmittedKeeps, EndKeeps, JoinKeeps
     DEF ExchangeStep
<1> QED
  BY <1>1, <1>2, <1>4, GatewayKeeps, TakeKeeps, DeleteKeeps, TickKeeps DEF HttpNext, HttpOver

LEMMA AlwaysHttp == HttpSpec => []HttpInv
BY InitHttp, NextHttp, PTL DEF HttpSpec

\* Every variable of the session has its type; the counter of POSTs under way, from
\* which each join takes one, is never below zero nor above the messages sent.
THEOREM TypeCorrect == HttpSpec => []HttpTypeOK
<1>1. HttpInv => HttpTypeOK
  BY TypedIsTypeOK DEF HttpInv
<1> QED
  BY <1>1, AlwaysHttp, PTL

\* Whatever is in the channel behind an initialize goes out with the session id and
\* the version its answer brings, and so does the listener (http.rs, run and Post).
THEOREM HeadersAlwaysFollow == HttpSpec => []HeadersFollow
<1>1. HttpInv => HeadersFollow
  BY DEF HttpInv
<1> QED
  BY <1>1, AlwaysHttp, PTL

\* Nothing goes upstream or to the agent once the DELETE may be out (http.rs, run:
\* the tasks are shut down before terminate).
THEOREM DeleteIsAlwaysLast == HttpSpec => DeleteIsLast
<1>1. ASSUME HttpInv, [HttpNext]_httpVars
      PROVE  account' # account => loop \notin {"deleting", "over"}
  <2> SUFFICES ASSUME loop \in {"deleting", "over"} PROVE account' = account
    OBVIOUS
  <2>1. \A e \in Exchange : task[e] \in {"unborn", "gone"}
    BY <1>1 DEF HttpInv, Order
  <2>2. ASSUME NEW e \in Exchange, ExchangeStep(e) PROVE FALSE
    BY <2>1, <2>2 DEF ExchangeStep, Ask, Headers, Emit, Emitted, Finish, Fail, Join, Abort
  <2> QED
    BY <1>1, <2>2 DEF HttpNext, MessageArrives, HandleDropped, ConnectionLost, Cancelled, Looping, Leave, Take,
       DeadlinePasses, Terminate, Deleted, HttpTick, HttpOver, httpVars
<1> QED
  BY <1>1, AlwaysHttp, PTL DEF HttpSpec, DeleteIsLast

\* A session is closed as idle only when it was quiet for the idle time and nothing
\* of it is under way (http.rs, run: the timer is put off while in_flight > 0).
THEOREM IdleIsAlwaysQuiet == HttpSpec => IdleIsQuiet
<1>1. ASSUME HttpInv, [HttpNext]_httpVars, reason' = "idle", reason # "idle"
      PROVE  /\ silence = Idle
             /\ \A k \in MessageNo : task[<<"POST", k>>] \notin Running
  <2>1. DeadlinePasses
    <3>1. CASE \E e \in Exchange : ExchangeStep(e)
      BY <1>1, <3>1 DEF ExchangeStep, Ask, Headers, Emit, Emitted, Finish, Fail, Join, Abort, Leave
    <3> QED
      BY <1>1, <3>1 DEF HttpNext, MessageArrives, HandleDropped, ConnectionLost, Cancelled, Leave, Take,
         Terminate, Deleted, HttpTick, HttpOver, httpVars
  <2>2. loop = "selecting" /\ idle_for = Idle /\ ~(in_flight > 0)
    BY <1>1, <2>1, Numbers DEF DeadlinePasses
  <2>3. Cardinality(Underway) = 0
    BY <1>1, <2>2, UnderwayFinite DEF HttpInv, FlightOK, Looping
  <2>4. Underway = {}
    BY <2>3, UnderwayFinite, FS_EmptySet
  <2> QED
    BY <1>1, <2>2, <2>4 DEF HttpInv, Typed, ClockOK, Underway
<1> QED
  BY <1>1, AlwaysHttp, PTL DEF HttpSpec, IdleIsQuiet

-----------------------------------------------------------------------------
(* The refinement of Delivery.                                             *)

\* What went out by the state of its exchange; an initialize the loop has left behind
\* went out, unless the loop ended at it.
Passed ==
    /\ \A k \in MessageNo : task[<<"POST", k>>] \notin {"unborn", "ready", "gone"}
                              => asked[<<"POST", k>>].out
    /\ \A k \in MessageNo : k <= taken /\ messages[k].init /\ ~asked[<<"POST", k>>].out
                              => k = taken /\ loop # "selecting"
    /\ loop = "initializing" => messages[taken].init

LEMMA InitPassed == HttpInit => Passed
BY Numbers DEF HttpInit, Passed

\* Steps that end the loop or leave it alone, and move no exchange from where it has
\* not gone out.
LEMMA PassedFrame ==
    ASSUME HttpInv, Passed, UNCHANGED <<taken, asked>>,
           messages' = messages \/ (\E m : messages' = Append(messages, m)),
           loop' = loop \/ loop' \notin {"selecting", "initializing"},
           \A k \in MessageNo : \/ task'[<<"POST", k>>] \in {task[<<"POST", k>>], "gone"}
                                \/ task[<<"POST", k>>] \notin {"unborn", "ready", "gone"}
    PROVE  Passed'
<1>1. \A k \in MessageNo : k <= taken => messages'[k] = messages[k]
  <2>1. \A k \in MessageNo : k <= taken => k \in 1..Len(messages)
    BY Numbers DEF HttpInv, Typed, GatewayOK
  <2>2. ASSUME NEW m, messages' = Append(messages, m), NEW k \in 1..Len(messages)
        PROVE  messages'[k] = messages[k]
    <3>1. messages \in Seq([init : BOOLEAN, saw : BOOLEAN])
      BY DEF HttpInv, Typed, GatewayOK
    <3> QED
      BY <2>2, <3>1
  <2> QED
    BY <2>1, <2>2
<1>2. loop = "initializing" => taken \in MessageNo /\ taken <= taken
  BY Numbers DEF HttpInv, Typed, GatewayOK, Order, MessageNo
<1> QED
  BY <1>1, <1>2 DEF Passed

LEMMA NextPassed == ASSUME HttpInv, Passed, [HttpNext]_httpVars PROVE Passed'
<1>0. /\ taken \in Nat
      /\ loop = "initializing" => Initialize \in Exchange
      /\ task \in [Exchange -> {"unborn", "gone"} \cup Running \cup Finished]
  BY Numbers DEF HttpInv, Typed, GatewayOK, TaskOK, Order, Initialize, MessageNo
<1>1. ASSUME NEW w, Looping, Leave(w) PROVE Passed'
  BY <1>0, <1>1, PassedFrame DEF Leave, Initialize
<1>2. CASE (\E init \in BOOLEAN : MessageArrives(init)) \/ HandleDropped \/ ConnectionLost
  BY <1>2, PassedFrame DEF MessageArrives, HandleDropped, ConnectionLost
<1>3. CASE HttpTick \/ Terminate \/ Deleted \/ UNCHANGED httpVars
  BY <1>3, PassedFrame DEF HttpTick, Terminate, Deleted, httpVars
<1>4. CASE DeadlinePasses \/ Cancelled
  <2>1. CASE UNCHANGED <<gateway, taken, loop, task, asked>>
    BY <2>1, PassedFrame
  <2> QED
    BY <1>1, <1>4, <2>1 DEF DeadlinePasses, Cancelled, Looping
<1>5. CASE Take
  <2>1. PICK k \in MessageNo : k = taken + 1
    BY <1>5, NextMessage DEF Take, HttpInv, Typed
  <2>2. /\ UNCHANGED <<messages, asked>> /\ taken' = k /\ loop = "selecting"
        /\ loop' = (IF messages[k].init THEN "initializing" ELSE "selecting")
        /\ task' = [task EXCEPT ![<<"POST", k>>] = "ready"]
    BY <1>5, <2>1 DEF Take
  <2>3. \A j \in MessageNo : j # k => task'[<<"POST", j>>] = task[<<"POST", j>>]
    BY <1>0, <2>2
  <2>4. task'[<<"POST", k>>] = "ready"
    BY <1>0, <2>2
  <2>5. \A j \in MessageNo : j <= k => j = k \/ j <= taken
    BY <1>0, <2>1, Numbers
  <2> QED
    BY <2>2, <2>3, <2>4, <2>5 DEF Passed
<1>6. ASSUME NEW e \in Exchange, Ask(e) PROVE Passed'
  <2>1. /\ UNCHANGED <<messages, taken, loop>> /\ task' = [task EXCEPT ![e] = "waiting"]
        /\ \A x \in Exchange : x # e => asked'[x] = asked[x]
        /\ asked'[e].out
    BY <1>6 DEF Ask, HttpInv, Typed, AccountOK
  <2>2. \A x \in Exchange : x # e => task'[x] = task[x]
    BY <1>0, <2>1
  <2> QED
    BY <2>1, <2>2 DEF Passed
<1>7. ASSUME NEW e \in Exchange, Headers(e) PROVE Passed'
  <2>1. /\ UNCHANGED <<messages, taken, asked>> /\ task[e] = "waiting"
        /\ task' = [task EXCEPT ![e] = "reading"]
    BY <1>7 DEF Headers
  <2>2. \A x \in Exchange : x # e => task'[x] = task[x]
    BY <1>0, <2>1
  <2>3. CASE loop = "initializing" /\ e = Initialize
    <3>1. taken \in MessageNo /\ e = <<"POST", taken>>
      BY <1>0, <2>3 DEF Initialize
    <3>2. asked[<<"POST", taken>>].out
      BY <2>1, <3>1 DEF Passed
    <3>3. loop' = "selecting"
      BY <1>7, <2>3 DEF Headers
    <3> QED
      BY <2>1, <2>2, <3>1, <3>2, <3>3 DEF Passed
  <2>4. CASE ~(loop = "initializing" /\ e = Initialize)
    <3>1. loop' = loop
      BY <1>7, <2>4 DEF Headers
    <3>2. \A k \in MessageNo : \/ task'[<<"POST", k>>] = task[<<"POST", k>>]
                               \/ task[<<"POST", k>>] = "waiting"
      BY <2>1, <2>2
    <3> QED
      BY <2>1, <3>1, <3>2, PassedFrame
  <2> QED
    BY <2>3, <2>4
<1>8. ASSUME NEW e \in Exchange, Emit(e) \/ Emitted(e) \/ Finish(e) \/ Abort(e) PROVE Passed'
  <2>1. PICK t : /\ task' = [task EXCEPT ![e] = t]
                 /\ t = "gone" \/ task[e] \in {"reading", "emitting"}
    BY <1>8 DEF Emit, Emitted, Finish, Abort
  <2>2. \A k \in MessageNo : \/ task'[<<"POST", k>>] = task[<<"POST", k>>]
                             \/ <<"POST", k>> = e /\ task'[<<"POST", k>>] = t
    BY <1>0, <2>1
  <2>3. UNCHANGED <<messages, taken, loop, asked>>
    BY <1>8 DEF Emit, Emitted, Finish, Abort
  <2> QED
    BY <2>1, <2>2, <2>3, PassedFrame
<1>9. ASSUME NEW e \in Exchange, Fail(e) PROVE Passed'
  <2>1. CASE loop = "initializing" /\ e = Initialize
    BY <1>1, <1>9, <2>1 DEF Fail, Looping
  <2>2. CASE ~(loop = "initializing" /\ e = Initialize)
    <3>1. /\ UNCHANGED <<messages, taken, loop, asked>>
          /\ task[e] \notin {"unborn", "ready", "gone"}
          /\ \E how : task' = [task EXCEPT ![e] = how]
      BY <1>9, <2>2 DEF Fail
    <3>2. \A k \in MessageNo : \/ task'[<<"POST", k>>] = task[<<"POST", k>>]
                               \/ <<"POST", k>> = e
      BY <1>0, <3>1
    <3> QED
      BY <3>1, <3>2, PassedFrame
  <2> QED
    BY <2>1, <2>2
<1>10. ASSUME NEW e \in Exchange, Join(e) PROVE Passed'
  <2>1. CASE task[e] = "ended"
    <3>1. UNCHANGED <<messages, taken, loop, asked>>
      BY <1>10, <2>1 DEF Join
    <3>2. \A k \in MessageNo : task'[<<"POST", k>>] \in {task[<<"POST", k>>], "gone"}
      BY <1>10, <2>1 DEF Join
    <3> QED
      BY <3>1, <3>2, PassedFrame
  <2> QED
    BY <1>1, <1>10, <2>1 DEF Join, Looping
<1> QED
  BY <1>2, <1>3, <1>4, <1>5, <1>6, <1>7, <1>8, <1>9, <1>10 DEF HttpNext, ExchangeStep, HttpOver

LEMMA AlwaysPassed == HttpSpec => [](HttpInv /\ Passed)
BY InitHttp, NextHttp, InitPassed, NextPassed, PTL DEF HttpSpec

LEMMA UpInit == HttpInit => Up!Init
<1> SUFFICES ASSUME HttpInit PROVE Up!Init
  OBVIOUS
<1>1. Len(messages) = 0
  BY DEF HttpInit
<1>2. Initialized = <<>>
  BY <1>1 DEF Initialized
<1>3. Went = {}
  BY DEF HttpInit, Went, Unsent
<1>4. Carried = <<>>
  BY <1>3 DEF Carried
<1> QED
  BY <1>2, <1>4 DEF HttpInit, Up!Init, Unanswered

\* What Delivery sees of a step that sends nothing, hears of no headers and ends nothing.
LEMMA UpFrame ==
    ASSUME UNCHANGED <<messages, taken, asked, session_id, loop>>
    PROVE  UNCHANGED Up!vars
BY DEF Up!vars, Initialized, Went, Carried, Unanswered, Initialize

LEMMA Element == ASSUME NEW S, NEW s \in Seq(S), NEW k \in 1..Len(s) PROVE s[k] \in S
OBVIOUS

\* A message more is put at the end.
LEMMA UpPut ==
    ASSUME HttpInv, NEW init \in BOOLEAN, MessageArrives(init)
    PROVE  Up!Put(init)
<1> DEFINE m == [init |-> init, saw |-> told # {}]
           longer == Append(Initialized, init)
<1>1. /\ messages' = Append(messages, m) /\ messages \in Seq([init : BOOLEAN, saw : BOOLEAN])
      /\ UNCHANGED <<taken, loop, asked, session_id>> /\ Looping
  BY DEF MessageArrives, HttpInv, Typed, GatewayOK, upstream, account
<1>2. m \in [init : BOOLEAN, saw : BOOLEAN] /\ m.init = init
  OBVIOUS
<1> HIDE DEF m
<1>3. /\ Len(messages) \in Nat /\ Len(messages') = Len(messages) + 1 /\ messages'[Len(messages) + 1] = m
      /\ \A k \in 1..Len(messages) : messages'[k] = messages[k]
  BY <1>1, <1>2, Appended
<1>4. Initialized \in Seq(BOOLEAN) /\ Len(Initialized) = Len(messages)
  <2>1. \A k \in 1..Len(messages) : messages[k] \in [init : BOOLEAN, saw : BOOLEAN]
    BY <1>1, Element
  <2>2. \A k \in 1..Len(messages) : messages[k].init \in BOOLEAN
    BY <2>1
  <2> QED
    BY <1>3, <2>2 DEF Initialized
<1>5. /\ longer \in Seq(BOOLEAN) /\ Len(longer) = Len(messages) + 1 /\ longer[Len(messages) + 1] = init
      /\ \A k \in 1..Len(messages) : longer[k] = Initialized[k]
  BY <1>4, Appended
<1> HIDE DEF longer
<1>6. longer = [k \in 1..(Len(messages) + 1) |-> longer[k]]
  BY <1>5
<1>7. \A k \in 1..(Len(messages) + 1) : longer[k] = messages'[k].init
  <2>1. \A k \in 1..Len(messages) : Initialized[k] = messages[k].init
    BY DEF Initialized
  <2>2. \A k \in 1..(Len(messages) + 1) : k \in 1..Len(messages) \/ k = Len(messages) + 1
    BY <1>3
  <2> QED
    BY <1>2, <1>3, <1>5, <2>1, <2>2
<1>8. Initialized' = longer
  BY <1>3, <1>6, <1>7 DEF Initialized
<1> QED
  BY <1>1, <1>8 DEF Up!Put, Looping, Went, Carried, Unanswered, Initialize, longer

\* An initialize before a message the loop has taken went out, and the loop does not
\* wait for its answer.
LEMMA Behind ==
    ASSUME HttpInv, Passed, NEW k \in MessageNo, k <= taken, NEW i \in 1..(k - 1), messages[i].init
    PROVE  i \in Went /\ i # Unanswered
<1>1. i \in MessageNo /\ i < taken /\ taken \in Nat
  BY Numbers DEF MessageNo, HttpInv, Typed, GatewayOK
<1> QED
  BY <1>1 DEF Passed, Went, Unanswered

LEMMA UpGo ==
    ASSUME HttpInv, Passed, NEW k \in MessageNo, Ask(<<"POST", k>>)
    PROVE  Up!Go(k)
<1> DEFINE e == <<"POST", k>>
<1>1. /\ UNCHANGED <<messages, taken, loop, session_id>> /\ task[e] = "ready"
      /\ asked' = [asked EXCEPT ![e] = [sid |-> session_id, version |-> protocol_version,
                                       out |-> TRUE]]
      /\ asked \in [Exchange -> [sid : 0..MaxSent, version : 0..MaxSent, out : BOOLEAN]]
  BY DEF Ask, HttpInv, Typed, AccountOK, gateway, upstream
<1>2. /\ asked'[e].out /\ asked'[e].sid = session_id
      /\ \A j \in MessageNo : j # k => asked'[<<"POST", j>>] = asked[<<"POST", j>>]
  BY <1>1
<1>3. k <= taken /\ ~asked[e].out /\ loop \notin {"deleting", "over"}
  <2>1. ~(k > taken) /\ ~asked[e].out
    BY <1>1 DEF HttpInv, Order, Accounted
  <2>2. taken \in Nat
    BY DEF HttpInv, Typed, GatewayOK
  <2> QED
    BY <1>1, <2>1, <2>2, Numbers DEF HttpInv, Order
<1>4. k \in 1..Len(messages) /\ k \notin Went
  BY <1>3, Numbers DEF HttpInv, Typed, GatewayOK, Went
<1>5. DOMAIN Initialized = 1..Len(messages) /\ DOMAIN Carried = Went
  BY DEF Initialized, Carried
<1>6. \A i \in 1..(k - 1) : Initialized[i] => i \in Went /\ i # Unanswered
  <2>1. \A i \in 1..(k - 1) : i \in 1..Len(messages)
    BY <1>4, Numbers DEF HttpInv, Typed, GatewayOK
  <2> QED
    BY <1>3, <2>1, Behind DEF Initialized
<1>7. Up!MayGo(k)
  BY <1>3, <1>4, <1>5, <1>6 DEF Up!MayGo
<1>8. Went' = Went \cup {k}
  BY <1>2 DEF Went
<1>9. Carried' = [j \in Went \cup {k} |-> IF j = k THEN session_id ELSE Carried[j]]
  <2>1. \A j \in Went \cup {k} : asked'[<<"POST", j>>].sid
                                     = IF j = k THEN session_id ELSE Carried[j]
    BY <1>2 DEF Went, Carried
  <2> QED
    BY <1>8, <2>1 DEF Carried
<1>10. Unanswered' = IF Initialized[k] THEN k ELSE Unanswered
  <2>1. Initialized[k] = messages[k].init
    BY <1>4 DEF Initialized
  <2>2. CASE messages[k].init
    <3>1. loop = "initializing" /\ k = taken
      BY <1>1, <1>3, <2>2 DEF HttpInv, Order
    <3> QED
      BY <1>1, <1>2, <2>1, <2>2, <3>1 DEF Unanswered, Initialize
  <2>3. CASE ~messages[k].init
    <3>1. loop = "initializing" => taken \in MessageNo /\ k # taken
      BY <2>3, Numbers DEF HttpInv, Typed, GatewayOK, Order, MessageNo, Passed
    <3> QED
      BY <1>1, <1>2, <2>1, <2>3, <3>1 DEF Unanswered, Initialize
  <2> QED
    BY <2>2, <2>3
<1>11. Initialized' = Initialized
  BY <1>1 DEF Initialized
<1> QED
  BY <1>1, <1>5, <1>7, <1>9, <1>10, <1>11 DEF Up!Go

\* The answer to an exchange is in.
LEMMA UpAnswer ==
    ASSUME HttpInv, Passed, NEW e \in Exchange, Headers(e)
    PROVE  Up!Answer \/ (\E k \in MessageNo : Up!AnswerLate(k)) \/ UNCHANGED Up!vars
<1>1. PICK k \in MessageNo : k = e[2] /\ (e = <<"POST", k>> \/ e = <<"GET", k>>)
  BY Exchanges
<1>2. UNCHANGED <<messages, taken, asked>> /\ task[e] = "waiting"
  BY DEF Headers, gateway
<1>3. UNCHANGED <<Initialized, Carried>>
  BY <1>2 DEF Initialized, Carried, Went
<1>4. \/ session_id' = session_id
      \/ e = <<"POST", k>> /\ session_id = 0 /\ session_id' = k
  BY <1>1 DEF Headers
<1>5. loop \notin {"deleting", "over"}
  BY <1>2 DEF HttpInv, Order
<1>6. e = <<"POST", k>> => k \in Went
  BY <1>2 DEF Passed, Went
<1>7. CASE loop = "initializing" /\ e = Initialize
  <2>1. k = taken /\ e = <<"POST", k>> /\ loop' = "selecting"
    BY <1>1, <1>7 DEF Initialize, Headers
  <2>2. Unanswered = k /\ Unanswered' = 0 /\ k # 0
    BY <1>6, <1>7, <2>1, Numbers DEF Unanswered, Initialize, Went
  <2>3. Up!Answer
    BY <1>3, <1>4, <1>5, <2>1, <2>2 DEF Up!Answer, Up!Learn
  <2> QED
    BY <2>3
<1>8. CASE ~(loop = "initializing" /\ e = Initialize)
  <2>1. loop' = loop
    BY <1>8 DEF Headers
  <2>2. Unanswered' = Unanswered
    BY <1>2, <2>1 DEF Unanswered, Initialize
  <2>3. CASE session_id' = session_id
    BY <1>3, <2>1, <2>2, <2>3 DEF Up!vars
  <2>4. CASE e = <<"POST", k>> /\ session_id = 0 /\ session_id' = k
    <3>1. k # Unanswered
      BY <1>8, <2>4, Numbers DEF Unanswered, Initialize
    <3>2. k \in DOMAIN Carried
      BY <1>6, <2>4 DEF Carried
    <3>3. Up!AnswerLate(k)
      BY <1>3, <1>5, <2>1, <2>2, <2>4, <3>1, <3>2 DEF Up!AnswerLate, Up!Learn
    <3> QED
      BY <3>3
  <2> QED
    BY <1>4, <2>3, <2>4
<1> QED
  BY <1>7, <1>8

\* The loop ends; an initialize it waits for is given up.
LEMMA UpLeave ==
    ASSUME Looping, NEW w, Leave(w)
    PROVE  Up!Answer \/ UNCHANGED Up!vars
<1>1. /\ UNCHANGED <<messages, taken, asked, session_id>> /\ loop' = "shutting"
      /\ loop \notin {"deleting", "over"}
  BY DEF Leave, Looping, gateway, upstream, account
<1>2. UNCHANGED <<Initialized, Carried>> /\ Unanswered' = 0
  BY <1>1 DEF Initialized, Carried, Went, Unanswered
<1>3. CASE Unanswered = 0
  BY <1>1, <1>2, <1>3 DEF Up!vars
<1>4. CASE Unanswered # 0
  BY <1>1, <1>2, <1>4 DEF Up!Answer
<1> QED
  BY <1>3, <1>4

\* The loop takes a message, which goes nowhere yet.
LEMMA UpTake ==
    ASSUME HttpInv, Take
    PROVE  UNCHANGED Up!vars
<1>1. PICK k \in MessageNo : k = taken + 1
  BY NextMessage DEF Take, HttpInv, Typed
<1>2. /\ UNCHANGED <<messages, asked, session_id>> /\ loop = "selecting" /\ taken' = k
      /\ loop' \in {"selecting", "initializing"}
  BY <1>1 DEF Take, gateway, upstream, account
<1>3. ~asked[<<"POST", k>>].out
  <2>1. k > taken
    BY <1>1, Numbers DEF HttpInv, Typed, GatewayOK
  <2> QED
    BY <2>1 DEF HttpInv, Order, Accounted
<1>4. Unanswered' = 0 /\ Unanswered = 0
  BY <1>2, <1>3 DEF Unanswered, Initialize
<1>5. UNCHANGED <<Initialized, Carried>>
  BY <1>2 DEF Initialized, Carried, Went
<1> QED
  BY <1>2, <1>4, <1>5 DEF Up!vars

LEMMA UpStep == ASSUME HttpInv, Passed, [HttpNext]_httpVars PROVE [Up!Next]_(Up!vars)
<1>1. ASSUME NEW init \in BOOLEAN, MessageArrives(init) PROVE Up!Next
  BY <1>1, UpPut DEF Up!Next
<1>2. CASE HandleDropped \/ ConnectionLost \/ HttpTick \/ UNCHANGED httpVars
  <2>1. UNCHANGED <<messages, taken, asked, session_id, loop>>
    BY <1>2 DEF HandleDropped, ConnectionLost, HttpTick, httpVars
  <2> QED
    BY <2>1, UpFrame
<1>3. CASE Cancelled \/ DeadlinePasses
  <2>1. CASE UNCHANGED <<messages, taken, asked, session_id, loop>>
    BY <2>1, UpFrame
  <2> QED
    BY <1>3, <2>1, UpLeave DEF Cancelled, DeadlinePasses, Looping, Up!Next
<1>4. CASE Take
  BY <1>4, UpTake
<1>5. CASE Terminate \/ Deleted
  <2>1. /\ UNCHANGED <<messages, taken, asked, session_id>> /\ loop' \in {"deleting", "over"}
        /\ loop # "initializing"
    BY <1>5 DEF Terminate, Deleted
  <2>2. UNCHANGED <<Initialized, Carried>> /\ Unanswered' = Unanswered
    BY <2>1 DEF Initialized, Carried, Went, Unanswered
  <2>3. Up!End
    BY <2>1, <2>2 DEF Up!End
  <2> QED
    BY <2>3 DEF Up!Next
<1>6. ASSUME NEW e \in Exchange, Ask(e) PROVE [Up!Next]_(Up!vars)
  <2>1. PICK k \in MessageNo : k = e[2] /\ (e = <<"POST", k>> \/ e = <<"GET", k>>)
    BY Exchanges
  <2>2. CASE e = <<"POST", k>>
    BY <1>6, <2>2, UpGo DEF Up!Next
  <2>3. CASE e = <<"GET", k>>
    <3>1. /\ UNCHANGED <<messages, taken, loop, session_id>>
          /\ \A j \in MessageNo : asked'[<<"POST", j>>] = asked[<<"POST", j>>]
      BY <1>6, <2>3 DEF Ask, HttpInv, Typed, AccountOK
    <3>2. Went' = Went /\ UNCHANGED <<Initialized, Carried>>
      BY <3>1 DEF Initialized, Carried, Went
    <3>3. loop = "initializing" => taken \in MessageNo
      BY Numbers DEF HttpInv, Typed, GatewayOK, Order, MessageNo
    <3>4. Unanswered' = Unanswered
      BY <3>1, <3>3 DEF Unanswered, Initialize
    <3> QED
      BY <3>1, <3>2, <3>4 DEF Up!vars
  <2> QED
    BY <2>1, <2>2, <2>3
<1>7. ASSUME NEW e \in Exchange, Headers(e) PROVE [Up!Next]_(Up!vars)
  BY <1>7, UpAnswer DEF Up!Next
<1>8. ASSUME NEW e \in Exchange, Emit(e) \/ Emitted(e) \/ Finish(e) \/ Abort(e)
      PROVE  UNCHANGED Up!vars
  <2>1. UNCHANGED <<messages, taken, asked, session_id, loop>>
    BY <1>8 DEF Emit, Emitted, Finish, Abort
  <2> QED
    BY <2>1, UpFrame
<1>9. ASSUME NEW e \in Exchange, Fail(e) \/ Join(e) PROVE [Up!Next]_(Up!vars)
  <2>1. CASE UNCHANGED <<messages, taken, asked, session_id, loop>>
    BY <2>1, UpFrame
  <2>2. CASE Looping /\ \E w : Leave(w)
    BY <2>2, UpLeave DEF Up!Next
  <2> QED
    BY <1>9, <2>1, <2>2 DEF Fail, Join, Looping
<1> QED
  BY <1>1, <1>2, <1>3, <1>4, <1>5, <1>6, <1>7, <1>8, <1>9 DEF HttpNext, ExchangeStep, HttpOver

\* A session implements the safety part of Delivery: the POSTs go out in any
\* order, with the session id there is, but none before the answer to an earlier
\* initialize (http.rs, run and send).
THEOREM SessionDelivers == HttpSpec => Up!Safety
BY UpInit, UpStep, AlwaysPassed, PTL DEF HttpSpec, Up!Safety

=============================================================================
