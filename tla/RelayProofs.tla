----------------------------- MODULE RelayProofs -----------------------------
(***************************************************************************)
(* Theorems about Relay, for every value of its constants: its types, its  *)
(* session table, and the calls of its sessions.                           *)
(***************************************************************************)
EXTENDS Relay, SequenceTheorems, FiniteSetTheorems, FunctionTheorems, TLAPS

-----------------------------------------------------------------------------
(* The type invariant, in the parts an action disturbs separately.         *)

TableOK ==
    /\ backends \in Tables /\ admission \in Admissions
    /\ next_id \in 0..MaxOpens
    /\ session \in [Ids -> Session \cup {NoSession}]
    /\ table \in [Sid -> 0..MaxOpens]

AskOK ==
    /\ open_confirmations \in Int
    /\ confirming \subseteq Ids
    /\ asks \subseteq [id : Ids, rid : Rid,
                      phase : {"open", "allowed", "denied", "forward", "reply"}]

TaskOK ==
    /\ queue \in [Ids -> Seq(Message)]
    /\ signalled \subseteq Ids /\ self_ended \subseteq Ids
    /\ task \in [Ids -> {"unborn", "running", "killing", "ended", "dying", "reporting",
                         "over", "aborted", "dropped"}]
    /\ at \in [Ids -> SUBSET Rid] /\ sending \in [Ids -> SUBSET (Rid \cup Strays)]

FateOK == fate \in [Ids -> Why \cup {"none"}]
ReplyOK == reply \in Frame \cup {NoFrame}

MainOK ==
    /\ FateOK /\ ReplyOK
    /\ stopping \in 0..MaxOpens
    /\ opening \in Session \cup {NoFrame}

WireOK ==
    /\ conn \in {"up", "closing", "closed"} /\ writer \in {"up", "down"}
    /\ out \in 0..OutCap

FlightOK == in_flight \in [Ids -> Nat]
EnvOK ==
    /\ owed \in [Ids -> SUBSET Rid] /\ told \subseteq Ids /\ hung_up \subseteq Ids
    /\ strays \in [Ids -> 0..MaxStrays]

\* What `stop` relies on: the handle it waits for is one the main loop took out
\* of the table, and it has been told to end.
StopOK == stopping # 0 => stopping \in Doomed /\ stopping \in signalled

Typed ==
    TableOK /\ AskOK /\ TaskOK /\ MainOK /\ WireOK /\ FlightOK /\ EnvOK /\ StopOK

LEMMA TypedIsTypeOK == Typed => TypeOK
BY DEF Typed, TypeOK, TableOK, AskOK, TaskOK, MainOK, FateOK, ReplyOK, WireOK, FlightOK,
       EnvOK

LEMMA Frames ==
    /\ TableOK /\ UNCHANGED tableVars => TableOK'
    /\ AskOK /\ UNCHANGED askVars => AskOK'
    /\ TaskOK /\ UNCHANGED taskVars => TaskOK'
    /\ MainOK /\ UNCHANGED mainVars => MainOK'
    /\ WireOK /\ UNCHANGED wireVars => WireOK'
    /\ FlightOK /\ UNCHANGED in_flight => FlightOK'
    /\ EnvOK /\ UNCHANGED envVars => EnvOK'
BY DEF TableOK, AskOK, TaskOK, MainOK, FateOK, ReplyOK, WireOK, FlightOK, EnvOK,
       tableVars, askVars, taskVars, mainVars, wireVars, envVars

LEMMA StopFrame ==
    ASSUME StopOK, UNCHANGED stopping, Doomed \subseteq Doomed',
           signalled \subseteq signalled'
    PROVE  StopOK'
BY DEF StopOK

LEMMA Bounds == MaxOpens \in Nat /\ 0 \in 0..MaxOpens
BY RelayAssumption

LEMMA TablesTyped ==
    ASSUME NEW T \in Tables, NEW a \in DOMAIN T
    PROVE  a \in Alias /\ T[a] \in Entry
BY RelayAssumption

LEMMA FrameTyped ==
    /\ \A i \in Ids \cup {0}, w \in Why \cup RefusalWhy : CloseFrame(i, w) \in Frame
    /\ \A i \in Ids : McpFrame(i, "refused") \in Frame
BY DEF Frame, CloseFrame, McpFrame

LEMMA RefuseTyped ==
    ASSUME NEW w \in RefusalWhy, Refuse(w)
    PROVE  ReplyOK'
BY FrameTyped DEF Refuse, ReplyOK

LEMMA DoomTyped ==
    ASSUME TableOK, FateOK, NEW s, NEW w \in Why, Doom(s, w)
    PROVE  /\ table' \in [Sid -> 0..MaxOpens]
           /\ FateOK'
           /\ Doomed \subseteq Doomed'
<1>1. w # "none"
  BY DEF Why
<1>2. table' \in [Sid -> 0..MaxOpens]
  BY Bounds DEF TableOK, Doom
<1>3. FateOK'
  BY DEF FateOK, Doom
<1>4. Doomed \subseteq Doomed'
  BY <1>1 DEF FateOK, Doom, Doomed
<1> QED
  BY <1>2, <1>3, <1>4

LEMMA SpawnTyped ==
    ASSUME TableOK, TaskOK, NEW x \in Session, Spawn(x)
    PROVE  TableOK' /\ TaskOK' /\ UNCHANGED signalled
<1>1. next_id' \in Ids
  BY RelayAssumption DEF TableOK, Spawn, Ids
<1>2. session' \in [Ids -> Session \cup {NoSession}]
  BY <1>1 DEF TableOK, Spawn
<1>3. table' \in [Sid -> 0..MaxOpens]
  BY <1>1 DEF TableOK, Spawn, Session, Ids
<1>4. TaskOK'
  BY <1>1 DEF TaskOK, Spawn
<1> QED
  BY <1>1, <1>2, <1>3, <1>4, RelayAssumption DEF TableOK, Spawn, Ids

LEMMA InitTyped == Init => Typed
<1> SUFFICES ASSUME Init PROVE Typed
  OBVIOUS
<1> USE RelayAssumption DEF Init
<1>1. TableOK
  BY DEF TableOK
<1>2. AskOK
  BY DEF AskOK
<1>3. TaskOK
  BY DEF TaskOK
<1>4. MainOK /\ StopOK
  BY DEF MainOK, FateOK, ReplyOK, StopOK
<1>5. WireOK /\ FlightOK /\ EnvOK
  BY DEF WireOK, FlightOK, EnvOK
<1> QED
  BY <1>1, <1>2, <1>3, <1>4, <1>5 DEF Typed

-----------------------------------------------------------------------------
(* Every step preserves it.                                                *)

LEMMA OpenTyped ==
    ASSUME Typed, NEW s \in Sid, NEW a \in Alias, NEW c \in Cred \cup {NoCred},
           open(s, a, c)
    PROVE  Typed'
<1>0. /\ UNCHANGED <<askVars, wireVars, in_flight, envVars>>
      /\ \/ OpenDuplicate(s) /\ UNCHANGED taskVars
         \/ OpenRefused(s, a, c) /\ UNCHANGED taskVars
         \/ OpenEvicting(s, a, c) /\ UNCHANGED taskVars
         \/ OpenAdmitted(s, a, c)
  BY DEF open
<1>f. AskOK' /\ WireOK' /\ FlightOK' /\ EnvOK'
  BY <1>0, Frames DEF Typed
<1>1. CASE OpenDuplicate(s) /\ UNCHANGED taskVars
  <2>1. /\ table' \in [Sid -> 0..MaxOpens] /\ FateOK' /\ Doomed \subseteq Doomed'
    <3>1. "duplicate_session" \in Why
      BY DEF Why
    <3> QED
      BY <1>1, <3>1, DoomTyped DEF Typed, MainOK, OpenDuplicate
  <2>2. TableOK' /\ MainOK'
    BY <1>1, <2>1 DEF Typed, TableOK, MainOK, ReplyOK, OpenDuplicate
  <2>3. TaskOK' /\ UNCHANGED <<stopping, signalled>>
    BY <1>1, Frames DEF Typed, taskVars, OpenDuplicate
  <2> QED
    BY <1>f, <2>1, <2>2, <2>3, StopFrame DEF Typed
<1>2. CASE OpenRefused(s, a, c) /\ UNCHANGED taskVars
  <2>1. Refusal(a, c) # "admitted" => Refusal(a, c) \in RefusalWhy
    BY DEF Refusal, RefusalWhy
  <2>2. "too_many_sessions" \in RefusalWhy
    BY DEF RefusalWhy
  <2>3. ReplyOK'
    BY <1>2, <2>1, <2>2, RefuseTyped DEF OpenRefused
  <2>4. TableOK' /\ TaskOK' /\ UNCHANGED <<stopping, signalled, fate>>
    BY <1>2, Frames DEF Typed, taskVars, OpenRefused
  <2>5. MainOK' /\ Doomed \subseteq Doomed'
    BY <1>2, <2>3, <2>4 DEF Typed, MainOK, FateOK, OpenRefused, Doomed
  <2> QED
    BY <1>f, <2>4, <2>5, StopFrame DEF Typed
<1>3. CASE OpenEvicting(s, a, c) /\ UNCHANGED taskVars
  <2>1. a \in DOMAIN backends /\ backends[a] \in Entry
    BY <1>3, TablesTyped DEF OpenEvicting, Refusal, Typed, TableOK
  <2>2. opening' \in Session
    BY <1>3, <2>1 DEF OpenEvicting, Session
  <2>3. PICK victim \in Evictable(a) : Doom(victim, "evicted")
    BY <1>3 DEF OpenEvicting
  <2>4. "evicted" \in Why
    BY DEF Why
  <2>5. table' \in [Sid -> 0..MaxOpens] /\ FateOK' /\ Doomed \subseteq Doomed'
    BY <2>3, <2>4, DoomTyped DEF Typed, MainOK
  <2>6. TableOK' /\ MainOK'
    BY <1>3, <2>2, <2>5 DEF Typed, TableOK, MainOK, ReplyOK, OpenEvicting
  <2>7. TaskOK' /\ UNCHANGED <<stopping, signalled>>
    BY <1>3, Frames DEF Typed, taskVars, OpenEvicting
  <2> QED
    BY <1>f, <2>5, <2>6, <2>7, StopFrame DEF Typed
<1>4. CASE OpenAdmitted(s, a, c)
  <2>1. a \in DOMAIN backends /\ backends[a] \in Entry
    BY <1>4, TablesTyped DEF OpenAdmitted, Refusal, Typed, TableOK
  <2>2. [sid |-> s, alias |-> a, cred |-> c, entry |-> backends[a]] \in Session
    BY <2>1 DEF Session
  <2>3. TableOK' /\ TaskOK' /\ UNCHANGED signalled
    BY <1>4, <2>2, SpawnTyped DEF Typed, OpenAdmitted
  <2>4. MainOK' /\ UNCHANGED <<stopping, fate>>
    BY <1>4, Frames DEF Typed, OpenAdmitted, mainVars
  <2> QED
    BY <1>f, <2>3, <2>4, StopFrame DEF Typed, Doomed
<1> QED
  BY <1>0, <1>1, <1>2, <1>3, <1>4

LEMMA OpenAfterEvictionTyped ==
    ASSUME Typed, OpenAfterEviction
    PROVE  Typed'
<1>1. opening \in Session
  BY DEF OpenAfterEviction, Typed, MainOK
<1>2. TableOK' /\ TaskOK' /\ UNCHANGED signalled
  BY <1>1, SpawnTyped DEF OpenAfterEviction, Typed
<1>3. MainOK' /\ UNCHANGED <<stopping, fate>>
  BY DEF OpenAfterEviction, Typed, MainOK, FateOK, ReplyOK
<1>4. AskOK' /\ WireOK' /\ FlightOK' /\ EnvOK'
  BY Frames DEF OpenAfterEviction, Typed
<1> QED
  BY <1>2, <1>3, <1>4, StopFrame DEF Typed, Doomed

LEMMA DeliverTyped ==
    ASSUME Typed, NEW s \in Sid, NEW m \in Message, deliver(s, m)
    PROVE  Typed'
<1> DEFINE i == table[s]
<1>0. /\ UNCHANGED <<backends, admission, next_id, session, signalled, task, self_ended,
                     at, sending, stopping, opening, wireVars, told, hung_up, strays>>
      /\ \/ DeliverUnknown(s)
         \/ i # 0 /\ DeliverForward(i, m)
         \/ i # 0 /\ m.call /\ DeliverRefused(i)
         \/ i # 0 /\ m.call /\ DeliverConfirm(i, m.rid)
         \/ i # 0 /\ m.call /\ DeliverNoSlot(i)
  BY DEF deliver
<1>r. m.call => m.rid \in Rid
  BY DEF Message, Call, Note
<1>i. i # 0 => i \in Ids
  BY RelayAssumption DEF Typed, TableOK, Ids
<1>w. WireOK'
  BY <1>0, Frames DEF Typed
<1>q. ASSUME UNCHANGED <<table, fate, queue>>, AskOK', FlightOK', ReplyOK',
             owed' \in [Ids -> SUBSET Rid]
      PROVE  Typed'
  <2>1. TableOK' /\ MainOK'
    BY <1>0, <1>q DEF Typed, TableOK, MainOK, FateOK
  <2>2. TaskOK' /\ EnvOK'
    BY <1>0, <1>q DEF Typed, TaskOK, EnvOK
  <2>3. StopOK'
    BY <1>0, <1>q, StopFrame DEF Typed, Doomed
  <2> QED
    BY <1>w, <1>q, <2>1, <2>2, <2>3 DEF Typed
<1>1. CASE DeliverUnknown(s)
  <2>1. ReplyOK'
    <3>1. "unknown_session" \in RefusalWhy
      BY DEF RefusalWhy
    <3> QED
      BY <1>1, <3>1, RefuseTyped DEF DeliverUnknown
  <2>2. AskOK' /\ FlightOK' /\ owed' \in [Ids -> SUBSET Rid]
    BY <1>1, Frames DEF DeliverUnknown, Typed, EnvOK
  <2> QED
    BY <1>1, <1>q, <2>1, <2>2 DEF DeliverUnknown
<1>2. CASE i # 0 /\ (DeliverRefused(i) \/ DeliverNoSlot(i))
  <2>1. ReplyOK'
    BY <1>2, <1>i, FrameTyped DEF DeliverRefused, DeliverNoSlot, ReplyOK
  <2>2. AskOK' /\ FlightOK' /\ owed' \in [Ids -> SUBSET Rid]
    BY <1>2, Frames DEF DeliverRefused, DeliverNoSlot, Typed, EnvOK
  <2> QED
    BY <1>2, <1>q, <2>1, <2>2 DEF DeliverRefused, DeliverNoSlot
<1>3. CASE i # 0 /\ m.call /\ DeliverConfirm(i, m.rid)
  <2> DEFINE k == [id |-> i, rid |-> m.rid, phase |-> "open"]
  <2>1. AskOK'
    BY <1>3, <1>i, <1>r DEF DeliverConfirm, Typed, AskOK
  <2>2. FlightOK'
    BY <1>3, <1>i DEF DeliverConfirm, Typed, FlightOK
  <2>3. owed' \in [Ids -> SUBSET Rid]
    BY <1>3, <1>i, <1>r DEF DeliverConfirm, Typed, EnvOK
  <2>4. ReplyOK'
    BY <1>3 DEF DeliverConfirm, Typed, MainOK, ReplyOK
  <2> QED
    BY <1>3, <1>q, <2>1, <2>2, <2>3, <2>4 DEF DeliverConfirm
<1>4. CASE i # 0 /\ DeliverForward(i, m)
  <2>1. FlightOK'
    BY <1>4, <1>i DEF DeliverForward, Typed, FlightOK
  <2>2. owed' \in [Ids -> SUBSET Rid]
    BY <1>4, <1>i, <1>r DEF DeliverForward, Typed, EnvOK
  <2>3. AskOK' /\ UNCHANGED reply
    BY <1>4, Frames DEF DeliverForward, Typed
  <2>4. queue' \in [Ids -> Seq(Message)]
    <3>1. queue[i] \in Seq(Message)
      BY <1>4, <1>i DEF Typed, TaskOK
    <3>2. Append(queue[i], m) \in Seq(Message)
      BY <3>1
    <3> QED
      BY <1>4, <1>i, <3>2 DEF DeliverForward, TrySend, Typed, TaskOK
  <2>5. /\ table' \in [Sid -> 0..MaxOpens] /\ FateOK' /\ Doomed \subseteq Doomed'
    <3>1. CASE UNCHANGED <<table, fate>>
      BY <3>1 DEF Typed, TableOK, MainOK, FateOK, Doomed
    <3>2. CASE Doom(session[i].sid, "overloaded")
      BY <3>2, DoomTyped DEF Typed, MainOK, Why
    <3> QED
      BY <1>4, <3>1, <3>2 DEF DeliverForward, TrySend
  <2>6. TableOK' /\ MainOK'
    BY <1>0, <2>3, <2>5 DEF Typed, TableOK, MainOK, ReplyOK
  <2>7. TaskOK' /\ EnvOK'
    BY <1>0, <2>2, <2>4 DEF Typed, TaskOK, EnvOK
  <2>8. StopOK'
    BY <1>0, <2>5, StopFrame DEF Typed
  <2> QED
    BY <1>w, <2>1, <2>3, <2>6, <2>7, <2>8 DEF Typed
<1> QED
  BY <1>0, <1>1, <1>2, <1>3, <1>4
LEMMA OversizedTyped ==
    ASSUME Typed, NEW s \in Sid, oversized(s)
    PROVE  Typed'
<1>1. table' \in [Sid -> 0..MaxOpens] /\ FateOK' /\ ReplyOK' /\ Doomed \subseteq Doomed'
  <2>1. "message_too_large" \in Why \cap RefusalWhy
    BY DEF Why, RefusalWhy
  <2>2. CASE Doom(s, "message_too_large") /\ UNCHANGED reply
    BY <2>1, <2>2, DoomTyped DEF Typed, MainOK, ReplyOK
  <2>3. CASE Refuse("message_too_large") /\ UNCHANGED <<table, fate>>
    BY <2>1, <2>3, RefuseTyped DEF Typed, TableOK, MainOK, FateOK, Doomed
  <2> QED
    BY <2>2, <2>3 DEF oversized
<1>2. TableOK' /\ MainOK'
  BY <1>1 DEF oversized, Typed, TableOK, MainOK
<1>3. AskOK' /\ TaskOK' /\ WireOK' /\ FlightOK' /\ EnvOK'
  BY Frames DEF oversized, Typed
<1>4. StopOK'
  BY <1>1, StopFrame DEF oversized, Typed, taskVars
<1> QED
  BY <1>2, <1>3, <1>4 DEF Typed

LEMMA CloseTyped ==
    ASSUME Typed, NEW s \in Sid, close(s)
    PROVE  Typed'
<1>1. table' \in [Sid -> 0..MaxOpens] /\ FateOK' /\ Doomed \subseteq Doomed'
  BY DoomTyped DEF close, Typed, MainOK, Why
<1>2. TableOK' /\ MainOK'
  BY <1>1 DEF close, Typed, TableOK, MainOK, ReplyOK
<1>3. AskOK' /\ TaskOK' /\ WireOK' /\ FlightOK'
  BY Frames DEF close, Typed
<1>4. EnvOK'
  BY RelayAssumption DEF close, Typed, EnvOK, TableOK, Ids
<1>5. StopOK'
  BY <1>1, StopFrame DEF close, Typed, taskVars
<1> QED
  BY <1>2, <1>3, <1>4, <1>5 DEF Typed

LEMMA ReconfigureTyped ==
    ASSUME Typed, NEW next \in Tables, NEW adm \in Admissions, reconfigure(next, adm)
    PROVE  Typed'
<1>1. \A x : ReloadFate(x, next, adm) \in Why \cup {"none"}
  BY DEF ReloadFate, Why
<1>2. TableOK'
  BY Bounds DEF reconfigure, Typed, TableOK
<1>3. FateOK'
  BY <1>1 DEF reconfigure, Typed, MainOK, FateOK
<1>4. MainOK'
  BY <1>3 DEF reconfigure, Typed, MainOK, ReplyOK
<1>5. AskOK' /\ TaskOK' /\ WireOK' /\ FlightOK' /\ EnvOK'
  BY Frames DEF reconfigure, Typed
<1>6. Doomed \subseteq Doomed'
  BY DEF reconfigure, MainIdle
<1> QED
  BY <1>2, <1>4, <1>5, <1>6, StopFrame DEF Typed, reconfigure, taskVars

LEMMA ShutdownTyped ==
    ASSUME Typed, shutdown
    PROVE  Typed'
<1>1. TableOK' /\ MainOK'
  BY RelayAssumption DEF shutdown, Typed, TableOK, MainOK, FateOK, ReplyOK, Why
<1>2. WireOK'
  BY DEF shutdown, Typed, WireOK
<1>3. AskOK' /\ TaskOK' /\ FlightOK' /\ EnvOK'
  BY Frames DEF shutdown, Typed
<1>4. Doomed \subseteq Doomed'
  BY DEF shutdown, MainIdle
<1> QED
  BY <1>1, <1>2, <1>3, <1>4, StopFrame DEF Typed, shutdown, taskVars

LEMMA BeginStopTyped ==
    ASSUME Typed, NEW i \in Ids, BeginStop(i)
    PROVE  Typed'
<1>1. TableOK' /\ AskOK' /\ WireOK' /\ FlightOK' /\ EnvOK'
  BY Frames DEF BeginStop, Typed
<1>2. TaskOK'
  BY DEF BeginStop, Typed, TaskOK
<1>3. MainOK'
  BY DEF BeginStop, Typed, MainOK, FateOK, ReplyOK, Ids
<1>4. StopOK'
  BY DEF BeginStop, StopOK, Doomed
<1> QED
  BY <1>1, <1>2, <1>3, <1>4 DEF Typed

LEMMA StoppedTyped ==
    ASSUME Typed, stopping # 0, Stopped
    PROVE  TableOK' /\ AskOK' /\ MainOK' /\ WireOK' /\ FlightOK' /\ EnvOK' /\ StopOK'
<1>1. stopping \in Ids /\ fate[stopping] \in Why
  BY DEF Typed, StopOK, Doomed, MainOK, FateOK
<1>2. TableOK' /\ AskOK' /\ WireOK' /\ FlightOK' /\ EnvOK'
  BY Frames DEF Stopped, Typed
<1>3. ReplyOK'
  BY <1>1, FrameTyped DEF Stopped, Typed, MainOK, ReplyOK
<1>4. MainOK' /\ StopOK'
  BY <1>3, Bounds DEF Stopped, Typed, MainOK, FateOK, StopOK
<1> QED
  BY <1>2, <1>4

LEMMA EndStopTyped ==
    ASSUME Typed, EndStop \/ StopTimeout
    PROVE  Typed'
<1>1. stopping # 0 /\ Stopped
  BY DEF EndStop, StopTimeout
<1>2. TaskOK'
  BY DEF EndStop, StopTimeout, AbortAt, Stopped, Typed, TaskOK
<1> QED
  BY <1>1, <1>2, StoppedTyped DEF Typed

LEMMA SendReplyTyped ==
    ASSUME Typed, SendReply
    PROVE  Typed'
<1>1. TableOK' /\ AskOK' /\ TaskOK' /\ FlightOK'
  BY Frames DEF SendReply, Typed
<1>2. MainOK' /\ StopOK'
  BY DEF SendReply, Typed, MainOK, FateOK, ReplyOK, StopOK, Doomed, taskVars
<1>3. WireOK'
  BY RelayAssumption DEF SendReply, SendFrame, Put, Typed, WireOK
<1>4. EnvOK'
  <2>1. reply.tag = "session_close" /\ reply.from # 0 => reply.from \in Ids
    BY DEF SendReply, Typed, MainOK, ReplyOK, Frame
  <2> QED
    BY <2>1 DEF SendReply, SendFrame, Put, Typed, EnvOK
<1> QED
  BY <1>1, <1>2, <1>3, <1>4 DEF Typed

LEMMA ConnectionEndTyped ==
    ASSUME Typed, Closed \/ Abandon
    PROVE  Typed'
<1> USE RelayAssumption
<1>1. AskOK' /\ FlightOK' /\ EnvOK'
  BY Frames DEF Closed, Abandon, Typed
<1>2. WireOK'
  BY DEF Closed, Abandon, Typed, WireOK
<1>3. CASE Closed
  <2>1. TableOK' /\ TaskOK' /\ MainOK'
    BY <1>3, Frames DEF Closed, Typed
  <2> QED
    BY <1>1, <1>2, <1>3, <2>1, StopFrame DEF Closed, Typed, taskVars, mainVars, Doomed
<1>4. CASE Abandon
  <2>1. TableOK' /\ MainOK' /\ StopOK'
    BY <1>4 DEF Abandon, Typed, TableOK, MainOK, FateOK, ReplyOK, StopOK
  <2>2. TaskOK'
    BY <1>4 DEF Abandon, AbortAt, Typed, TaskOK, Doomed
  <2> QED
    BY <1>1, <1>2, <2>1, <2>2 DEF Typed
<1> QED
  BY <1>3, <1>4
LEMMA TaskStepTyped ==
    ASSUME Typed, NEW i \in Ids, TaskStep(i) \/ BackendStep(i)
    PROVE  Typed'
<1>1. AskOK'
  BY Frames DEF TaskStep, BackendStep, TakeMessage, EmitSent, EndSilently, EndItself,
     Leave, Killed, RemoveSelf, Report, Reap, Answer, Stray, Typed
<1>2. MainOK' /\ UNCHANGED <<fate, stopping, signalled>>
  BY Frames DEF TaskStep, BackendStep, TakeMessage, EmitSent, EndSilently, EndItself,
     Leave, Killed, RemoveSelf, Report, Reap, Answer, Stray, Typed, mainVars
<1>3. StopOK'
  BY <1>2, StopFrame DEF Typed, Doomed
<1>4. CASE TakeMessage(i)
  <2>1. queue[i] \in Seq(Message) /\ queue[i] # <<>>
    BY <1>4 DEF TakeMessage, Typed, TaskOK
  <2>2. Head(queue[i]) \in Message /\ Tail(queue[i]) \in Seq(Message)
    BY <2>1
  <2>3. Head(queue[i]).call => Head(queue[i]).rid \in Rid
    BY <2>2 DEF Message, Call, Note
  <2>4. TaskOK'
    BY <1>4, <2>2, <2>3 DEF TakeMessage, Typed, TaskOK
  <2>5. TableOK' /\ WireOK' /\ FlightOK' /\ EnvOK'
    BY <1>4, Frames DEF TakeMessage, Typed
  <2> QED
    BY <1>1, <1>2, <1>3, <2>4, <2>5 DEF Typed
<1>5. ASSUME NEW r \in Rid \cup Strays, EmitSent(i, r) PROVE Typed'
  <2>1. TableOK' /\ FlightOK'
    BY <1>5, Frames DEF EmitSent, Typed
  <2>2. TaskOK'
    BY <1>5 DEF EmitSent, Typed, TaskOK
  <2>3. WireOK'
    BY <1>5, RelayAssumption DEF EmitSent, Put, Typed, WireOK
  <2>4. EnvOK'
    BY <1>5 DEF EmitSent, Put, McpFrame, Typed, EnvOK
  <2> QED
    BY <1>1, <1>2, <1>3, <2>1, <2>2, <2>3, <2>4 DEF Typed
<1>6. ASSUME NEW r \in Rid, Answer(i, r) PROVE Typed'
  <2>1. TableOK' /\ WireOK' /\ EnvOK'
    BY <1>6, Frames DEF Answer, Typed
  <2>2. TaskOK'
    BY <1>6 DEF Answer, Typed, TaskOK
  <2>3. FlightOK'
    BY <1>6 DEF Answer, Settle, Typed, FlightOK
  <2> QED
    BY <1>1, <1>2, <1>3, <2>1, <2>2, <2>3 DEF Typed
<1>s. CASE Stray(i)
  <2>1. TableOK' /\ WireOK'
    BY <1>s, Frames DEF Stray, Typed
  <2>2. strays'[i] \in Strays /\ strays' \in [Ids -> 0..MaxStrays]
    BY <1>s, RelayAssumption DEF Stray, Strays, Typed, EnvOK
  <2>3. TaskOK'
    BY <1>s, <2>2 DEF Stray, Typed, TaskOK
  <2>4. FlightOK'
    BY <1>s DEF Stray, Settle, Typed, FlightOK
  <2>5. EnvOK'
    BY <1>s, <2>2 DEF Stray, Typed, EnvOK
  <2> QED
    BY <1>1, <1>2, <1>3, <2>1, <2>3, <2>4, <2>5 DEF Typed
<1>7. CASE EndSilently(i) \/ EndItself(i) \/ Killed(i) \/ Reap(i)
  <2>1. TableOK' /\ WireOK' /\ FlightOK' /\ EnvOK'
    BY <1>7, Frames DEF EndSilently, EndItself, Leave, Killed, Reap, Typed
  <2>2. CASE EndSilently(i) \/ EndItself(i)
    <3>1. TaskOK'
      BY <2>2 DEF EndSilently, EndItself, Leave, Typed, TaskOK
    <3> QED
      BY <1>1, <1>2, <1>3, <2>1, <3>1 DEF Typed
  <2>3. CASE Killed(i) \/ Reap(i)
    <3>1. TaskOK'
      <4>1. <<>> \in Seq(Message)
        OBVIOUS
      <4> QED
        BY <2>3, <4>1 DEF Killed, Reap, Typed, TaskOK
    <3> QED
      BY <1>1, <1>2, <1>3, <2>1, <3>1 DEF Typed
  <2> QED
    BY <1>7, <2>2, <2>3
<1>8. CASE RemoveSelf(i)
  <2>1. WireOK' /\ FlightOK' /\ EnvOK'
    BY <1>8, Frames DEF RemoveSelf, Typed
  <2>2. TableOK'
    BY <1>8, Bounds DEF RemoveSelf, Typed, TableOK
  <2>3. TaskOK'
    BY <1>8 DEF RemoveSelf, Typed, TaskOK
  <2> QED
    BY <1>1, <1>2, <1>3, <2>1, <2>2, <2>3 DEF Typed
<1>9. CASE Report(i)
  <2>1. TableOK' /\ FlightOK'
    BY <1>9, Frames DEF Report, Typed
  <2>2. TaskOK'
    BY <1>9 DEF Report, Typed, TaskOK
  <2>3. WireOK'
    BY <1>9, RelayAssumption DEF Report, SendFrame, Put, Typed, WireOK
  <2>4. EnvOK'
    BY <1>9 DEF Report, SendFrame, Put, CloseFrame, Typed, EnvOK
  <2> QED
    BY <1>1, <1>2, <1>3, <2>1, <2>2, <2>3, <2>4 DEF Typed
<1> QED
  BY <1>4, <1>5, <1>6, <1>s, <1>7, <1>8, <1>9 DEF TaskStep, BackendStep

LEMMA AskStepTyped ==
    ASSUME Typed, NEW k \in asks, AskStep(k)
    PROVE  Typed'
<1>k. k \in [id : Ids, rid : Rid,
             phase : {"open", "allowed", "denied", "forward", "reply"}]
  BY DEF Typed, AskOK
<1>p. \A p \in {"allowed", "denied", "forward", "reply"} :
          Phase(k, p) => asks' \subseteq [id : Ids, rid : Rid,
              phase : {"open", "allowed", "denied", "forward", "reply"}]
  BY <1>k DEF Phase, Typed, AskOK
<1>1. TableOK' /\ MainOK'
  BY Frames DEF AskStep, OwnerAnswers, ReleaseAllowed, ForwardAllowed, ReleaseDenied,
     ReplyDenied, Typed
<1>2. UNCHANGED <<fate, stopping, signalled>>
  BY DEF AskStep, OwnerAnswers, ReleaseAllowed, ForwardAllowed, ReleaseDenied,
     ReplyDenied, mainVars, taskVars
<1>3. StopOK'
  BY <1>2, StopFrame DEF Typed, Doomed
<1>4. AskOK'
  <2>1. CASE OwnerAnswers(k)
    BY <1>p, <2>1 DEF OwnerAnswers, Typed, AskOK
  <2>2. CASE ReleaseAllowed(k) \/ ReleaseDenied(k)
    BY <1>p, <2>2 DEF ReleaseAllowed, ReleaseDenied, Typed, AskOK
  <2>3. CASE ForwardAllowed(k) \/ ReplyDenied(k)
    BY <2>3 DEF ForwardAllowed, ReplyDenied, Typed, AskOK
  <2> QED
    BY <2>1, <2>2, <2>3 DEF AskStep
<1>5. CASE OwnerAnswers(k) \/ ReleaseAllowed(k)
  <2>1. TaskOK' /\ WireOK' /\ FlightOK' /\ EnvOK'
    BY <1>5, Frames DEF OwnerAnswers, ReleaseAllowed, Typed
  <2> QED
    BY <1>1, <1>3, <1>4, <2>1 DEF Typed
<1>6. CASE ReleaseDenied(k)
  <2>1. TaskOK' /\ WireOK' /\ EnvOK'
    BY <1>6, Frames DEF ReleaseDenied, Typed
  <2>2. FlightOK'
    BY <1>k, <1>6 DEF ReleaseDenied, Settle, Typed, FlightOK
  <2> QED
    BY <1>1, <1>3, <1>4, <2>1, <2>2 DEF Typed
<1>7. CASE ForwardAllowed(k)
  <2>1. WireOK' /\ FlightOK' /\ EnvOK'
    BY <1>7, Frames DEF ForwardAllowed, Typed
  <2>2. Append(queue[k.id], Call(k.rid)) \in Seq(Message)
    <3>1. queue[k.id] \in Seq(Message) /\ Call(k.rid) \in Message
      BY <1>k DEF Message, Typed, TaskOK
    <3> QED
      BY <3>1, AppendProperties
  <2>3. queue' \in [Ids -> Seq(Message)]
    BY <1>k, <1>7, <2>2 DEF ForwardAllowed, Typed, TaskOK
  <2>4. TaskOK'
    BY <1>7, <2>3 DEF ForwardAllowed, Typed, TaskOK
  <2> QED
    BY <1>1, <1>3, <1>4, <2>1, <2>4 DEF Typed
<1>8. CASE ReplyDenied(k)
  <2>1. TaskOK' /\ FlightOK'
    BY <1>8, Frames DEF ReplyDenied, Typed
  <2>2. WireOK'
    BY <1>8, RelayAssumption DEF ReplyDenied, SendFrame, Put, Typed, WireOK
  <2>3. EnvOK'
    BY <1>k, <1>8 DEF ReplyDenied, SendFrame, Put, McpFrame, Typed, EnvOK
  <2> QED
    BY <1>1, <1>3, <1>4, <2>1, <2>2, <2>3 DEF Typed
<1> QED
  BY <1>5, <1>6, <1>7, <1>8 DEF AskStep

LEMMA WriterTyped ==
    ASSUME Typed, WriterSends \/ WriterDies
    PROVE  Typed'
<1>1. TableOK' /\ AskOK' /\ TaskOK' /\ MainOK' /\ FlightOK' /\ EnvOK'
  BY Frames DEF WriterSends, WriterDies, Typed
<1>2. WireOK'
  BY RelayAssumption DEF WriterSends, WriterDies, Typed, WireOK
<1>3. StopOK'
  BY StopFrame DEF WriterSends, WriterDies, Typed, mainVars, taskVars, Doomed
<1> QED
  BY <1>1, <1>2, <1>3 DEF Typed

LEMMA StutterTyped ==
    ASSUME Typed, UNCHANGED vars
    PROVE  Typed'
<1>1. StopOK'
  BY StopFrame DEF vars, mainVars, taskVars, Typed, Doomed
<1> QED
  BY <1>1, Frames DEF vars, Typed

LEMMA NextTyped == Typed /\ [Next]_vars => Typed'
<1> SUFFICES ASSUME Typed, [Next]_vars PROVE Typed'
  OBVIOUS
<1>1. CASE Handler
  BY <1>1, OpenTyped, DeliverTyped, OversizedTyped, CloseTyped, ReconfigureTyped,
     ShutdownTyped DEF Handler
<1>2. CASE MainStep
  BY <1>2, OpenAfterEvictionTyped, BeginStopTyped, EndStopTyped, SendReplyTyped,
     ConnectionEndTyped DEF MainStep
<1>3. CASE Abandon
  BY <1>3, ConnectionEndTyped
<1>4. CASE UNCHANGED vars \/ Terminated
  BY <1>4, StutterTyped DEF Terminated
<1> QED
  BY <1>1, <1>2, <1>3, <1>4, TaskStepTyped, AskStepTyped, WriterTyped DEF Next

LEMMA AlwaysTyped == Spec => []Typed
<1> QED
  BY InitTyped, NextTyped, PTL DEF Spec

\* TypeOK holds in every reachable state: the counters never leave the numbers,
\* every handle the main loop waits for is one it took out of the table, and
\* the outbound queue never holds more than its capacity.
THEOREM TypeCorrect == Spec => []TypeOK
BY AlwaysTyped, TypedIsTypeOK, PTL
-----------------------------------------------------------------------------
(***************************************************************************)
(* The session table: what it holds is current and within the limits, and  *)
(* no task is lost.                                                        *)
(***************************************************************************)

\* Ids are handed out in order: the table holds none that is still to come.
Numbered == \A s \in Sid : table[s] <= next_id

FitsFor(x) ==
    /\ Admits(admission, x.cred)
    /\ x.alias \in DOMAIN backends
    /\ x.entry = backends[x.alias]
    /\ table[x.sid] = 0
    /\ Cardinality(LiveOn(x.alias)) < Cap(x.entry)
    /\ Exclusive(x.entry) => LiveOn(x.alias) = {}

TableInv == Typed /\ Numbered /\ TableCurrent /\ WithinCap /\ OpeningStillFits

\* A step that may take entries out of the table and drop a pending open, and
\* does nothing else to what the invariant speaks of.
Shrinks ==
    /\ UNCHANGED <<backends, admission, next_id, session>>
    /\ opening' \in {opening, NoFrame}
    /\ \A s \in Sid : table'[s] \in {0, table[s]}

LEMMA CapNat == \A e \in Entry : Cap(e) \in Nat
BY RelayAssumption DEF Cap, Entry

LEMMA LiveFinite == \A a : IsFiniteSet(LiveOn(a)) /\ Cardinality(LiveOn(a)) \in Nat
<1> SUFFICES ASSUME NEW a
             PROVE  IsFiniteSet(LiveOn(a)) /\ Cardinality(LiveOn(a)) \in Nat
  OBVIOUS
<1>1. LiveOn(a) \in SUBSET Sid /\ IsFiniteSet(Sid)
  BY RelayAssumption DEF LiveOn
<1> QED
  BY <1>1, FS_Subset, FS_CardinalityType

LEMMA LiveFinitePrime ==
    \A a : IsFiniteSet(LiveOn(a)') /\ Cardinality(LiveOn(a)') \in Nat
<1> SUFFICES ASSUME NEW a
             PROVE  IsFiniteSet(LiveOn(a)') /\ Cardinality(LiveOn(a)') \in Nat
  OBVIOUS
<1>1. LiveOn(a)' \in SUBSET Sid /\ IsFiniteSet(Sid)
  BY RelayAssumption DEF LiveOn
<1> QED
  BY <1>1, FS_Subset, FS_CardinalityType

LEMMA SmallerLive ==
    ASSUME NEW a, LiveOn(a)' \subseteq LiveOn(a)
    PROVE  Cardinality(LiveOn(a)') <= Cardinality(LiveOn(a))
<1>1. LiveOn(a)' \in SUBSET LiveOn(a)
  OBVIOUS
<1> QED
  BY <1>1, LiveFinite, FS_Subset

LEMMA InitTable == Init => TableInv
<1> SUFFICES ASSUME Init PROVE TableInv
  OBVIOUS
<1>1. Typed
  BY InitTyped
<1>2. Numbered /\ TableCurrent /\ OpeningStillFits
  BY RelayAssumption DEF Init, Numbered, TableCurrent, OpeningStillFits
<1>3. WithinCap
  <2> SUFFICES ASSUME NEW a \in DOMAIN backends
               PROVE  /\ Cardinality(LiveOn(a)) <= Cap(backends[a])
                      /\ Exclusive(backends[a]) => Cardinality(LiveOn(a)) <= 1
    BY DEF WithinCap
  <2>1. LiveOn(a) = {}
    BY DEF Init, LiveOn
  <2>2. Cap(backends[a]) \in Nat
    BY <1>1, TablesTyped, CapNat DEF Typed, TableOK
  <2> QED
    BY <2>1, <2>2, FS_EmptySet
<1> QED
  BY <1>1, <1>2, <1>3 DEF TableInv

LEMMA ShrinkKeepsTable ==
    ASSUME TableInv, Typed', Shrinks
    PROVE  TableInv'
<1>1. Numbered'
  BY DEF TableInv, Typed, TableOK, Numbered, Shrinks
<1>2. TableCurrent'
  BY DEF TableInv, TableCurrent, Shrinks
<1>3. \A a : LiveOn(a)' \subseteq LiveOn(a)
  BY DEF Shrinks, LiveOn
<1>4. WithinCap'
  <2> SUFFICES ASSUME NEW a \in DOMAIN backends
               PROVE  /\ Cardinality(LiveOn(a)') <= Cap(backends[a])
                      /\ Exclusive(backends[a]) => Cardinality(LiveOn(a)') <= 1
    BY DEF WithinCap, Shrinks
  <2>1. Cardinality(LiveOn(a)') <= Cardinality(LiveOn(a))
    BY <1>3, SmallerLive
  <2>2. Cap(backends[a]) \in Nat
    BY TablesTyped, CapNat DEF TableInv, Typed, TableOK
  <2> QED
    BY <2>1, <2>2, LiveFinite, LiveFinitePrime DEF TableInv, WithinCap
<1>5. OpeningStillFits'
  <2> SUFFICES ASSUME opening' # NoFrame PROVE OpeningStillFits'
    BY DEF OpeningStillFits
  <2>1. PICK x \in Session : x = opening /\ x = opening' /\ x # NoFrame
    BY DEF Shrinks, TableInv, Typed, MainOK
  <2>2. FitsFor(x)
    BY <2>1 DEF TableInv, OpeningStillFits, FitsFor
  <2>3. /\ Admits(admission', x.cred)
        /\ x.alias \in DOMAIN backends' /\ x.entry = backends'[x.alias]
        /\ table'[x.sid] = 0
    BY <2>2 DEF FitsFor, Shrinks, Session
  <2>4. Cardinality(LiveOn(x.alias)') < Cap(x.entry)
    <3>1. Cardinality(LiveOn(x.alias)) < Cap(x.entry)
      BY <2>2 DEF FitsFor
    <3>2. Cardinality(LiveOn(x.alias)') <= Cardinality(LiveOn(x.alias))
      BY <1>3, SmallerLive
    <3>3. Cap(x.entry) \in Nat
      BY CapNat DEF Session
    <3> QED
      BY <3>1, <3>2, <3>3, LiveFinite, LiveFinitePrime
  <2>5. Exclusive(x.entry) => LiveOn(x.alias)' = {}
    BY <1>3, <2>2 DEF FitsFor
  <2>6. FitsFor(x)'
    BY <2>3, <2>4, <2>5 DEF FitsFor, Admits
  <2> QED
    BY <2>1, <2>6 DEF OpeningStillFits, FitsFor
<1> QED
  BY <1>1, <1>2, <1>4, <1>5 DEF TableInv
LEMMA SpawnKeepsTable ==
    ASSUME TableInv, Typed', NEW x \in Session, FitsFor(x), Spawn(x), opening' = NoFrame
    PROVE  TableInv'
<1> DEFINE n == next_id'
<1>1. /\ n \in Ids /\ n = next_id + 1 /\ n # 0 /\ x.sid \in Sid
      /\ \A s \in Sid : table[s] # n /\ table[s] <= n
  BY RelayAssumption DEF TableInv, Typed, TableOK, Numbered, Spawn, Session, Ids
<1>2. /\ table'[x.sid] = n /\ session'[n] = x
      /\ \A s \in Sid \ {x.sid} : table'[s] = table[s]
      /\ \A s \in Sid : session'[table[s]] = session[table[s]]
      /\ UNCHANGED <<backends, admission>>
  BY <1>1 DEF TableInv, Typed, TableOK, Spawn
<1>3. Numbered'
  BY <1>1, <1>2 DEF TableInv, Typed, TableOK, Numbered, Ids
<1>4. TableCurrent'
  <2> SUFFICES ASSUME NEW s \in Sid, table'[s] # 0
               PROVE  LET y == session'[table'[s]]
                      IN /\ y.sid = s
                         /\ y.alias \in DOMAIN backends /\ y.entry = backends[y.alias]
                         /\ Admits(admission, y.cred)
    BY <1>2 DEF TableCurrent, Admits
  <2>1. CASE s = x.sid
    BY <1>2, <2>1 DEF FitsFor
  <2>2. CASE s # x.sid
    BY <1>2, <2>2 DEF TableInv, TableCurrent
  <2> QED
    BY <2>1, <2>2
<1>5. ASSUME NEW a PROVE LiveOn(a)' \subseteq LiveOn(a) \cup {x.sid}
  BY <1>2 DEF LiveOn
<1>6. ASSUME NEW a, a # x.alias PROVE LiveOn(a)' \subseteq LiveOn(a)
  BY <1>2, <1>6 DEF LiveOn
<1>7. WithinCap'
  <2> SUFFICES ASSUME NEW a \in DOMAIN backends
               PROVE  /\ Cardinality(LiveOn(a)') <= Cap(backends[a])
                      /\ Exclusive(backends[a]) => Cardinality(LiveOn(a)') <= 1
    BY <1>2 DEF WithinCap
  <2>0. Cap(backends[a]) \in Nat
    BY TablesTyped, CapNat DEF TableInv, Typed, TableOK
  <2>1. CASE a # x.alias
    <3>1. Cardinality(LiveOn(a)') <= Cardinality(LiveOn(a))
      BY <1>6, <2>1, SmallerLive
    <3> QED
      BY <2>0, <3>1, LiveFinite, LiveFinitePrime DEF TableInv, WithinCap
  <2>2. CASE a = x.alias
    <3>1. /\ IsFiniteSet(LiveOn(a) \cup {x.sid})
          /\ Cardinality(LiveOn(a) \cup {x.sid}) <= Cardinality(LiveOn(a)) + 1
      BY LiveFinite, FS_AddElement
    <3>2. LiveOn(a)' \in SUBSET (LiveOn(a) \cup {x.sid})
      BY <1>5
    <3>3. Cardinality(LiveOn(a)') <= Cardinality(LiveOn(a) \cup {x.sid})
      BY <3>1, <3>2, FS_Subset
    <3>4. Cardinality(LiveOn(a) \cup {x.sid}) \in Nat
      BY <3>1, FS_CardinalityType
    <3>5. Cardinality(LiveOn(a)') <= Cardinality(LiveOn(a)) + 1
      BY <3>1, <3>3, <3>4, LiveFinite, LiveFinitePrime
    <3>6. Cardinality(LiveOn(a)) < Cap(backends[a])
      BY <2>2 DEF FitsFor
    <3>7. Exclusive(backends[a]) => Cardinality(LiveOn(a)) = 0
      BY <2>2, FS_EmptySet DEF FitsFor
    <3> QED
      BY <2>0, <3>5, <3>6, <3>7, LiveFinite, LiveFinitePrime
  <2> QED
    BY <2>1, <2>2
<1>8. OpeningStillFits'
  BY DEF OpeningStillFits
<1> QED
  BY <1>3, <1>4, <1>7, <1>8 DEF TableInv

LEMMA AdmittedFits ==
    ASSUME TableInv, NEW s \in Sid, NEW a \in Alias, NEW c \in Cred \cup {NoCred},
           table[s] = 0, Refusal(a, c) = "admitted", ~AtCap(a)
    PROVE  LET x == [sid |-> s, alias |-> a, cred |-> c, entry |-> backends[a]]
           IN x \in Session /\ FitsFor(x)
<1>1. /\ a \in DOMAIN backends /\ Admits(admission, c)
      /\ Exclusive(backends[a]) => LiveOn(a) = {}
  BY DEF Refusal
<1>2. backends[a] \in Entry
  BY <1>1, TablesTyped DEF TableInv, Typed, TableOK
<1>3. Cardinality(LiveOn(a)) < Cap(backends[a])
  BY <1>2, CapNat, LiveFinite DEF AtCap
<1> QED
  BY <1>1, <1>2, <1>3 DEF Session, FitsFor

LEMMA EvictKeepsTable ==
    ASSUME TableInv, Typed', NEW s \in Sid, NEW a \in Alias, NEW c \in Cred \cup {NoCred},
           OpenEvicting(s, a, c)
    PROVE  TableInv'
<1> DEFINE x == [sid |-> s, alias |-> a, cred |-> c, entry |-> backends[a]]
<1>1. /\ a \in DOMAIN backends /\ Admits(admission, c) /\ table[s] = 0
      /\ Exclusive(backends[a]) => LiveOn(a) = {}
      /\ opening' = x /\ UNCHANGED <<backends, admission, next_id, session>>
  BY DEF OpenEvicting, Refusal
<1>2. backends[a] \in Entry /\ Cap(backends[a]) \in Nat
  BY <1>1, TablesTyped, CapNat DEF TableInv, Typed, TableOK
<1>3. PICK victim \in LiveOn(a) : table' = [table EXCEPT ![victim] = 0]
  BY DEF OpenEvicting, Evictable, Doom
<1>4. victim \in Sid /\ \A q \in Sid : table'[q] = IF q = victim THEN 0 ELSE table[q]
  BY <1>3 DEF LiveOn, TableInv, Typed, TableOK
<1>5. Numbered' /\ TableCurrent'
  BY <1>1, <1>4 DEF TableInv, Typed, TableOK, Numbered, TableCurrent, Admits
<1>6. \A b : LiveOn(b)' \subseteq LiveOn(b)
  BY <1>1, <1>4 DEF LiveOn
<1>7. WithinCap'
  <2> SUFFICES ASSUME NEW b \in DOMAIN backends
               PROVE  /\ Cardinality(LiveOn(b)') <= Cap(backends[b])
                      /\ Exclusive(backends[b]) => Cardinality(LiveOn(b)') <= 1
    BY <1>1 DEF WithinCap
  <2>1. Cardinality(LiveOn(b)') <= Cardinality(LiveOn(b))
    BY <1>6, SmallerLive
  <2>2. Cap(backends[b]) \in Nat
    BY TablesTyped, CapNat DEF TableInv, Typed, TableOK
  <2> QED
    BY <2>1, <2>2, LiveFinite, LiveFinitePrime DEF TableInv, WithinCap
<1>8. Cardinality(LiveOn(a)') < Cap(backends[a])
  <2>1. LiveOn(a)' \in SUBSET (LiveOn(a) \ {victim})
    BY <1>1, <1>4 DEF LiveOn
  <2>2. /\ IsFiniteSet(LiveOn(a) \ {victim})
        /\ Cardinality(LiveOn(a) \ {victim}) = Cardinality(LiveOn(a)) - 1
    BY LiveFinite, FS_RemoveElement
  <2>3. Cardinality(LiveOn(a)') <= Cardinality(LiveOn(a) \ {victim})
    BY <2>1, <2>2, FS_Subset
  <2>4. Cardinality(LiveOn(a)) <= Cap(backends[a])
    BY <1>1 DEF TableInv, WithinCap
  <2> QED
    BY <1>2, <2>2, <2>3, <2>4, LiveFinite, LiveFinitePrime
<1>9. OpeningStillFits'
  <2>0. PICK y : y = x
    OBVIOUS
  <2>1. y.sid = s /\ y.alias = a /\ y.cred = c /\ y.entry = backends[a]
    BY <2>0
  <2>2. Exclusive(backends[a]) => LiveOn(a)' = {}
    BY <1>1, <1>6
  <2>3. table'[s] = 0
    BY <1>1, <1>4
  <2>4. FitsFor(y)'
    BY <1>1, <1>8, <2>1, <2>2, <2>3 DEF FitsFor, Admits
  <2> QED
    BY <1>1, <2>0, <2>4 DEF OpeningStillFits, FitsFor
<1> QED
  BY <1>5, <1>7, <1>9 DEF TableInv

LEMMA ReconfigureKeepsTable ==
    ASSUME TableInv, Typed', NEW next \in Tables, NEW adm \in Admissions,
           reconfigure(next, adm)
    PROVE  TableInv'
<1>1. /\ backends' = next /\ admission' = adm /\ opening' = NoFrame
      /\ UNCHANGED <<next_id, session>>
      /\ \A s \in Sid : /\ table'[s] \in {0, table[s]}
                        /\ table'[s] # 0 =>
                               ReloadFate(session[table[s]], next, adm) = "none"
  BY DEF reconfigure, MainIdle, TableInv, Typed, TableOK
<1>2. Numbered'
  BY <1>1 DEF TableInv, Typed, TableOK, Numbered
<1>3. ASSUME NEW s \in Sid, table'[s] # 0
      PROVE  LET y == session[table[s]]
             IN /\ table'[s] = table[s] /\ y.sid = s
                /\ y.alias \in DOMAIN next /\ y.entry = next[y.alias]
                /\ backends[y.alias] = next[y.alias] /\ y.alias \in DOMAIN backends
                /\ Admits(adm, y.cred)
  BY <1>1, <1>3 DEF ReloadFate, TableInv, TableCurrent
<1>4. TableCurrent'
  BY <1>1, <1>3 DEF TableCurrent, Admits
<1>5. WithinCap'
  <2> SUFFICES ASSUME NEW a \in DOMAIN next
               PROVE  /\ Cardinality(LiveOn(a)') <= Cap(next[a])
                      /\ Exclusive(next[a]) => Cardinality(LiveOn(a)') <= 1
    BY <1>1 DEF WithinCap
  <2>1. Cap(next[a]) \in Nat
    BY TablesTyped, CapNat
  <2>2. CASE LiveOn(a)' = {}
    BY <2>1, <2>2, FS_EmptySet
  <2>3. CASE LiveOn(a)' # {}
    <3>1. a \in DOMAIN backends /\ backends[a] = next[a]
      BY <1>1, <1>3, <2>3 DEF LiveOn
    <3>2. LiveOn(a)' \subseteq LiveOn(a)
      BY <1>1 DEF LiveOn
    <3>3. Cardinality(LiveOn(a)') <= Cardinality(LiveOn(a))
      BY <3>2, SmallerLive
    <3> QED
      BY <2>1, <3>1, <3>3, LiveFinite, LiveFinitePrime DEF TableInv, WithinCap
  <2> QED
    BY <2>2, <2>3
<1>6. OpeningStillFits'
  BY <1>1 DEF OpeningStillFits
<1> QED
  BY <1>2, <1>4, <1>5, <1>6 DEF TableInv

\* The steps that only take entries out, or leave the table alone.
LEMMA OtherStepsShrink ==
    ASSUME TableInv,
           \/ \E s \in Sid, m \in Message : deliver(s, m)
           \/ \E s \in Sid : oversized(s) \/ close(s)
           \/ shutdown \/ (\E i \in Ids : BeginStop(i)) \/ EndStop \/ StopTimeout
           \/ SendReply \/ Closed \/ Abandon
           \/ \E i \in Ids : TaskStep(i) \/ BackendStep(i)
           \/ \E k \in asks : AskStep(k)
           \/ WriterSends \/ WriterDies \/ UNCHANGED vars
    PROVE  Shrinks
<1> USE DEF Shrinks, tableVars, mainVars, vars
<1>t. table \in [Sid -> 0..MaxOpens]
  BY DEF TableInv, Typed, TableOK
<1>d. ASSUME NEW s, NEW w, Doom(s, w) PROVE \A q \in Sid : table'[q] \in {0, table[q]}
  BY <1>t, <1>d DEF Doom
<1>1. ASSUME NEW s \in Sid, NEW m \in Message, deliver(s, m) PROVE Shrinks
  BY <1>d, <1>1 DEF deliver, DeliverUnknown, DeliverForward, TrySend, DeliverRefused,
     DeliverConfirm, DeliverNoSlot
<1>2. ASSUME NEW s \in Sid, oversized(s) \/ close(s) PROVE Shrinks
  BY <1>d, <1>2 DEF oversized, close
<1>3. CASE shutdown \/ Closed \/ Abandon
  BY <1>3 DEF shutdown, Closed, Abandon
<1>4. CASE (\E i \in Ids : BeginStop(i)) \/ EndStop \/ StopTimeout \/ SendReply
  BY <1>4 DEF BeginStop, EndStop, StopTimeout, Stopped, SendReply
<1>5. ASSUME NEW i \in Ids, TaskStep(i) \/ BackendStep(i) PROVE Shrinks
  <2>1. CASE RemoveSelf(i)
    BY <1>t, <2>1 DEF RemoveSelf
  <2> QED
    BY <1>5, <2>1 DEF TaskStep, BackendStep, TakeMessage, EmitSent, EndSilently, EndItself,
       Leave, Killed, Report, Reap, Answer, Stray
<1>6. ASSUME NEW k \in asks, AskStep(k) PROVE Shrinks
  BY <1>6 DEF AskStep, OwnerAnswers, ReleaseAllowed, ForwardAllowed, ReleaseDenied,
     ReplyDenied
<1>7. CASE WriterSends \/ WriterDies \/ UNCHANGED vars
  BY <1>7 DEF WriterSends, WriterDies
<1> HIDE DEF Shrinks, vars
<1> QED
  BY <1>1, <1>2, <1>3, <1>4, <1>5, <1>6, <1>7
LEMMA NextTable == TableInv /\ [Next]_vars => TableInv'
<1> SUFFICES ASSUME TableInv, [Next]_vars PROVE TableInv'
  OBVIOUS
<1>0. Typed'
  BY NextTyped DEF TableInv
<1>1. ASSUME NEW s \in Sid, NEW a \in Alias, NEW c \in Cred \cup {NoCred}, open(s, a, c)
      PROVE  TableInv'
  <2>1. CASE OpenDuplicate(s) \/ OpenRefused(s, a, c)
    <3>1. Shrinks
      BY <2>1 DEF OpenDuplicate, OpenRefused, Doom, Shrinks, tableVars, TableInv, Typed,
         TableOK
    <3> QED
      BY <1>0, <3>1, ShrinkKeepsTable
  <2>2. CASE OpenEvicting(s, a, c)
    BY <1>0, <2>2, EvictKeepsTable
  <2>3. CASE OpenAdmitted(s, a, c)
    <3>1. opening' = NoFrame
      BY <1>1, <2>3 DEF open, MainIdle, OpenAdmitted, mainVars
    <3> QED
      BY <1>0, <2>3, <3>1, AdmittedFits, SpawnKeepsTable DEF OpenAdmitted
  <2> QED
    BY <1>1, <2>1, <2>2, <2>3 DEF open
<1>2. CASE OpenAfterEviction
  <2>1. opening \in Session /\ FitsFor(opening)
    BY <1>2 DEF OpenAfterEviction, TableInv, Typed, MainOK, OpeningStillFits, FitsFor
  <2> QED
    BY <1>0, <1>2, <2>1, SpawnKeepsTable DEF OpenAfterEviction
<1>3. ASSUME NEW next \in Tables, NEW adm \in Admissions, reconfigure(next, adm)
      PROVE  TableInv'
  BY <1>0, <1>3, ReconfigureKeepsTable
<1> QED
  BY <1>0, <1>1, <1>2, <1>3, OtherStepsShrink, ShrinkKeepsTable
     DEF Next, Handler, MainStep, Terminated

LEMMA AlwaysTable == Spec => []TableInv
BY InitTable, NextTable, PTL DEF Spec

\* Whatever the gateway asks for and however often the config is reloaded, every
\* session in the table runs the definition the config holds, for a credential
\* that is approved (Relay::open, Relay::reconfigure).
THEOREM AlwaysCurrent == Spec => []TableCurrent
<1>1. TableInv => TableCurrent
  BY DEF TableInv
<1> QED
  BY <1>1, AlwaysTable, PTL

\* No alias ever has more sessions than its cap, and an exclusive stdio server
\* never more than one (Relay::open).
THEOREM AlwaysWithinCap == Spec => []WithinCap
<1>1. TableInv => WithinCap
  BY DEF TableInv
<1> QED
  BY <1>1, AlwaysTable, PTL

\* What an open checked before it awaits the end of its victim is still true when
\* it spawns its session (Relay::open).
THEOREM OpeningAlwaysFits == Spec => []OpeningStillFits
<1>1. TableInv => OpeningStillFits
  BY DEF TableInv
<1> QED
  BY <1>1, AlwaysTable, PTL

-----------------------------------------------------------------------------
(* Where the tasks are.  A task whose run still holds its receiver is in the *)
(* table, a handle the main loop has yet to stop, or told to end with its    *)
(* connection; as long as such a handle is left, no session has its sid.     *)

Kept ==
    /\ \A i \in Ids : Receiving(i) =>
           InTable(i) \/ i \in Doomed \/ (conn = "closed" /\ i \in signalled)
    /\ conn # "up" => \A s \in Sid : table[s] = 0
    /\ \A i \in Doomed : i <= next_id /\ table[session[i].sid] = 0
    /\ \A i \in Ids : i <= next_id => session[i] \in Session
    /\ \A i \in Ids : i <= next_id <=> task[i] # "unborn"

\* What every step but the spawning of a session does to them.
HoldsOn ==
    /\ UNCHANGED <<next_id, session>>
    /\ signalled \subseteq signalled'
    /\ \A s \in Sid : table'[s] \in {0, table[s]}
    /\ conn' # "up" => \A s \in Sid : table'[s] = 0
    /\ conn = "closed" => conn' = "closed"
    /\ \A i \in Ids : task[i] = "unborn" <=> task'[i] = "unborn"
    /\ \A i \in Ids : task'[i] = "running" => task[i] = "running"
    /\ \A i \in Ids : Receiving(i)' =>
           /\ Receiving(i)
           /\ InTable(i) \/ i \in Doomed =>
                 \/ InTable(i)' \/ i \in Doomed'
                 \/ conn' = "closed" /\ i \in signalled'
    /\ \A i \in Doomed' : i \in Doomed \/ (i <= next_id /\ table'[session[i].sid] = 0)

LEMMA HoldKept ==
    ASSUME Typed, Kept, HoldsOn
    PROVE  Kept'
<1>1. \A i \in Ids : Receiving(i)' =>
          InTable(i)' \/ i \in Doomed' \/ (conn' = "closed" /\ i \in signalled')
  BY DEF Kept, HoldsOn
<1>2. conn' # "up" => \A s \in Sid : table'[s] = 0
  BY DEF HoldsOn
<1>3. \A i \in Doomed' : i <= next_id' /\ table'[session'[i].sid] = 0
  <2> SUFFICES ASSUME NEW i \in Doomed, i \in Doomed'
               PROVE  i <= next_id /\ table'[session[i].sid] = 0
    BY DEF HoldsOn
  <2>1. i <= next_id /\ table[session[i].sid] = 0 /\ i \in Ids
    BY DEF Kept, Doomed
  <2>2. session[i].sid \in Sid
    BY <2>1 DEF Kept, Session
  <2> QED
    BY <2>1, <2>2 DEF HoldsOn
<1>4. \A i \in Ids : i <= next_id' => session'[i] \in Session
  BY DEF Kept, HoldsOn
<1>5. \A i \in Ids : i <= next_id' <=> task'[i] # "unborn"
  BY DEF Kept, HoldsOn
<1> QED
  BY <1>1, <1>2, <1>3, <1>4, <1>5 DEF Kept

\* Steps that leave the table and the main loop's handles alone.
LEMMA StillHeld ==
    ASSUME Kept, UNCHANGED <<table, fate, next_id, session, conn>>,
           signalled \subseteq signalled',
           \A i \in Ids : /\ task[i] = "unborn" <=> task'[i] = "unborn"
                          /\ task'[i] = "running" => task[i] = "running"
                          /\ Receiving(i)' => Receiving(i)
    PROVE  HoldsOn
BY DEF Kept, HoldsOn, InTable, Doomed

LEMMA DoomHolds ==
    ASSUME TableInv, Kept, NEW s \in Sid, table[s] # 0, NEW w \in Why, Doom(s, w),
           UNCHANGED <<next_id, session, task, signalled, conn>>
    PROVE  HoldsOn
<1>1. /\ table[s] \in Ids /\ table[s] <= next_id /\ session[table[s]].sid = s
      /\ \A q \in Sid : table'[q] = IF q = s THEN 0 ELSE table[q]
      /\ \A i \in Ids : fate'[i] = IF i = table[s] THEN w ELSE fate[i]
  BY DEF TableInv, Typed, TableOK, MainOK, FateOK, Numbered, TableCurrent, Doom, Ids
<1>2. w # "none"
  BY DEF Why
<1>3. \A i \in Doomed' : i \in Doomed \/ (i <= next_id /\ table'[session[i].sid] = 0)
  BY <1>1 DEF Doomed
<1>4. \A i \in Ids : InTable(i) \/ i \in Doomed => InTable(i)' \/ i \in Doomed'
  BY <1>1, <1>2 DEF Doomed, InTable
<1> QED
  BY <1>1, <1>3, <1>4 DEF Kept, HoldsOn, Receiving

LEMMA DeliverHolds ==
    ASSUME TableInv, Kept, NEW s \in Sid, NEW m \in Message, deliver(s, m)
    PROVE  HoldsOn
<1>1. UNCHANGED <<task, signalled, next_id, session, conn>>
  BY DEF deliver, wireVars
<1>2. CASE UNCHANGED <<table, fate>>
  BY <1>1, <1>2, StillHeld DEF Receiving
<1>3. CASE table[s] # 0 /\ Doom(session[table[s]].sid, "overloaded")
  <2>1. session[table[s]].sid = s /\ "overloaded" \in Why
    BY <1>3 DEF TableInv, TableCurrent, Why
  <2> QED
    BY <1>1, <1>3, <2>1, DoomHolds
<1> QED
  BY <1>2, <1>3 DEF deliver, DeliverUnknown, DeliverForward, TrySend, DeliverRefused,
     DeliverConfirm, DeliverNoSlot

LEMMA ReconfigureHolds ==
    ASSUME TableInv, Kept, NEW next \in Tables, NEW adm \in Admissions,
           reconfigure(next, adm)
    PROVE  HoldsOn
<1>1. /\ UNCHANGED <<next_id, session, task, signalled, conn>> /\ Doomed = {}
      /\ conn = "up"
  BY DEF reconfigure, taskVars, wireVars, MainIdle
<1>2. \A q \in Sid : table'[q] \in {0, table[q]}
  BY DEF reconfigure
<1>3. ASSUME NEW i \in Ids, InTable(i) PROVE InTable(i)' \/ i \in Doomed'
  <2>1. PICK s \in Sid : table[s] = i /\ i # 0
    BY <1>3 DEF InTable
  <2>2. CASE ReloadFate(session[i], next, adm) = "none"
    BY <2>1, <2>2 DEF reconfigure, InTable
  <2>3. CASE ReloadFate(session[i], next, adm) # "none"
    BY <2>1, <2>3 DEF reconfigure, Doomed
  <2> QED
    BY <2>2, <2>3
<1>4. ASSUME NEW i \in Doomed' PROVE i <= next_id /\ table'[session[i].sid] = 0
  <2>1. i \in Ids /\ fate'[i] # "none" /\ fate[i] = "none"
    BY <1>1, <1>4 DEF Doomed
  <2>2. PICK s \in Sid : table[s] = i /\ table[s] # 0 /\ table'[s] = 0
    BY <2>1 DEF reconfigure
  <2>3. i <= next_id /\ session[i].sid = s
    BY <2>2 DEF TableInv, Numbered, TableCurrent
  <2> QED
    BY <2>2, <2>3
<1> QED
  BY <1>1, <1>2, <1>3, <1>4 DEF HoldsOn, Receiving

LEMMA ShutdownHolds ==
    ASSUME TableInv, Kept, shutdown
    PROVE  HoldsOn
<1>1. UNCHANGED <<next_id, session, task, signalled>> /\ Doomed = {} /\ conn = "up"
  BY DEF shutdown, taskVars, MainIdle
<1>2. \A s \in Sid : table'[s] = 0
  BY DEF shutdown
<1>3. \A i \in Ids : InTable(i) => i \in Doomed'
  BY DEF shutdown, Doomed
<1>4. ASSUME NEW i \in Doomed' PROVE i <= next_id /\ table'[session[i].sid] = 0
  <2>1. i \in Ids /\ InTable(i)
    BY <1>1, <1>4 DEF Doomed, shutdown
  <2>2. PICK s \in Sid : table[s] = i
    BY <2>1 DEF InTable
  <2>3. i <= next_id /\ session[i].sid = s
    BY <2>1, <2>2 DEF TableInv, Numbered, TableCurrent, InTable
  <2> QED
    BY <1>2, <2>3
<1> QED
  BY <1>1, <1>2, <1>3, <1>4 DEF HoldsOn, Receiving

LEMMA EndStopHolds ==
    ASSUME TableInv, Kept, EndStop \/ StopTimeout
    PROVE  HoldsOn
<1>1. /\ stopping \in Doomed /\ stopping \in Ids
      /\ UNCHANGED <<table, signalled, next_id, session, conn>>
      /\ \A i \in Ids : fate'[i] = IF i = stopping THEN "none" ELSE fate[i]
  BY DEF EndStop, StopTimeout, Stopped, TableInv, Typed, StopOK, Doomed, tableVars,
     wireVars, MainOK, FateOK
<1>2. \A i \in Ids : task'[i] = task[i]
                      \/ (i = stopping /\ task'[i] \in {"aborted", "dying"})
  BY DEF EndStop, StopTimeout, AbortAt, TableInv, Typed, TaskOK
<1>3. task'[stopping] \in {"over", "aborted", "dying"}
  BY <1>1 DEF EndStop, StopTimeout, AbortAt, TableInv, Typed, TaskOK
<1>4. task[stopping] # "unborn"
  <2>1. stopping <= next_id
    BY <1>1 DEF Kept
  <2> QED
    BY <1>1, <2>1 DEF Kept
<1>5. \A i \in Doomed' : i \in Doomed
  BY <1>1 DEF Doomed
<1>6. \A i \in Ids \ {stopping} : i \in Doomed => i \in Doomed'
  BY <1>1 DEF Doomed
<1> QED
  BY <1>1, <1>2, <1>3, <1>4, <1>5, <1>6 DEF Kept, HoldsOn, Receiving, InTable

LEMMA ConnectionEndHolds ==
    ASSUME TableInv, Kept, Closed \/ Abandon
    PROVE  HoldsOn
<1>1. CASE Closed
  <2>1. /\ UNCHANGED <<next_id, session, table, task, signalled, fate>>
        /\ conn = "closing" /\ conn' = "closed" /\ Doomed = {}
    BY <1>1 DEF Closed, tableVars, taskVars, mainVars
  <2>2. \A s \in Sid : table[s] = 0
    BY <2>1 DEF Kept
  <2>3. \A i \in Ids : ~InTable(i)
    BY <2>2 DEF InTable
  <2> QED
    BY <2>1, <2>2, <2>3 DEF HoldsOn, Receiving, Doomed, Kept
<1>2. CASE Abandon
  <2>1. /\ UNCHANGED <<next_id, session>> /\ conn' = "closed"
        /\ signalled' = signalled \cup Doomed \cup {i \in Ids : InTable(i)}
        /\ \A s \in Sid : table'[s] = 0
        /\ Doomed' = {}
    BY <1>2 DEF Abandon, Doomed
  <2>2. \A i \in Ids : task'[i] = task[i]
                        \/ (InTable(i) /\ task'[i] \in {"aborted", "dying"})
    BY <1>2 DEF Abandon, AbortAt
  <2>3. \A i \in Ids : InTable(i) => task[i] # "unborn"
    BY DEF Kept, InTable, TableInv, Numbered
  <2>4. \A i \in Ids : /\ task[i] = "unborn" <=> task'[i] = "unborn"
                       /\ task'[i] = "running" => task[i] = "running"
                       /\ Receiving(i)' => Receiving(i)
    BY <2>2, <2>3 DEF Receiving
  <2> QED
    BY <2>1, <2>4 DEF HoldsOn
<1> QED
  BY <1>1, <1>2

LEMMA TaskStepHolds ==
    ASSUME TableInv, Kept, NEW i \in Ids, TaskStep(i) \/ BackendStep(i)
    PROVE  HoldsOn
<1> USE DEF TableInv, Typed, TaskOK, mainVars, tableVars, wireVars, Receiving
<1>1. CASE \/ TakeMessage(i) \/ Stray(i)
           \/ \E r \in Rid \cup Strays : EmitSent(i, r)
           \/ \E r \in Rid : Answer(i, r)
  BY <1>1, StillHeld DEF TakeMessage, EmitSent, Answer, Stray
<1>2. CASE EndSilently(i) \/ EndItself(i) \/ Killed(i) \/ Report(i) \/ Reap(i)
  <2>1. UNCHANGED <<table, fate, signalled, next_id, session, conn>>
    BY <1>2 DEF EndSilently, EndItself, Leave, Killed, Report, Reap
  <2>2. \A j \in Ids : /\ task[j] = "unborn" <=> task'[j] = "unborn"
                       /\ task'[j] = "running" => task[j] = "running"
                       /\ Receiving(j)' => Receiving(j)
    BY <1>2 DEF EndSilently, EndItself, Leave, Killed, Report, Reap
  <2> QED
    BY <2>1, <2>2, StillHeld
<1>3. CASE RemoveSelf(i)
  <2>1. /\ UNCHANGED <<fate, signalled, next_id, session, conn>>
        /\ task[i] \in {"ended", "dying"} /\ task'[i] \in {"reporting", "dropped"}
        /\ \A j \in Ids \ {i} : task'[j] = task[j]
    BY <1>3 DEF RemoveSelf
  <2>2. \A s \in Sid : table'[s] = IF s = session[i].sid /\ table[s] = i THEN 0
                                   ELSE table[s]
    BY <1>3 DEF RemoveSelf, TableOK
  <2>3. \A j \in Ids \ {i} : InTable(j) => InTable(j)'
    BY <2>2 DEF InTable
  <2>4. Doomed' = Doomed
    BY <2>1 DEF Doomed
  <2> QED
    BY <2>1, <2>2, <2>3, <2>4 DEF Kept, HoldsOn
<1> QED
  BY <1>1, <1>2, <1>3 DEF TaskStep, BackendStep

LEMMA OthersHold ==
    ASSUME Kept,
           \/ \E i \in Ids : BeginStop(i)
           \/ SendReply \/ WriterSends \/ WriterDies \/ UNCHANGED vars
           \/ \E k \in asks : AskStep(k)
    PROVE  HoldsOn
<1>1. /\ UNCHANGED <<table, fate, next_id, session, conn, task>>
      /\ signalled \subseteq signalled'
  BY DEF BeginStop, SendReply, AskStep, OwnerAnswers, ReleaseAllowed, ForwardAllowed,
     ReleaseDenied, ReplyDenied, WriterSends, WriterDies, vars, tableVars, taskVars,
     mainVars, wireVars
<1> QED
  BY <1>1, StillHeld DEF Receiving

\* The spawning of a session: an open at once, or after its eviction.
Spawns ==
    /\ conn = "up" /\ Doomed = {} /\ reply = NoFrame
    /\ UNCHANGED <<fate, signalled, conn, writer, reply>>
    /\ \E x \in Session : FitsFor(x) /\ Spawn(x)

LEMMA AdmittedSpawns ==
    ASSUME TableInv, NEW s \in Sid, NEW a \in Alias, NEW c \in Cred \cup {NoCred},
           open(s, a, c), OpenAdmitted(s, a, c)
    PROVE  Spawns
BY AdmittedFits DEF open, MainIdle, OpenAdmitted, Spawns, Spawn, mainVars, wireVars

LEMMA EvictionSpawns ==
    ASSUME TableInv, OpenAfterEviction
    PROVE  Spawns
<1>1. opening \in Session /\ FitsFor(opening)
  BY DEF OpenAfterEviction, TableInv, Typed, MainOK, OpeningStillFits, FitsFor
<1> QED
  BY <1>1 DEF OpenAfterEviction, Spawns, Spawn, wireVars

LEMMA OpenSpawnsOrHolds ==
    ASSUME TableInv, Kept, NEW s \in Sid, NEW a \in Alias, NEW c \in Cred \cup {NoCred},
           open(s, a, c)
    PROVE  HoldsOn \/ Spawns
<1>0. conn = "up" /\ Doomed = {} /\ UNCHANGED conn
  BY DEF open, MainIdle, wireVars
<1>1. CASE OpenDuplicate(s) /\ UNCHANGED taskVars
  BY <1>0, <1>1, DoomHolds DEF OpenDuplicate, taskVars, Why
<1>2. CASE OpenRefused(s, a, c) /\ UNCHANGED taskVars
  BY <1>0, <1>2, StillHeld DEF OpenRefused, taskVars, tableVars, Receiving
<1>3. CASE OpenEvicting(s, a, c) /\ UNCHANGED taskVars
  <2>1. PICK victim \in Sid : table[victim] # 0 /\ Doom(victim, "evicted")
    BY <1>3 DEF OpenEvicting, Evictable, LiveOn
  <2> QED
    BY <1>0, <1>3, <2>1, DoomHolds DEF OpenEvicting, taskVars, Why
<1>4. CASE OpenAdmitted(s, a, c)
  BY <1>4, AdmittedSpawns
<1> QED
  BY <1>1, <1>2, <1>3, <1>4 DEF open

LEMMA StepSpawnsOrHolds ==
    ASSUME TableInv, Kept, [Next]_vars
    PROVE  HoldsOn \/ Spawns
<1>1. CASE Handler
  <2>1. ASSUME NEW s \in Sid, oversized(s) PROVE HoldsOn
    <3>1. CASE table[s] # 0 /\ Doom(s, "message_too_large")
      BY <2>1, <3>1, DoomHolds DEF oversized, taskVars, wireVars, Why
    <3>2. CASE UNCHANGED <<table, fate>>
      BY <2>1, <3>2, StillHeld DEF oversized, taskVars, wireVars, Receiving
    <3> QED
      BY <2>1, <3>1, <3>2 DEF oversized
  <2>2. ASSUME NEW s \in Sid, close(s) PROVE HoldsOn
    BY <2>2, DoomHolds DEF close, taskVars, wireVars, Why
  <2> QED
    BY <1>1, <2>1, <2>2, OpenSpawnsOrHolds, DeliverHolds, ReconfigureHolds, ShutdownHolds
       DEF Handler
<1> QED
  BY <1>1, EvictionSpawns, EndStopHolds, ConnectionEndHolds, TaskStepHolds, OthersHold
     DEF Next, MainStep, Terminated

LEMMA SpawnKeeps ==
    ASSUME TableInv, Kept, Spawns
    PROVE  Kept'
<1>1. PICK x \in Session : FitsFor(x) /\ Spawn(x)
  BY DEF Spawns
<1>2. PICK n \in Ids : n = next_id' /\ n = next_id + 1
  BY <1>1, RelayAssumption DEF TableInv, Typed, TableOK, Spawn, Ids
<1>3. /\ x.sid \in Sid /\ n # 0 /\ next_id \in Int
      /\ \A i \in Ids : /\ i \in Int
                        /\ task'[i] = IF i = n THEN "running" ELSE task[i]
                        /\ session'[i] = IF i = n THEN x ELSE session[i]
      /\ \A q \in Sid : table'[q] = IF q = x.sid THEN n ELSE table[q]
      /\ Doomed = {} /\ Doomed' = {} /\ conn = "up" /\ conn' = "up"
  BY <1>1, <1>2, RelayAssumption
     DEF TableInv, Typed, TableOK, TaskOK, Spawn, Session, Spawns, Doomed, Ids
<1>4. \A i \in Ids : InTable(i) => InTable(i)'
  BY <1>1, <1>3 DEF InTable, FitsFor
<1>5. InTable(n)'
  BY <1>3 DEF InTable
<1>6. \A i \in Ids : Receiving(i)' => InTable(i)'
  BY <1>3, <1>4, <1>5 DEF Kept, Receiving
<1>7. \A i \in Ids : i <= next_id' => session'[i] \in Session
  BY <1>2, <1>3 DEF Kept
<1>8. \A i \in Ids : i <= next_id' <=> task'[i] # "unborn"
  BY <1>2, <1>3 DEF Kept
<1> QED
  BY <1>3, <1>6, <1>7, <1>8 DEF Kept

LEMMA InitKept == Init => Kept
<1> SUFFICES ASSUME Init PROVE Kept
  OBVIOUS
<1>1. \A i \in Ids : ~(i <= next_id) /\ task[i] = "unborn" /\ i \notin Doomed
  BY RelayAssumption DEF Init, Ids, Doomed
<1> QED
  BY <1>1 DEF Init, Kept, Receiving, Doomed

LEMMA AlwaysKept == Spec => []Kept
<1>1. TableInv /\ Kept /\ [Next]_vars => Kept'
  BY StepSpawnsOrHolds, HoldKept, SpawnKeeps DEF TableInv
<1> QED
  BY <1>1, InitKept, AlwaysTable, PTL DEF Spec

LEMMA ExclusiveHolds ==
    ASSUME Typed, ExclusiveProcess, HoldsOn
    PROVE  ExclusiveProcess'
<1>1. 1..next_id \subseteq Ids
  BY RelayAssumption DEF Typed, TableOK, Ids
<1>2. \A i \in Ids : ProcessAlive(i)' /\ task'[i] # "aborted" =>
                         ProcessAlive(i) /\ task[i] # "aborted"
  BY DEF HoldsOn, ProcessAlive, Receiving
<1>3. UNCHANGED <<next_id, session>>
  BY DEF HoldsOn
<1> QED
  BY <1>1, <1>2, <1>3 DEF ExclusiveProcess

LEMMA ExclusiveSpawns ==
    ASSUME TableInv, Kept, ExclusiveProcess, Spawns
    PROVE  ExclusiveProcess'
<1>1. PICK x \in Session : FitsFor(x) /\ Spawn(x)
  BY DEF Spawns
<1>2. PICK n \in Ids : n = next_id' /\ n = next_id + 1
  BY <1>1, RelayAssumption DEF TableInv, Typed, TableOK, Spawn, Ids
<1>3. /\ 1..next_id \subseteq Ids /\ 1..next_id' = 1..next_id \cup {n}
      /\ n \notin 1..next_id
  BY <1>2, RelayAssumption DEF TableInv, Typed, TableOK, Ids
<1>4. \A i \in Ids : /\ task'[i] = IF i = n THEN "running" ELSE task[i]
                     /\ session'[i] = IF i = n THEN x ELSE session[i]
  BY <1>1, <1>2 DEF TableInv, Typed, TableOK, TaskOK, Spawn
\* While a process of the alias is still there, its session is in the table.
<1>5. ASSUME NEW j \in 1..next_id, Receiving(j), session[j].alias = x.alias
      PROVE  ~Exclusive(x.entry) /\ session[j].entry = x.entry
  <2>1. InTable(j)
    BY <1>3, <1>5 DEF Kept, Spawns
  <2>2. PICK s \in Sid : table[s] = j /\ table[s] # 0
    BY <2>1 DEF InTable
  <2>3. s \in LiveOn(x.alias)
    BY <1>5, <2>2 DEF LiveOn
  <2>4. session[j].entry = backends[x.alias]
    BY <1>5, <2>2 DEF TableInv, TableCurrent
  <2> QED
    BY <1>1, <2>3, <2>4 DEF FitsFor
<1> SUFFICES ASSUME NEW i \in 1..next_id', NEW j \in 1..next_id', i # j,
                    session'[i].alias = session'[j].alias, Exclusive(session'[j].entry),
                    task'[i] \in {"running", "killing"}, task'[j] \in {"running", "killing"}
             PROVE  FALSE
  BY DEF ExclusiveProcess, ProcessAlive
<1>6. CASE i # n /\ j # n
  <2>1. /\ i \in 1..next_id /\ j \in 1..next_id
        /\ session[i].alias = session[j].alias /\ Exclusive(session[j].entry)
        /\ ProcessAlive(i) /\ ProcessAlive(j)
        /\ task[i] # "aborted" /\ task[j] # "aborted"
    BY <1>3, <1>4, <1>6 DEF ProcessAlive
  <2> QED
    BY <2>1 DEF ExclusiveProcess
<1>7. CASE j = n
  <2>1. /\ i \in 1..next_id /\ Receiving(i) /\ session[i].alias = x.alias
        /\ Exclusive(x.entry)
    BY <1>3, <1>4, <1>7 DEF Receiving
  <2> QED
    BY <1>5, <2>1
<1>8. CASE i = n
  <2>1. /\ j \in 1..next_id /\ Receiving(j) /\ session[j].alias = x.alias
        /\ Exclusive(session[j].entry)
    BY <1>3, <1>4, <1>8 DEF Receiving
  <2> QED
    BY <1>5, <2>1
<1> QED
  BY <1>6, <1>7, <1>8

\* No two processes of an exclusive server run side by side, however its sessions
\* end and whatever the config makes of it meanwhile: an open is refused while one
\* is in the table, and the main loop opens nothing while it stops one (Relay::open,
\* Relay::stop).
THEOREM NeverSideBySide == Spec => []ExclusiveProcess
<1>1. Init => ExclusiveProcess
  BY DEF Init, ExclusiveProcess
<1>2. TableInv /\ Kept /\ ExclusiveProcess /\ [Next]_vars => ExclusiveProcess'
  BY StepSpawnsOrHolds, ExclusiveHolds, ExclusiveSpawns DEF TableInv
<1> QED
  BY <1>1, <1>2, AlwaysTable, AlwaysKept, PTL DEF Spec
-----------------------------------------------------------------------------
(***************************************************************************)
(* The calls of the sessions: none is lost, and what is counted of them is *)
(* what there is.                                                          *)
(***************************************************************************)

-----------------------------------------------------------------------------
(* The owner's dialogs.                                                    *)

OpenAsks == {k \in asks : k.phase = "open"}
Holding == {k \in asks : k.phase \in {"open", "allowed", "denied"}}

\* A session holds its flag for one confirmation at most: the count of the flags
\* is then that of the dialogs that hold one.
Dialogs ==
    /\ IsFiniteSet(asks)
    /\ open_confirmations = Cardinality(OpenAsks)
    /\ open_confirmations <= MaxConfirm
    /\ confirming = {k.id : k \in Holding}
    /\ \A k, l \in Holding : k.id = l.id => k = l

LEMMA DialogsAreCounted == Dialogs => DialogsCounted
<1> SUFFICES ASSUME Dialogs PROVE DialogsCounted
  OBVIOUS
<1> DEFINE flag == [k \in Holding |-> k.id]
<1>1. IsFiniteSet(Holding)
  <2>1. Holding \in SUBSET asks
    BY DEF Holding
  <2> QED
    BY <2>1, FS_Subset DEF Dialogs
<1>2. ExistsBijection(Holding, confirming)
  <2>1. flag \in Bijection(Holding, confirming)
    BY Fun_IsBij DEF Dialogs
  <2> QED
    BY <2>1 DEF ExistsBijection
<1>3. Cardinality(Holding) = Cardinality(confirming)
  BY <1>1, <1>2, FS_Bijection
<1> QED
  BY <1>3 DEF Dialogs, DialogsCounted, OpenAsks, Holding

LEMMA DialogsFrame == Dialogs /\ UNCHANGED askVars => Dialogs'
BY DEF Dialogs, OpenAsks, Holding, askVars

\* What moving confirmation k to phase p does to the set.
LEMMA PhaseMoves ==
    ASSUME AskOK, NEW k \in asks, NEW p \in {"allowed", "denied", "forward", "reply"}, Phase(k, p)
    PROVE  \E n : /\ n \in [id : Ids, rid : Rid,
                            phase : {"open", "allowed", "denied", "forward", "reply"}]
                  /\ n.id = k.id /\ n.rid = k.rid /\ n.phase = p
                  /\ asks' = (asks \ {k}) \cup {n}
BY DEF AskOK, Phase

LEMMA OwnerAnswersCounts ==
    ASSUME Typed, Dialogs, NEW k \in asks, OwnerAnswers(k)
    PROVE  Dialogs'
<1>1. PICK n : /\ n.id = k.id /\ n.phase \in {"allowed", "denied"}
               /\ asks' = (asks \ {k}) \cup {n}
  BY PhaseMoves DEF OwnerAnswers, Typed
<1>2. IsFiniteSet(asks')
  BY <1>1, FS_RemoveElement, FS_AddElement DEF Dialogs
<1>3. OpenAsks' = OpenAsks \ {k} /\ k \in OpenAsks
  BY <1>1 DEF OpenAsks, OwnerAnswers
<1>4. IsFiniteSet(OpenAsks)
  <2>1. OpenAsks \in SUBSET asks
    BY DEF OpenAsks
  <2> QED
    BY <2>1, FS_Subset DEF Dialogs
<1>5. Cardinality(OpenAsks') = Cardinality(OpenAsks) - 1
  BY <1>3, <1>4, FS_RemoveElement
<1>6. Holding' = (Holding \ {k}) \cup {n} /\ k \in Holding
  BY <1>1 DEF Holding, OwnerAnswers
<1>7. confirming' = {l.id : l \in Holding'}
  BY <1>1, <1>6 DEF Dialogs, OwnerAnswers
<1>8. \A l, m \in Holding' : l.id = m.id => l = m
  BY <1>1, <1>6 DEF Dialogs
<1>9. open_confirmations' = Cardinality(OpenAsks') /\ open_confirmations' <= MaxConfirm
  BY <1>5, RelayAssumption DEF Dialogs, OwnerAnswers, Typed, AskOK
<1> QED
  BY <1>2, <1>7, <1>8, <1>9 DEF Dialogs

LEMMA ReleaseCounts ==
    ASSUME Typed, Dialogs, NEW k \in asks, ReleaseAllowed(k) \/ ReleaseDenied(k)
    PROVE  Dialogs'
<1>1. PICK n : /\ n.phase \in {"forward", "reply"}
               /\ asks' = (asks \ {k}) \cup {n}
  BY PhaseMoves DEF ReleaseAllowed, ReleaseDenied, Typed
<1>2. IsFiniteSet(asks')
  BY <1>1, FS_RemoveElement, FS_AddElement DEF Dialogs
<1>3. OpenAsks' = OpenAsks
  BY <1>1 DEF OpenAsks, ReleaseAllowed, ReleaseDenied
<1>4. Holding' = Holding \ {k} /\ k \in Holding
  BY <1>1 DEF Holding, ReleaseAllowed, ReleaseDenied
<1>5. confirming' = {l.id : l \in Holding'}
  BY <1>4 DEF Dialogs, ReleaseAllowed, ReleaseDenied
<1> QED
  BY <1>2, <1>3, <1>4, <1>5 DEF Dialogs, ReleaseAllowed, ReleaseDenied

LEMMA FinishCounts ==
    ASSUME Dialogs, NEW k \in asks, ForwardAllowed(k) \/ ReplyDenied(k)
    PROVE  Dialogs'
<1>1. asks' = asks \ {k} /\ UNCHANGED <<open_confirmations, confirming>>
  BY DEF ForwardAllowed, ReplyDenied
<1>2. IsFiniteSet(asks')
  BY <1>1, FS_RemoveElement DEF Dialogs
<1>3. OpenAsks' = OpenAsks /\ Holding' = Holding
  BY <1>1 DEF OpenAsks, Holding, ForwardAllowed, ReplyDenied
<1> QED
  BY <1>1, <1>2, <1>3 DEF Dialogs

LEMMA DeliverCounts ==
    ASSUME Typed, Dialogs, NEW s \in Sid, NEW m \in Message, deliver(s, m)
    PROVE  Dialogs'
<1>1. CASE UNCHANGED askVars
  BY <1>1, DialogsFrame
<1>2. CASE m.call /\ DeliverConfirm(table[s], m.rid)
  <2> DEFINE i == table[s]
  <2>1. PICK k : k.id = i /\ k.phase = "open" /\ asks' = asks \cup {k}
    BY <1>2 DEF DeliverConfirm
  <2>2. /\ i \notin confirming /\ open_confirmations < MaxConfirm
        /\ confirming' = confirming \cup {i}
        /\ open_confirmations' = open_confirmations + 1
    BY <1>2 DEF DeliverConfirm
  <2>3. k \notin asks
    BY <2>1, <2>2 DEF Dialogs, Holding
  <2>4. IsFiniteSet(asks')
    BY <2>1, FS_AddElement DEF Dialogs
  <2>5. OpenAsks' = OpenAsks \cup {k} /\ k \notin OpenAsks
    BY <2>1, <2>3 DEF OpenAsks
  <2>6. IsFiniteSet(OpenAsks)
    <3>1. OpenAsks \in SUBSET asks
      BY DEF OpenAsks
    <3> QED
      BY <3>1, FS_Subset DEF Dialogs
  <2>7. Cardinality(OpenAsks') = Cardinality(OpenAsks) + 1
    BY <2>5, <2>6, FS_AddElement
  <2>8. Holding' = Holding \cup {k}
    BY <2>1 DEF Holding
  <2>9. confirming' = {l.id : l \in Holding'}
    BY <2>1, <2>2, <2>8 DEF Dialogs
  <2>10. \A l, n \in Holding' : l.id = n.id => l = n
    BY <2>1, <2>2, <2>8 DEF Dialogs
  <2>11. open_confirmations' = Cardinality(OpenAsks') /\ open_confirmations' <= MaxConfirm
    BY <2>2, <2>7, RelayAssumption DEF Dialogs, Typed, AskOK
  <2> QED
    BY <2>4, <2>9, <2>10, <2>11 DEF Dialogs
<1> QED
  BY <1>1, <1>2 DEF deliver, DeliverUnknown, DeliverForward, DeliverRefused,
     DeliverConfirm, DeliverNoSlot

\* A step that opens no dialog and is none of a confirmation's own.
LEMMA NoDialogTouched ==
    ASSUME [Next]_vars
    PROVE  \/ UNCHANGED askVars
           \/ \E s \in Sid, m \in Message : deliver(s, m)
           \/ \E k \in asks : AskStep(k)
BY DEF Next, Handler, open, oversized, close, reconfigure, shutdown, MainStep,
   OpenAfterEviction, BeginStop, EndStop, StopTimeout, Stopped, SendReply, Closed, Abandon,
   TaskStep, BackendStep, TakeMessage, EmitSent, EndSilently, EndItself, Leave, Killed,
   RemoveSelf, Report, Reap, Answer, Stray, WriterSends, WriterDies, Terminated, vars, askVars

LEMMA AlwaysDialogs == Spec => []Dialogs
<1>1. Init => Dialogs
  BY FS_EmptySet, RelayAssumption DEF Init, Dialogs, OpenAsks, Holding
<1>2. Typed /\ Dialogs /\ [Next]_vars => Dialogs'
  BY NoDialogTouched, DialogsFrame, DeliverCounts, OwnerAnswersCounts, ReleaseCounts,
     FinishCounts DEF AskStep
<1> QED
  BY <1>1, <1>2, AlwaysTyped, PTL DEF Spec

\* The counter of open dialogs is exact and within its limit, and a session's flag
\* is set exactly while one confirmation of its own holds it, although the
\* confirmation tasks give the slots back one by one, on their own, and outlive
\* their sessions (Relay::deliver, Relay::confirm).
THEOREM DialogsAlwaysCounted == Spec => []DialogsCounted
BY AlwaysDialogs, DialogsAreCounted, PTL

-----------------------------------------------------------------------------
(* Where a call is.                                                        *)

AsksOf(i) == {k \in asks : k.id = i}
HeldBy(i) == {k.rid : k \in {q \in asks : q.id = i /\ q.phase # "reply"}}
Once(q) == \A m, n \in DOMAIN q : q[m].call /\ q[m] = q[n] => m = n

\* Each stray of the backend may have taken one call off the count.
Counted(i) == Cardinality(Unanswered(i)) \in in_flight[i] .. in_flight[i] + strays[i]

\* Each call of session i that its client waits on is in one place, once.
CallOK(i) ==
    /\ Once(queue[i])
    /\ \A k, l \in AsksOf(i) : k.rid = l.rid => k = l
    /\ CallsIn(queue[i]) \cap at[i] = {}
    /\ (CallsIn(queue[i]) \cup at[i]) \cap HeldBy(i) = {}
    /\ (Unanswered(i) \cup sending[i]) \cap Declined(i) = {}
    /\ Unanswered(i) \cap sending[i] = {}
    /\ owed[i] = Unanswered(i) \cup (sending[i] \cap Rid) \cup Declined(i)
    /\ Counted(i)

\* Nothing is known of a session that has not been opened.
Blank(i) ==
    /\ queue[i] = <<>> /\ at[i] = {} /\ sending[i] = {}
    /\ owed[i] = {} /\ in_flight[i] = 0 /\ AsksOf(i) = {}

Calls ==
    /\ \A i \in Ids : Live(i) => CallOK(i)
    /\ \A i \in Ids : task[i] = "unborn" => Blank(i)

LEMMA CallsTyped ==
    ASSUME Typed, NEW i \in Ids
    PROVE  /\ Unanswered(i) \subseteq Rid
           /\ IsFiniteSet(Unanswered(i)) /\ Cardinality(Unanswered(i)) \in Nat
<1>1. Unanswered(i) \in SUBSET Rid
  BY DEF Typed, TaskOK, AskOK, Unanswered, CallsIn
<1> QED
  BY <1>1, FS_Subset, FS_CardinalityType, RelayAssumption

\* One more call and one more counted; one less, and `Settle`; or `Settle` alone,
\* for a stray.
LEMMA CountMoves ==
    ASSUME NEW c \in Nat, NEW f \in Nat, NEW n \in Nat, c \in f .. f + n
    PROVE  /\ c + 1 \in (f + 1) .. (f + 1 + n)
           /\ LET g == IF f > 0 THEN f - 1 ELSE 0
              IN /\ c > 0 => c - 1 \in g .. g + n
                 /\ c \in g .. g + (n + 1)
OBVIOUS

LEMMA CallsApart ==
    ASSUME NEW i
    PROVE  Unanswered(i) = CallsIn(queue[i]) \cup at[i] \cup HeldBy(i)
BY DEF Unanswered, HeldBy

LEMMA MessageKinds ==
    /\ \A r \in Rid : /\ Call(r) \in Message /\ Call(r).call /\ Call(r).rid = r
                      /\ Call(r) # Note
    /\ \A m \in Message : /\ m.call => m.rid \in Rid /\ m = Call(m.rid)
                          /\ ~m.call => m = Note
    /\ ~Note.call
<1>1. \A r \in Rid : Call(r) \in Message /\ Call(r).call /\ Call(r).rid = r
  BY DEF Message, Call
<1>2. ~Note.call
  BY DEF Note
<1>3. \A m \in Message : m = Note \/ \E r \in Rid : m = Call(r)
  BY DEF Message
<1> QED
  BY <1>1, <1>2, <1>3

LEMMA AppendCall ==
    ASSUME NEW q \in Seq(Message), NEW r \in Rid, Once(q), r \notin CallsIn(q)
    PROVE  /\ CallsIn(Append(q, Call(r))) = CallsIn(q) \cup {r}
           /\ Once(Append(q, Call(r)))
<1> DEFINE n == Len(q) + 1
           p == Append(q, Call(r))
<1>1. /\ DOMAIN p = DOMAIN q \cup {n} /\ n \notin DOMAIN q
      /\ p[n] = Call(r) /\ \A k \in DOMAIN q : p[k] = q[k]
  BY MessageKinds
<1>2. \A x \in Rid : Call(x) = Call(r) => x = r
  BY DEF Call
<1> HIDE DEF p, n
<1>3. CallsIn(p) = CallsIn(q) \cup {r}
  BY <1>1, <1>2 DEF CallsIn
<1>4. \A k \in DOMAIN q : q[k] # Call(r)
  BY DEF CallsIn
<1>5. Once(p)
  BY <1>1, <1>4 DEF Once
<1> QED
  BY <1>3, <1>5 DEF p

LEMMA AppendNote ==
    ASSUME NEW q \in Seq(Message), Once(q)
    PROVE  CallsIn(Append(q, Note)) = CallsIn(q) /\ Once(Append(q, Note))
<1> DEFINE n == Len(q) + 1
           p == Append(q, Note)
<1>1. /\ DOMAIN p = DOMAIN q \cup {n} /\ n \notin DOMAIN q
      /\ p[n] = Note /\ \A k \in DOMAIN q : p[k] = q[k]
  OBVIOUS
<1>2. \A x \in Rid : Call(x) # Note
  BY MessageKinds
<1> HIDE DEF p, n
<1>3. CallsIn(p) = CallsIn(q)
  BY <1>1, <1>2 DEF CallsIn
<1>4. Once(p)
  BY <1>1, MessageKinds DEF Once
<1> QED
  BY <1>3, <1>4 DEF p

LEMMA TakeHead ==
    ASSUME NEW q \in Seq(Message), q # <<>>, Once(q)
    PROVE  /\ Once(Tail(q))
           /\ Head(q).call => /\ Head(q).rid \in CallsIn(q)
                              /\ CallsIn(Tail(q)) = CallsIn(q) \ {Head(q).rid}
           /\ ~Head(q).call => CallsIn(Tail(q)) = CallsIn(q)
<1> DEFINE t == Tail(q)
           h == Head(q)
<1>1. /\ Len(q) \in Nat \ {0} /\ DOMAIN q = 1..Len(q) /\ DOMAIN t = 1..(Len(q) - 1)
      /\ \A k \in DOMAIN t : t[k] = q[k + 1] /\ k + 1 \in DOMAIN q /\ k + 1 # 1
      /\ h = q[1] /\ h \in Message /\ 1 \in DOMAIN q
      /\ \A k \in DOMAIN q : k # 1 => k - 1 \in DOMAIN t /\ t[k - 1] = q[k]
  OBVIOUS
<1> HIDE DEF t, h
<1>2. Once(t)
  BY <1>1 DEF Once
<1>3. \A r \in Rid : r \in CallsIn(q) <=> h = Call(r) \/ r \in CallsIn(t)
  BY <1>1 DEF CallsIn
<1>4. CASE h.call
  <2>1. h = Call(h.rid) /\ h.rid \in Rid /\ \A r \in Rid : h = Call(r) <=> r = h.rid
    BY <1>1, <1>4, MessageKinds
  <2>2. h.rid \notin CallsIn(t)
    BY <1>1, <1>4, <2>1 DEF Once, CallsIn
  <2>3. CallsIn(t) \subseteq Rid /\ CallsIn(q) \subseteq Rid
    BY DEF CallsIn
  <2> QED
    BY <1>2, <1>3, <1>4, <2>1, <2>2, <2>3 DEF t, h
<1>5. CASE ~h.call
  <2>1. \A r \in Rid : h # Call(r)
    BY <1>5, MessageKinds
  <2>2. CallsIn(t) \subseteq Rid /\ CallsIn(q) \subseteq Rid
    BY DEF CallsIn
  <2> QED
    BY <1>2, <1>3, <1>5, <2>1, <2>2 DEF t, h
<1> QED
  BY <1>4, <1>5

-----------------------------------------------------------------------------
(* A step moves the calls of one session at most.                          *)

Own(i) == <<queue[i], at[i], sending[i], owed[i], in_flight[i], strays[i], AsksOf(i)>>

LEMMA OwnFrame ==
    ASSUME NEW i, UNCHANGED Own(i)
    PROVE  /\ CallOK(i) => CallOK(i)'
           /\ Blank(i) => Blank(i)'
           /\ HeldBy(i)' = HeldBy(i) /\ Declined(i)' = Declined(i)
<1>1. /\ HeldBy(i) = {k.rid : k \in {q \in AsksOf(i) : q.phase # "reply"}}
      /\ Declined(i) = {k.rid : k \in {q \in AsksOf(i) : q.phase = "reply"}}
  BY DEF HeldBy, Declined, AsksOf
<1>2. /\ HeldBy(i)' = {k.rid : k \in {q \in AsksOf(i)' : q.phase # "reply"}}
      /\ Declined(i)' = {k.rid : k \in {q \in AsksOf(i)' : q.phase = "reply"}}
  BY DEF HeldBy, Declined, AsksOf
<1>3. HeldBy(i)' = HeldBy(i) /\ Declined(i)' = Declined(i)
  BY <1>1, <1>2 DEF Own
<1>4. CallsIn(queue[i])' = CallsIn(queue[i])
  BY DEF Own, CallsIn
<1>5. Unanswered(i)' = Unanswered(i)
  BY <1>3, <1>4 DEF Own, Unanswered, HeldBy
<1>6. CallOK(i) => CallOK(i)'
  BY <1>3, <1>4, <1>5 DEF CallOK, Counted, Own, Once
<1>7. Blank(i) => Blank(i)'
  BY DEF Blank, Own
<1> QED
  BY <1>3, <1>6, <1>7

LEMMA StaysLive ==
    ASSUME HoldsOn, NEW i \in Ids, Live(i)'
    PROVE  Live(i)
BY DEF HoldsOn, Live, InTable

LEMMA OneMoves ==
    ASSUME Calls, HoldsOn, NEW i \in Ids, task[i] # "unborn",
           \A j \in Ids \ {i} : UNCHANGED Own(j),
           Live(i) /\ Live(i)' => CallOK(i)'
    PROVE  Calls'
<1>1. ASSUME NEW j \in Ids, Live(j)' PROVE CallOK(j)'
  BY <1>1, StaysLive, OwnFrame DEF Calls
<1>2. ASSUME NEW j \in Ids, task'[j] = "unborn" PROVE Blank(j)'
  BY <1>2, OwnFrame DEF Calls, HoldsOn
<1> QED
  BY <1>1, <1>2 DEF Calls

LEMMA NoneMoves ==
    ASSUME Calls, HoldsOn, \A j \in Ids : UNCHANGED Own(j)
    PROVE  Calls'
<1>1. ASSUME NEW j \in Ids, Live(j)' PROVE CallOK(j)'
  BY <1>1, StaysLive, OwnFrame DEF Calls
<1>2. ASSUME NEW j \in Ids, task'[j] = "unborn" PROVE Blank(j)'
  BY <1>2, OwnFrame DEF Calls, HoldsOn
<1> QED
  BY <1>1, <1>2 DEF Calls

LEMMA SpawnCalls ==
    ASSUME TableInv, Kept, Calls, Spawns, \A j \in Ids : UNCHANGED Own(j)
    PROVE  Calls'
<1>1. PICK x \in Session : Spawn(x)
  BY DEF Spawns
<1>2. PICK n \in Ids : n = next_id' /\ n = next_id + 1
  BY <1>1, RelayAssumption DEF TableInv, Typed, TableOK, Spawn, Ids
<1>3. task[n] = "unborn" /\ task'[n] = "running"
  BY <1>1, <1>2 DEF Kept, TableInv, Typed, TableOK, TaskOK, Spawn
<1>4. \A j \in Ids \ {n} : task'[j] = task[j] /\ (InTable(j)' => InTable(j))
  BY <1>1, <1>2 DEF Spawn, TableInv, Typed, TableOK, TaskOK, InTable, Session
<1>5. CallOK(n)'
  <2>1. /\ queue'[n] = <<>> /\ at'[n] = {} /\ sending'[n] = {} /\ owed'[n] = {}
        /\ in_flight'[n] = 0 /\ AsksOf(n)' = {}
    BY <1>3, OwnFrame DEF Calls, Blank
  <2>2. /\ CallsIn(queue'[n]) = {} /\ Once(queue'[n])
        /\ HeldBy(n)' = {} /\ Declined(n)' = {} /\ Unanswered(n)' = {}
    BY <2>1 DEF CallsIn, Once, HeldBy, Declined, Unanswered, AsksOf
  <2> QED
    <3>1. strays'[n] \in Nat
      BY <1>3 DEF Calls, TableInv, Typed, EnvOK, Own
    <3> QED
      BY <2>1, <2>2, <3>1, FS_EmptySet DEF CallOK, Counted
<1>6. ASSUME NEW j \in Ids, j # n, Live(j)' PROVE CallOK(j)'
  BY <1>4, <1>6, OwnFrame DEF Calls, Live
<1>7. ASSUME NEW j \in Ids, task'[j] = "unborn" PROVE Blank(j)'
  BY <1>3, <1>4, <1>7, OwnFrame DEF Calls
<1> QED
  BY <1>5, <1>6, <1>7 DEF Calls

-----------------------------------------------------------------------------
(* The gateway delivers a message.                                         *)

LEMMA DeliverTouches ==
    ASSUME Typed, NEW s \in Sid, NEW m \in Message, deliver(s, m), NEW j \in Ids, j # table[s]
    PROVE  UNCHANGED Own(j)
<1>1. UNCHANGED <<at, sending>>
  BY DEF deliver
<1>s. UNCHANGED strays
  BY DEF deliver
<1>2. queue'[j] = queue[j] /\ in_flight'[j] = in_flight[j] /\ owed'[j] = owed[j]
  BY DEF deliver, DeliverUnknown, DeliverForward, TrySend, DeliverRefused, DeliverConfirm,
     DeliverNoSlot, Typed, TaskOK, FlightOK, EnvOK
<1>3. AsksOf(j)' = AsksOf(j)
  BY DEF deliver, DeliverUnknown, DeliverForward, DeliverRefused, DeliverConfirm,
     DeliverNoSlot, askVars, AsksOf
<1> QED
  BY <1>1, <1>s, <1>2, <1>3 DEF Own

LEMMA CountsOneMore ==
    ASSUME Typed, NEW i \in Ids, CallOK(i), UNCHANGED strays,
           Cardinality(Unanswered(i)') = Cardinality(Unanswered(i)) + 1,
           in_flight'[i] = in_flight[i] + 1
    PROVE  Counted(i)'
<1>1. Cardinality(Unanswered(i)) \in Nat /\ in_flight[i] \in Nat /\ strays[i] \in Nat
  BY CallsTyped, RelayAssumption DEF Typed, FlightOK, EnvOK
<1>2. Cardinality(Unanswered(i)) \in in_flight[i] .. in_flight[i] + strays[i]
  BY DEF CallOK, Counted
<1> QED
  BY <1>1, <1>2, CountMoves DEF Counted

LEMMA CountsOneLess ==
    ASSUME Typed, NEW i \in Ids, CallOK(i), UNCHANGED strays, Settle(i),
           NEW r \in Unanswered(i), Unanswered(i)' = Unanswered(i) \ {r}
    PROVE  Counted(i)'
<1>1. Cardinality(Unanswered(i)) \in Nat /\ in_flight[i] \in Nat /\ strays[i] \in Nat
  BY CallsTyped, RelayAssumption DEF Typed, FlightOK, EnvOK
<1>2. Cardinality(Unanswered(i)) \in in_flight[i] .. in_flight[i] + strays[i]
  BY DEF CallOK, Counted
<1>3. Cardinality(Unanswered(i)') = Cardinality(Unanswered(i)) - 1
  BY CallsTyped, FS_RemoveElement
<1>4. Cardinality(Unanswered(i)) > 0
  <2>1. Cardinality(Unanswered(i)') \in Nat
    BY CallsTyped, FS_RemoveElement, FS_CardinalityType
  <2> QED
    BY <1>1, <1>3, <2>1
<1>5. in_flight'[i] = IF in_flight[i] > 0 THEN in_flight[i] - 1 ELSE 0
  BY DEF Settle, Typed, FlightOK
<1> QED
  BY <1>1, <1>2, <1>3, <1>4, <1>5, CountMoves DEF Counted

LEMMA DeliverCalls ==
    ASSUME TableInv, Kept, Calls, NEW s \in Sid, NEW m \in Message, deliver(s, m)
    PROVE  Calls'
<1> PICK i : i = table[s]
  OBVIOUS
<1>0. HoldsOn /\ Typed
  BY DeliverHolds DEF TableInv
<1>1. UNCHANGED <<at, sending, task, strays>> /\ (m.call /\ i # 0 => m.rid \notin owed[i])
  BY DEF deliver
<1>2. i # 0 => i \in Ids /\ task[i] # "unborn"
  BY RelayAssumption DEF TableInv, Typed, TableOK, Numbered, Kept, Ids
<1>3. m.call => m.rid \in Rid /\ m = Call(m.rid)
  BY MessageKinds
<1>4. CASE UNCHANGED <<queue, in_flight, owed, asks>>
  <2>1. \A j \in Ids : UNCHANGED Own(j)
    BY <1>1, <1>4 DEF Own, AsksOf
  <2> QED
    BY <1>0, <2>1, NoneMoves
<1>5. CASE i # 0 /\ DeliverForward(i, m)
  <2>1. \A j \in Ids \ {i} : UNCHANGED Own(j)
    BY <1>0, DeliverTouches
  <2>2. ASSUME Live(i), Live(i)' PROVE CallOK(i)'
    <3>1. queue'[i] = Append(queue[i], m) /\ queue[i] \in Seq(Message)
      <4>1. task[i] = "running" /\ task'[i] = "running" /\ InTable(i)'
        BY <2>2 DEF Live
      <4>2. \A q \in Sid : table'[q] = i => q = s
        BY <1>0, <1>5 DEF HoldsOn, TableInv, TableCurrent
      <4>3. table'[s] = i
        BY <4>1, <4>2 DEF InTable
      <4>4. ~Doom(session[i].sid, "overloaded")
        BY <1>5, <4>3 DEF Doom, TableInv, Typed, TableOK, TableCurrent
      <4> QED
        BY <1>0, <1>2, <1>5, <4>1, <4>4 DEF DeliverForward, TrySend, Receiving, Typed, TaskOK
    <3>2. /\ UNCHANGED <<at[i], sending[i], AsksOf(i)>>
          /\ HeldBy(i)' = HeldBy(i) /\ Declined(i)' = Declined(i)
      BY <1>1, <1>5 DEF DeliverForward, askVars, AsksOf, HeldBy, Declined
    <3>3. CallOK(i)
      BY <1>2, <1>5, <2>2 DEF Calls
    <3>4. CASE m.call
      <4>1. m.rid \notin owed[i] /\ m.rid \notin Unanswered(i)
        BY <1>1, <1>5, <3>3, <3>4 DEF CallOK
      <4>2. /\ CallsIn(queue'[i]) = CallsIn(queue[i]) \cup {m.rid}
            /\ Once(queue'[i])
        BY <1>3, <3>1, <3>3, <3>4, <4>1, AppendCall, CallsApart DEF CallOK
      <4>3. Unanswered(i)' = Unanswered(i) \cup {m.rid}
        BY <3>2, <4>2 DEF Unanswered, HeldBy
      <4>4. Cardinality(Unanswered(i)') = Cardinality(Unanswered(i)) + 1
        BY <1>0, <1>2, <1>5, <4>1, <4>3, CallsTyped, FS_AddElement
      <4>5. /\ in_flight'[i] = in_flight[i] + 1
            /\ owed'[i] = owed[i] \cup {m.rid}
        BY <1>0, <1>2, <1>5, <3>4 DEF DeliverForward, Typed, FlightOK, EnvOK
      <4>6. Counted(i)'
        BY <1>0, <1>1, <1>2, <1>5, <3>3, <4>4, <4>5, CountsOneMore
      <4>7. m.rid \in Rid
        BY <1>3, <3>4
      <4> QED
        BY <3>2, <3>3, <4>1, <4>2, <4>3, <4>5, <4>6, <4>7, CallsApart DEF CallOK
    <3>5. CASE ~m.call
      <4>1. CallsIn(queue'[i]) = CallsIn(queue[i]) /\ Once(queue'[i])
        BY <3>1, <3>3, <3>5, AppendNote, MessageKinds DEF CallOK
      <4>2. Unanswered(i)' = Unanswered(i)
        BY <3>2, <4>1 DEF Unanswered, HeldBy
      <4>3. UNCHANGED <<in_flight, owed>>
        BY <1>5, <3>5 DEF DeliverForward
      <4> QED
        BY <1>1, <3>2, <3>3, <4>1, <4>2, <4>3 DEF CallOK, Counted
    <3> QED
      BY <3>4, <3>5
  <2> QED
    BY <1>0, <1>2, <1>5, <2>1, <2>2, OneMoves
<1>6. CASE i # 0 /\ m.call /\ DeliverConfirm(i, m.rid)
  <2> PICK r : r = m.rid
    OBVIOUS
  <2>0. PICK k : /\ k.id = i /\ k.rid = r /\ k.phase = "open" /\ asks' = asks \cup {k}
    BY <1>6 DEF DeliverConfirm
  <2>1. \A j \in Ids \ {i} : UNCHANGED Own(j)
    BY <1>0, DeliverTouches
  <2>2. ASSUME Live(i), Live(i)' PROVE CallOK(i)'
    <3>1. CallOK(i) /\ r \notin owed[i]
      BY <1>1, <1>2, <1>6, <2>2 DEF Calls
    <3>2. r \in Rid /\ r \notin Unanswered(i) /\ r \notin Declined(i) /\ r \notin sending[i]
      BY <1>3, <1>6, <3>1 DEF CallOK
    <3>3. /\ AsksOf(i)' = AsksOf(i) \cup {k}
          /\ HeldBy(i)' = HeldBy(i) \cup {r} /\ Declined(i)' = Declined(i)
      BY <2>0 DEF AsksOf, HeldBy, Declined
    <3>4. \A l \in AsksOf(i) : l.rid # r
      BY <3>2 DEF AsksOf, Unanswered, Declined
    <3>5. UNCHANGED <<queue, at, sending>>
      BY <1>1, <1>6 DEF DeliverConfirm
    <3>6. Unanswered(i)' = Unanswered(i) \cup {r}
      BY <3>3, <3>5 DEF Unanswered, HeldBy
    <3>7. Cardinality(Unanswered(i)') = Cardinality(Unanswered(i)) + 1
      BY <1>0, <1>2, <1>6, <3>2, <3>6, CallsTyped, FS_AddElement
    <3>8. in_flight'[i] = in_flight[i] + 1 /\ owed'[i] = owed[i] \cup {r}
      BY <1>0, <1>2, <1>6 DEF DeliverConfirm, Typed, FlightOK, EnvOK
    <3>9. \A l, n \in AsksOf(i)' : l.rid = n.rid => l = n
      BY <2>0, <3>1, <3>3, <3>4 DEF CallOK
    <3>10. Counted(i)'
      BY <1>0, <1>1, <1>2, <1>6, <3>1, <3>7, <3>8, CountsOneMore
    <3> QED
      BY <3>1, <3>2, <3>3, <3>5, <3>6, <3>8, <3>9, <3>10, CallsApart DEF CallOK
  <2> QED
    BY <1>0, <1>2, <1>6, <2>1, <2>2, OneMoves
<1> QED
  BY <1>4, <1>5, <1>6 DEF deliver, DeliverUnknown, DeliverRefused, DeliverNoSlot, askVars

-----------------------------------------------------------------------------
(* The session's task takes, answers and emits.                            *)

LEMMA TakeCalls ==
    ASSUME Typed, Calls, NEW i \in Ids, TakeMessage(i), Live(i)
    PROVE  CallOK(i)'
<1> PICK q, m : q = queue[i] /\ m = Head(q)
  OBVIOUS
<1>1. /\ q \in Seq(Message) /\ q # <<>> /\ m \in Message
      /\ queue'[i] = Tail(q)
      /\ at'[i] = IF m.call THEN at[i] \cup {m.rid} ELSE at[i]
      /\ UNCHANGED <<sending, asks, in_flight, owed, strays>>
  BY DEF TakeMessage, Typed, TaskOK, askVars, envVars
<1>2. CallOK(i)
  BY DEF Calls
<1>3. HeldBy(i)' = HeldBy(i) /\ Declined(i)' = Declined(i) /\ AsksOf(i)' = AsksOf(i)
  BY <1>1 DEF HeldBy, Declined, AsksOf
<1>4. /\ Once(queue'[i])
      /\ m.call => /\ m.rid \in CallsIn(q)
                   /\ CallsIn(queue'[i]) = CallsIn(q) \ {m.rid}
      /\ ~m.call => CallsIn(queue'[i]) = CallsIn(q)
  BY <1>1, <1>2, TakeHead DEF CallOK
<1>5. CallsIn(queue'[i]) \cup at'[i] = CallsIn(q) \cup at[i]
  BY <1>1, <1>4
<1>6. Unanswered(i)' = Unanswered(i)
  BY <1>3, <1>5 DEF Unanswered, HeldBy
<1>7. CallsIn(queue'[i]) \cap at'[i] = {}
  BY <1>1, <1>2, <1>4 DEF CallOK
<1> QED
  BY <1>1, <1>2, <1>3, <1>4, <1>5, <1>6, <1>7 DEF CallOK, Counted

LEMMA AnswerCalls ==
    ASSUME Typed, Calls, NEW i \in Ids, NEW r \in Rid, Answer(i, r), Live(i)
    PROVE  CallOK(i)'
<1>1. /\ r \in at[i] /\ at'[i] = at[i] \ {r} /\ sending'[i] = sending[i] \cup {r}
      /\ UNCHANGED <<queue, asks, owed, strays>>
  BY DEF Answer, Typed, TaskOK, askVars, envVars
<1>2. CallOK(i)
  BY DEF Calls
<1>3. HeldBy(i)' = HeldBy(i) /\ Declined(i)' = Declined(i) /\ AsksOf(i)' = AsksOf(i)
  BY <1>1 DEF HeldBy, Declined, AsksOf
<1>4. /\ r \in Unanswered(i) /\ r \notin CallsIn(queue[i]) /\ r \notin HeldBy(i)
      /\ r \notin Declined(i)
  BY <1>1, <1>2, CallsApart DEF CallOK
<1>5. CallsIn(queue[i])' = CallsIn(queue[i]) /\ Once(queue[i])'
  BY <1>1, <1>2 DEF CallsIn, CallOK
<1>6. Unanswered(i)' = CallsIn(queue[i]) \cup (at[i] \ {r}) \cup HeldBy(i)
  BY <1>1, <1>3, <1>5 DEF Unanswered, HeldBy
<1>7. Unanswered(i)' = Unanswered(i) \ {r}
  BY <1>4, <1>6, CallsApart
<1>8. Counted(i)'
  BY <1>1, <1>2, <1>4, <1>7, CountsOneLess DEF Answer
<1> QED
  BY <1>1, <1>2, <1>3, <1>4, <1>5, <1>7, <1>8 DEF CallOK

LEMMA StrayCalls ==
    ASSUME Typed, Calls, NEW i \in Ids, Stray(i), Live(i)
    PROVE  CallOK(i)'
<1>0. CallOK(i) /\ strays[i] \in Nat /\ in_flight[i] \in Nat
  BY RelayAssumption DEF Calls, Typed, EnvOK, FlightOK
<1>1. PICK n \in Nat : /\ n \notin Rid /\ sending'[i] = sending[i] \cup {n}
                       /\ strays'[i] = strays[i] + 1
  <2>1. strays'[i] = strays[i] + 1
    BY DEF Stray, Typed, EnvOK
  <2>2. sending'[i] = sending[i] \cup {strays'[i]}
    BY DEF Stray, Typed, TaskOK
  <2>3. strays'[i] \in Nat /\ strays'[i] \notin Rid
    BY <1>0, <2>1, RelayAssumption
  <2> QED
    BY <2>1, <2>2, <2>3
<1>2. UNCHANGED <<queue, at, asks, owed>>
  BY DEF Stray, askVars
<1>3. HeldBy(i)' = HeldBy(i) /\ Declined(i)' = Declined(i) /\ AsksOf(i)' = AsksOf(i)
  BY <1>2 DEF HeldBy, Declined, AsksOf
<1>4. CallsIn(queue[i])' = CallsIn(queue[i]) /\ Once(queue[i])'
  BY <1>0, <1>2 DEF CallsIn, CallOK
<1>5. Unanswered(i)' = Unanswered(i)
  BY <1>2, <1>3, <1>4 DEF Unanswered, HeldBy
<1>6. n \notin Unanswered(i) /\ n \notin Declined(i)
  <2>1. Declined(i) \subseteq Rid
    BY DEF Declined, Typed, AskOK
  <2> QED
    BY <1>1, <2>1, CallsTyped
<1>7. Counted(i)'
  <2>1. Cardinality(Unanswered(i)) \in Nat
    BY CallsTyped
  <2>2. Cardinality(Unanswered(i)) \in in_flight[i] .. in_flight[i] + strays[i]
    BY <1>0 DEF CallOK, Counted
  <2>3. in_flight'[i] = IF in_flight[i] > 0 THEN in_flight[i] - 1 ELSE 0
    BY DEF Stray, Settle, Typed, FlightOK
  <2> QED
    BY <1>0, <1>1, <1>5, <2>1, <2>2, <2>3, CountMoves DEF Counted
<1>8. sending'[i] \cap Rid = sending[i] \cap Rid
  BY <1>1
<1> QED
  BY <1>0, <1>1, <1>2, <1>3, <1>4, <1>5, <1>6, <1>7, <1>8 DEF CallOK

LEMMA EmitCalls ==
    ASSUME Typed, Calls, NEW i \in Ids, NEW r \in Rid \cup Strays, EmitSent(i, r), Live(i)
    PROVE  CallOK(i)'
<1>1. /\ r \in sending[i] /\ sending'[i] = sending[i] \ {r} /\ owed'[i] = owed[i] \ {r}
      /\ UNCHANGED <<queue, at, asks, in_flight, strays>>
  BY DEF EmitSent, Typed, TaskOK, EnvOK, askVars
<1>2. CallOK(i)
  BY DEF Calls
<1>3. HeldBy(i)' = HeldBy(i) /\ Declined(i)' = Declined(i) /\ AsksOf(i)' = AsksOf(i)
  BY <1>1 DEF HeldBy, Declined, AsksOf
<1>4. CallsIn(queue[i])' = CallsIn(queue[i]) /\ Once(queue[i])'
  BY <1>1, <1>2 DEF CallsIn, CallOK
<1>5. Unanswered(i)' = Unanswered(i)
  BY <1>1, <1>3, <1>4 DEF Unanswered, HeldBy
<1> QED
  BY <1>1, <1>2, <1>3, <1>4, <1>5 DEF CallOK, Counted

LEMMA TaskTouches ==
    ASSUME Typed, NEW i \in Ids, TaskStep(i) \/ BackendStep(i), NEW j \in Ids, j # i
    PROVE  UNCHANGED Own(j) /\ task'[j] = task[j]
BY DEF TaskStep, BackendStep, TakeMessage, EmitSent, EndSilently, EndItself, Leave, Killed,
   RemoveSelf, Report, Reap, Answer, Stray, Settle, Own, AsksOf, askVars, envVars, Typed,
   TaskOK, FlightOK, EnvOK

LEMMA TaskStepCalls ==
    ASSUME TableInv, Kept, Calls, NEW i \in Ids, TaskStep(i) \/ BackendStep(i)
    PROVE  Calls'
<1>1. HoldsOn /\ Typed
  BY TaskStepHolds DEF TableInv
<1>2. task[i] # "unborn"
  BY DEF TaskStep, BackendStep, TakeMessage, EmitSent, EndSilently, EndItself, Leave,
     Killed, RemoveSelf, Report, Reap, Answer, Stray
<1>3. CASE RemoveSelf(i) \/ Report(i)
  <2>1. \A j \in Ids : UNCHANGED Own(j)
    BY <1>3 DEF RemoveSelf, Report, Own, AsksOf, askVars, envVars
  <2> QED
    BY <1>1, <2>1, NoneMoves
<1>4. CASE ~(RemoveSelf(i) \/ Report(i))
  <2>1. \A j \in Ids \ {i} : UNCHANGED Own(j)
    BY <1>1, TaskTouches
  <2>2. Live(i) /\ Live(i)' => CallOK(i)'
    <3>1. CASE EndSilently(i) \/ EndItself(i) \/ Killed(i) \/ Reap(i)
      BY <1>1, <3>1 DEF EndSilently, EndItself, Leave, Killed, Reap, Live, Typed, TaskOK
    <3> QED
      BY <1>1, <1>4, <3>1, TakeCalls, AnswerCalls, StrayCalls, EmitCalls
         DEF TaskStep, BackendStep
  <2> QED
    BY <1>1, <1>2, <2>1, <2>2, OneMoves
<1> QED
  BY <1>3, <1>4

-----------------------------------------------------------------------------
(* A confirmation lets its call go.                                        *)

\* Confirmation k of session i moves on, to n or to its end.
LEMMA AskMoves ==
    ASSUME Typed, NEW k \in asks, NEW i, i = k.id, CallOK(i)
    PROVE  /\ k \in AsksOf(i)
           /\ \A l \in AsksOf(i) \ {k} : l.rid # k.rid
           /\ k.phase # "reply" => k.rid \in HeldBy(i)
           /\ k.phase = "reply" => k.rid \in Declined(i)
           /\ HeldBy(i) \cap Declined(i) = {}
<1>1. k \in AsksOf(i)
  BY DEF AsksOf
<1>2. \A l \in AsksOf(i) \ {k} : l.rid # k.rid
  BY <1>1 DEF CallOK
<1>3. HeldBy(i) \cap Declined(i) = {}
  BY CallsApart DEF CallOK
<1> QED
  BY <1>1, <1>2, <1>3 DEF HeldBy, Declined

LEMMA DecidedCalls ==
    ASSUME Typed, Calls, NEW k \in asks, OwnerAnswers(k) \/ ReleaseAllowed(k),
           NEW i \in Ids, i = k.id, Live(i)
    PROVE  CallOK(i)'
<1>1. CallOK(i)
  BY DEF Calls
<1>2. PICK n : /\ n.id = i /\ n.rid = k.rid /\ n.phase # "reply" /\ k.phase # "reply"
               /\ asks' = (asks \ {k}) \cup {n}
  BY PhaseMoves DEF OwnerAnswers, ReleaseAllowed, Typed
<1>3. UNCHANGED <<queue, at, sending, owed, in_flight, strays>>
  BY DEF OwnerAnswers, ReleaseAllowed, taskVars, envVars
<1>4. HeldBy(i)' = HeldBy(i) /\ Declined(i)' = Declined(i)
  BY <1>2 DEF HeldBy, Declined
<1>5. \A l, m \in AsksOf(i)' : l.rid = m.rid => l = m
  BY <1>1, <1>2, AskMoves DEF AsksOf
<1>6. CallsIn(queue[i])' = CallsIn(queue[i]) /\ Once(queue[i])'
  BY <1>1, <1>3 DEF CallsIn, CallOK
<1>7. Unanswered(i)' = Unanswered(i)
  BY <1>3, <1>4, <1>6 DEF Unanswered, HeldBy
<1> QED
  BY <1>1, <1>3, <1>4, <1>5, <1>6, <1>7 DEF CallOK, Counted

LEMMA DeniedCalls ==
    ASSUME Typed, Calls, NEW k \in asks, ReleaseDenied(k), NEW i \in Ids, i = k.id, Live(i)
    PROVE  CallOK(i)'
<1>1. CallOK(i)
  BY DEF Calls
<1>2. PICK n : /\ n.id = i /\ n.rid = k.rid /\ n.phase = "reply" /\ k.phase # "reply"
               /\ asks' = (asks \ {k}) \cup {n}
  BY PhaseMoves DEF ReleaseDenied, Typed
<1>3. UNCHANGED <<queue, at, sending, owed, strays>> /\ Settle(i)
  BY DEF ReleaseDenied, taskVars, envVars
<1>4. HeldBy(i)' = HeldBy(i) \ {k.rid} /\ Declined(i)' = Declined(i) \cup {k.rid}
  BY <1>1, <1>2, AskMoves DEF HeldBy, Declined, AsksOf
<1>5. \A l, m \in AsksOf(i)' : l.rid = m.rid => l = m
  BY <1>1, <1>2, AskMoves DEF AsksOf
<1>6. CallsIn(queue[i])' = CallsIn(queue[i]) /\ Once(queue[i])'
  BY <1>1, <1>3 DEF CallsIn, CallOK
<1>7. k.rid \in HeldBy(i) /\ k.rid \notin CallsIn(queue[i]) \cup at[i]
  BY <1>1, <1>2, AskMoves DEF CallOK
<1>8. Unanswered(i)' = CallsIn(queue[i]) \cup at[i] \cup (HeldBy(i) \ {k.rid})
  BY <1>3, <1>4, <1>6 DEF Unanswered, HeldBy
<1>9. Unanswered(i)' = Unanswered(i) \ {k.rid} /\ k.rid \in Unanswered(i)
  BY <1>7, <1>8, CallsApart
<1>10. Counted(i)'
  BY <1>1, <1>3, <1>9, CountsOneLess
<1> QED
  BY <1>1, <1>3, <1>4, <1>5, <1>6, <1>9, <1>10, CallsApart DEF CallOK

LEMMA ForwardedCalls ==
    ASSUME Typed, Calls, NEW k \in asks, ForwardAllowed(k), NEW i \in Ids, i = k.id, Live(i)
    PROVE  CallOK(i)'
<1>1. CallOK(i)
  BY DEF Calls
<1>2. /\ queue'[i] = Append(queue[i], Call(k.rid)) /\ queue[i] \in Seq(Message)
      /\ k.phase = "forward" /\ asks' = asks \ {k} /\ k.rid \in Rid
      /\ UNCHANGED <<at, sending, owed, in_flight, strays>>
  BY DEF ForwardAllowed, Live, Typed, TaskOK, AskOK, envVars
<1>3. HeldBy(i)' = HeldBy(i) \ {k.rid} /\ Declined(i)' = Declined(i)
  BY <1>1, <1>2, AskMoves DEF HeldBy, Declined, AsksOf
<1>4. \A l, m \in AsksOf(i)' : l.rid = m.rid => l = m
  BY <1>1, <1>2 DEF AsksOf, CallOK
<1>5. k.rid \in HeldBy(i) /\ k.rid \notin CallsIn(queue[i]) \cup at[i]
  BY <1>1, <1>2, AskMoves DEF CallOK
<1>6. CallsIn(queue'[i]) = CallsIn(queue[i]) \cup {k.rid} /\ Once(queue'[i])
  BY <1>1, <1>2, <1>5, AppendCall DEF CallOK
<1>7. Unanswered(i)' = CallsIn(queue'[i]) \cup at[i] \cup (HeldBy(i) \ {k.rid})
  BY <1>2, <1>3 DEF Unanswered, HeldBy
<1>8. Unanswered(i)' = Unanswered(i)
  BY <1>5, <1>6, <1>7, CallsApart
<1> QED
  BY <1>1, <1>2, <1>3, <1>4, <1>5, <1>6, <1>8 DEF CallOK, Counted

LEMMA RepliedCalls ==
    ASSUME Typed, Calls, NEW k \in asks, ReplyDenied(k), NEW i \in Ids, i = k.id, Live(i)
    PROVE  CallOK(i)'
<1>1. CallOK(i)
  BY DEF Calls
<1>2. /\ k.phase = "reply" /\ asks' = asks \ {k} /\ owed'[i] = owed[i] \ {k.rid}
      /\ UNCHANGED <<queue, at, sending, in_flight, strays>>
  BY DEF ReplyDenied, Typed, EnvOK, taskVars
<1>3. HeldBy(i)' = HeldBy(i) /\ Declined(i)' = Declined(i) \ {k.rid}
  BY <1>1, <1>2, AskMoves DEF HeldBy, Declined, AsksOf
<1>4. \A l, m \in AsksOf(i)' : l.rid = m.rid => l = m
  BY <1>1, <1>2 DEF AsksOf, CallOK
<1>5. CallsIn(queue[i])' = CallsIn(queue[i]) /\ Once(queue[i])'
  BY <1>1, <1>2 DEF CallsIn, CallOK
<1>6. Unanswered(i)' = Unanswered(i)
  BY <1>2, <1>3, <1>5 DEF Unanswered, HeldBy
<1>7. k.rid \in Declined(i)
  BY <1>1, <1>2, AskMoves
<1> QED
  BY <1>1, <1>2, <1>3, <1>4, <1>5, <1>6, <1>7 DEF CallOK, Counted

LEMMA AskTouches ==
    ASSUME Typed, NEW k \in asks, AskStep(k), NEW j \in Ids, j # k.id
    PROVE  UNCHANGED Own(j)
<1>1. AsksOf(j)' = AsksOf(j)
  <2>1. CASE ForwardAllowed(k) \/ ReplyDenied(k)
    BY <2>1 DEF ForwardAllowed, ReplyDenied, AsksOf
  <2>2. CASE OwnerAnswers(k) \/ ReleaseAllowed(k) \/ ReleaseDenied(k)
    <3>1. PICK n : n.id = k.id /\ asks' = (asks \ {k}) \cup {n}
      BY <2>2, PhaseMoves DEF OwnerAnswers, ReleaseAllowed, ReleaseDenied, Typed
    <3> QED
      BY <3>1 DEF AsksOf
  <2> QED
    BY <2>1, <2>2 DEF AskStep
<1> QED
  BY <1>1 DEF AskStep, OwnerAnswers, ReleaseAllowed, ForwardAllowed, ReleaseDenied,
     ReplyDenied, Settle, Own, taskVars, envVars, Typed, TaskOK, FlightOK, EnvOK

LEMMA AskStepCalls ==
    ASSUME TableInv, Kept, Calls, NEW k \in asks, AskStep(k)
    PROVE  Calls'
<1> PICK i : i = k.id
  OBVIOUS
<1>1. HoldsOn /\ Typed /\ i \in Ids /\ k.rid \in Rid
  BY OthersHold DEF TableInv, Typed, AskOK
<1>2. task[i] # "unborn"
  BY <1>1 DEF Calls, Blank, AsksOf
<1>3. \A j \in Ids \ {i} : UNCHANGED Own(j)
  BY <1>1, AskTouches
<1>4. Live(i) /\ Live(i)' => CallOK(i)'
  BY <1>1, DecidedCalls, DeniedCalls, ForwardedCalls, RepliedCalls DEF AskStep
<1> QED
  BY <1>1, <1>2, <1>3, <1>4, OneMoves

-----------------------------------------------------------------------------

LEMMA OtherStepsMoveNone ==
    ASSUME [Next]_vars,
           ~ \E s \in Sid, m \in Message : deliver(s, m),
           ~ \E i \in Ids : TaskStep(i) \/ BackendStep(i),
           ~ \E k \in asks : AskStep(k)
    PROVE  UNCHANGED <<queue, at, sending, owed, in_flight, strays, asks>>
BY DEF Next, Handler, open, OpenDuplicate, OpenRefused, OpenEvicting, OpenAdmitted, Spawn,
   oversized, close, reconfigure, shutdown, MainStep, OpenAfterEviction, BeginStop, EndStop,
   StopTimeout, Stopped, SendReply, Closed, Abandon, WriterSends, WriterDies, Terminated,
   vars, askVars, taskVars, envVars

LEMMA NextCalls == TableInv /\ Kept /\ Calls /\ [Next]_vars => Calls'
<1> SUFFICES ASSUME TableInv, Kept, Calls, [Next]_vars PROVE Calls'
  OBVIOUS
<1>1. CASE UNCHANGED <<queue, at, sending, owed, in_flight, strays, asks>>
  <2>1. \A j \in Ids : UNCHANGED Own(j)
    BY <1>1 DEF Own, AsksOf
  <2> QED
    BY <2>1, StepSpawnsOrHolds, NoneMoves, SpawnCalls
<1> QED
  BY <1>1, OtherStepsMoveNone, DeliverCalls, TaskStepCalls, AskStepCalls

LEMMA AlwaysCalls == Spec => []Calls
<1>1. Init => Calls
  BY DEF Init, Calls, Live, InTable, Blank, AsksOf
<1> QED
  BY <1>1, NextCalls, AlwaysTable, AlwaysKept, PTL DEF Spec

\* A live session loses no call: what its client waits on is queued, held for the
\* owner, at the backend or about to be answered, whatever the tasks and the main
\* loop do in between (Relay::deliver, Relay::confirm, SessionCtx::emit).
THEOREM NoCallEverLost == Spec => []NoCallLost
<1>1. Calls => NoCallLost
  BY DEF Calls, CallOK, NoCallLost
<1> QED
  BY <1>1, AlwaysCalls, PTL

\* The count that decides who is evicted is never above the number of calls a live
\* session has not answered, the ones its owner is asked about included, and below
\* it only by what its backend sent unasked (Activity).
THEOREM CountAlwaysFollows == Spec => []CountFollowsCalls
<1>1. Calls => CountFollowsCalls
  BY DEF Calls, CallOK, Counted, CountFollowsCalls
<1> QED
  BY <1>1, AlwaysCalls, PTL

LEMMA OnlyOpenEvicts ==
    ASSUME Typed, [Next]_vars, NEW i \in Ids, fate[i] # "evicted", fate'[i] = "evicted"
    PROVE  \E s \in Sid, a \in Alias, c \in Cred \cup {NoCred} :
               open(s, a, c) /\ OpenEvicting(s, a, c)
<1>1. \A x, next, adm : ReloadFate(x, next, adm) # "evicted"
  BY DEF ReloadFate
<1>2. ~(UNCHANGED fate)
  OBVIOUS
<1>3. \A s, w : Doom(s, w) /\ w # "evicted" => fate'[i] \in {fate[i], w}
  BY DEF Doom
<1>4. CASE \E s \in Sid, m \in Message : deliver(s, m)
  BY <1>2, <1>3, <1>4 DEF deliver, DeliverUnknown, DeliverForward, TrySend,
     DeliverRefused, DeliverConfirm, DeliverNoSlot
<1>5. CASE \E s \in Sid : oversized(s) \/ close(s)
  BY <1>2, <1>3, <1>5 DEF oversized, close
<1>6. CASE shutdown \/ \E next \in Tables, adm \in Admissions : reconfigure(next, adm)
  BY <1>1, <1>6 DEF shutdown, reconfigure
<1>7. CASE EndStop \/ StopTimeout \/ Abandon
  BY <1>7 DEF EndStop, StopTimeout, Stopped, Abandon, Typed, MainOK, FateOK
<1>8. CASE \E s \in Sid, a \in Alias, c \in Cred \cup {NoCred} : open(s, a, c)
  BY <1>2, <1>3, <1>8 DEF open, OpenDuplicate, OpenRefused, OpenAdmitted, mainVars
<1>9. CASE UNCHANGED fate
  BY <1>2, <1>9
<1> QED
  BY <1>4, <1>5, <1>6, <1>7, <1>8, <1>9 DEF Next, Handler, MainStep, OpenAfterEviction,
     BeginStop, SendReply, Closed, TaskStep, BackendStep, TakeMessage, EmitSent,
     EndSilently, EndItself, Leave, Killed, RemoveSelf, Report, Reap, Answer, Stray, AskStep,
     OwnerAnswers, ReleaseAllowed, ForwardAllowed, ReleaseDenied, ReplyDenied, WriterSends,
     WriterDies, Terminated, vars, mainVars

\* What session i owes its client, but for what is on its way out.
Rest(i) == owed[i] \ (sending[i] \cup Declined(i))

LEMMA FewAreLeft ==
    ASSUME Typed, NEW i \in Ids, CallOK(i), in_flight[i] = 0
    PROVE  Cardinality(Rest(i)) <= strays[i]
<1>1. Rest(i) \in SUBSET Unanswered(i)
  BY DEF CallOK, Rest
<1>2. /\ Cardinality(Rest(i)) <= Cardinality(Unanswered(i))
      /\ Cardinality(Rest(i)) \in Nat /\ Cardinality(Unanswered(i)) \in Nat
  BY <1>1, CallsTyped, FS_Subset, FS_CardinalityType
<1>3. Cardinality(Unanswered(i)) <= strays[i] /\ strays[i] \in Nat
  BY <1>2, RelayAssumption DEF CallOK, Counted, Typed, EnvOK
<1> QED
  BY <1>2, <1>3

\* A live session that is evicted owes its client what is on its way out, and at most
\* one call for each stray of its backend (Relay::evictable): the count the choice
\* looks at follows the calls.
THEOREM EvictionAlwaysSparesCalls == Spec => EvictionSparesCalls
<1>1. ASSUME Typed, Calls, NEW i \in Ids, NEW a, NEW s \in Evictable(a), i = table[s],
             task[i] = "running"
      PROVE  Cardinality(Rest(i)) <= strays[i]
  <2>1. Live(i) /\ in_flight[i] = 0
    BY <1>1 DEF Evictable, LiveOn, Live, InTable
  <2> QED
    BY <1>1, <2>1, FewAreLeft DEF Calls
<1>2. ASSUME Typed, Calls, [Next]_vars
      PROVE  \A i \in Ids : fate[i] = "none" /\ fate'[i] = "evicted" /\ task[i] = "running"
                                => Cardinality(Rest(i)) <= strays[i]
  <2> TAKE i \in Ids
  <2> HAVE fate[i] = "none" /\ fate'[i] = "evicted" /\ task[i] = "running"
  <2>1. PICK a \in Alias : \E s \in Evictable(a) : Doom(s, "evicted")
    BY <1>2, OnlyOpenEvicts DEF OpenEvicting
  <2>2. PICK s \in Evictable(a) : Doom(s, "evicted")
    BY <2>1
  <2>3. i = table[s]
    BY <2>2 DEF Doom
  <2> QED
    BY <1>1, <1>2, <2>3
<1> QED
  BY <1>2, AlwaysTyped, AlwaysCalls, PTL DEF Spec, EvictionSparesCalls, Rest

-----------------------------------------------------------------------------
(* The last word of a session.                                             *)

\* A session in the table runs, or has ended by itself, as long as there is a
\* writer; one that was told to stop is not in the table.
Ending == {"ended", "dying", "reporting"}
Stands ==
    /\ \A i \in Ids : InTable(i) /\ writer = "up" => task[i] = "running" \/ i \in self_ended
    /\ \A i \in Ids : task[i] \in Ending => i \in self_ended
    /\ \A i \in signalled : i <= next_id /\ ~InTable(i)

\* What a step that spawns nothing does to that.
StandsOn ==
    /\ writer' = "up" => writer = "up"
    /\ self_ended \subseteq self_ended'
    /\ \A i \in Ids : task'[i] = task[i] \/ i \in self_ended' \/ ~InTable(i)'
                      \/ writer' = "down"
    /\ \A i \in Ids : task'[i] \in Ending => task[i] \in Ending \/ i \in self_ended'
    /\ \A i \in signalled' : i \in signalled \/ (i <= next_id /\ ~InTable(i)')

LEMMA StandsKept == Stands /\ HoldsOn /\ StandsOn => Stands'
<1> SUFFICES ASSUME Stands, HoldsOn, StandsOn PROVE Stands'
  OBVIOUS
<1>1. \A i : InTable(i)' => InTable(i)
  BY DEF HoldsOn, InTable
<1>2. next_id' = next_id
  BY DEF HoldsOn
<1>3. \A i \in Ids : InTable(i)' /\ writer' = "up" => task'[i] = "running" \/ i \in self_ended'
  BY <1>1 DEF Stands, StandsOn
<1>4. \A i \in Ids : task'[i] \in Ending => i \in self_ended'
  BY DEF Stands, StandsOn
<1>5. \A i \in signalled' : i <= next_id' /\ ~InTable(i)'
  BY <1>1, <1>2 DEF Stands, StandsOn
<1> QED
  BY <1>3, <1>4, <1>5 DEF Stands

LEMMA DoomedIsOut ==
    ASSUME TableInv, Kept, NEW i \in Doomed
    PROVE  i <= next_id /\ ~InTable(i)
BY DEF Kept, TableInv, TableCurrent, InTable

LEMMA MainStands ==
    ASSUME TableInv, Kept, Stands, (\E i \in Ids : BeginStop(i)) \/ EndStop \/ StopTimeout
           \/ SendReply \/ Closed \/ Abandon
    PROVE  StandsOn
<1>1. CASE \E i \in Ids : BeginStop(i)
  <2>1. PICK i \in Doomed : signalled' = signalled \cup {i}
    BY <1>1 DEF BeginStop
  <2>2. UNCHANGED <<task, self_ended, writer, table>>
    BY <1>1 DEF BeginStop, wireVars, tableVars
  <2>3. i <= next_id /\ ~InTable(i)'
    BY <2>1, <2>2, DoomedIsOut DEF InTable
  <2> QED
    BY <2>1, <2>2, <2>3 DEF StandsOn
<1>2. CASE SendReply \/ Closed
  BY <1>2 DEF SendReply, Closed, taskVars, StandsOn
<1>3. CASE EndStop \/ StopTimeout
  <2>1. PICK i \in signalled : i = stopping
    BY <1>3 DEF EndStop, StopTimeout, TableInv, Typed, StopOK
  <2>2. /\ UNCHANGED <<signalled, self_ended, writer, table>>
        /\ \A j \in Ids : task'[j] = task[j] \/ (j = i /\ task'[j] \in {"aborted", "dying"})
        /\ \A j \in Ids : task'[j] = "dying" => task[j] \in Ending
        /\ \A j \in Ids : task'[j] \in Ending => task[j] \in Ending
    BY <1>3, <2>1 DEF EndStop, StopTimeout, AbortAt, Stopped, wireVars, tableVars, TableInv,
       Typed, TaskOK, Ending
  <2>3. ~InTable(i)'
    BY <2>1, <2>2 DEF Stands, InTable
  <2> QED
    BY <2>1, <2>2, <2>3 DEF StandsOn
<1>4. CASE Abandon
  <2>1. /\ writer' = "down" /\ UNCHANGED self_ended
        /\ signalled' = signalled \cup Doomed \cup {i \in Ids : InTable(i)}
        /\ \A s \in Sid : table'[s] = 0
        /\ \A i \in Ids : task'[i] \in Ending => task[i] \in Ending
    BY <1>4 DEF Abandon, AbortAt, Ending
  <2>2. \A i : ~InTable(i)'
    BY <2>1 DEF InTable
  <2>3. \A i \in Ids : InTable(i) => i <= next_id
    BY DEF TableInv, Numbered, InTable
  <2>4. \A i \in signalled' : i <= next_id
    BY <2>1, <2>3, DoomedIsOut DEF Stands
  <2> QED
    BY <2>1, <2>2, <2>4 DEF StandsOn
<1> QED
  BY <1>1, <1>2, <1>3, <1>4

LEMMA TaskStands ==
    ASSUME TableInv, Kept, Stands, NEW i \in Ids, TaskStep(i) \/ BackendStep(i)
    PROVE  StandsOn
<1> USE DEF TableInv, Typed, TaskOK, wireVars, tableVars
<1>1. CASE \/ TakeMessage(i) \/ Stray(i)
           \/ \E r \in Rid \cup Strays : EmitSent(i, r)
           \/ \E r \in Rid : Answer(i, r)
  BY <1>1 DEF TakeMessage, EmitSent, Answer, Stray, StandsOn
<1>2. CASE EndItself(i)
  <2>1. /\ self_ended' = self_ended \cup {i} /\ UNCHANGED <<writer, signalled, table>>
        /\ \A j \in Ids : task'[j] = IF j = i THEN "killing" ELSE task[j]
    BY <1>2 DEF EndItself, Leave
  <2> QED
    BY <2>1 DEF StandsOn, Ending
<1>3. CASE EndSilently(i)
  <2>1. /\ self_ended \subseteq self_ended' /\ UNCHANGED <<writer, signalled, table>>
        /\ \A j \in Ids : task'[j] = IF j = i THEN "killing" ELSE task[j]
        /\ i \in signalled \/ writer = "down"
    BY <1>3 DEF EndSilently, Leave
  <2>2. ~InTable(i)' \/ writer' = "down"
    BY <2>1 DEF Stands, InTable
  <2> QED
    BY <2>1, <2>2 DEF StandsOn, Ending
<1>4. CASE Killed(i) \/ RemoveSelf(i) \/ Report(i) \/ Reap(i)
  <2>1. /\ UNCHANGED <<writer, signalled, self_ended>>
        /\ \A s \in Sid : table'[s] \in {0, table[s]}
        /\ \A j \in Ids \ {i} : task'[j] = task[j]
        /\ task[i] # "running"
        /\ task'[i] \in Ending => task[i] \in Ending \/ i \in self_ended
    BY <1>4 DEF Killed, RemoveSelf, Report, Reap, TableOK, Ending
  <2>2. \A j : InTable(j)' => InTable(j)
    BY <2>1 DEF InTable
  <2>3. i \in self_ended \/ ~InTable(i)' \/ writer' = "down"
    BY <2>1, <2>2 DEF Stands, WireOK
  <2> QED
    BY <2>1, <2>3 DEF StandsOn
<1> QED
  BY <1>1, <1>2, <1>3, <1>4 DEF TaskStep, BackendStep

LEMMA OthersStand ==
    ASSUME UNCHANGED <<task, signalled, self_ended>>, writer' = "up" => writer = "up"
    PROVE  StandsOn
BY DEF StandsOn

LEMMA HandlerStands ==
    ASSUME TableInv, Handler
    PROVE  StandsOn \/ Spawns
<1>1. ASSUME NEW s \in Sid, NEW a \in Alias, NEW c \in Cred \cup {NoCred}, open(s, a, c)
      PROVE  StandsOn \/ Spawns
  BY <1>1, AdmittedSpawns, OthersStand DEF open, taskVars, wireVars
<1>2. CASE ~ \E s \in Sid, a \in Alias, c \in Cred \cup {NoCred} : open(s, a, c)
  BY <1>2, OthersStand DEF Handler, deliver, oversized, close, reconfigure, shutdown,
     taskVars, wireVars
<1> QED
  BY <1>1, <1>2

LEMMA NextStands ==
    ASSUME TableInv, Kept, Stands, [Next]_vars
    PROVE  Stands' /\ (~Spawns => StandsOn)
<1>0. TableInv' /\ Kept'
  BY NextTable, StepSpawnsOrHolds, HoldKept, SpawnKeeps DEF TableInv
<1>1. CASE Spawns
  <2>1. PICK x \in Session : Spawn(x)
    BY <1>1 DEF Spawns
  <2>2. PICK n \in Ids : n = next_id' /\ n = next_id + 1
    BY <2>1, RelayAssumption DEF TableInv, Typed, TableOK, Spawn, Ids
  <2>3. /\ task'[n] = "running" /\ \A j \in Ids \ {n} : task'[j] = task[j]
        /\ \A j \in Ids \ {n} : InTable(j)' => InTable(j)
        /\ UNCHANGED <<signalled, self_ended>>
    BY <2>1, <2>2 DEF Spawn, TableInv, Typed, TableOK, TaskOK, InTable, Session
  <2>4. \A i \in signalled : i <= next_id' /\ ~InTable(i)'
    BY <2>2, <2>3, RelayAssumption DEF Stands, TableInv, Typed, TableOK, TaskOK, Ids
  <2>5. writer' = writer
    BY <1>1 DEF Spawns
  <2>6. \A i \in Ids : InTable(i)' /\ writer' = "up" =>
                           task'[i] = "running" \/ i \in self_ended'
    BY <2>3, <2>5 DEF Stands
  <2>7. \A i \in Ids : task'[i] \in Ending => i \in self_ended'
    BY <2>3 DEF Stands, Ending
  <2> QED
    BY <1>1, <2>3, <2>4, <2>6, <2>7 DEF Stands
<1>2. CASE ~Spawns
  <2>1. HoldsOn
    BY <1>2, StepSpawnsOrHolds
  <2>2. StandsOn
    <3>1. CASE (\E k \in asks : AskStep(k)) \/ WriterSends \/ WriterDies \/ UNCHANGED vars
      BY <3>1, OthersStand DEF AskStep, OwnerAnswers, ReleaseAllowed, ForwardAllowed,
         ReleaseDenied, ReplyDenied, WriterSends, WriterDies, vars, taskVars, wireVars
    <3> QED
      BY <1>2, <3>1, HandlerStands, EvictionSpawns, MainStands, TaskStands
         DEF Next, MainStep, Terminated
  <2> QED
    BY <1>2, <2>1, <2>2, StandsKept
<1> QED
  BY <1>1, <1>2

\* What the gateway has been told of a session, or is about to be.
Gone == {"over", "aborted", "dying", "reporting", "dropped"}
LastWord ==
    /\ \A i \in told : task[i] \in Gone
    /\ reply.tag = "session_close" /\ reply.from # 0 => task[reply.from] \in Gone
    /\ reply.tag = "mcp" => reply.from \in 1..next_id /\ HoldsSid(reply.from)

LEMMA GoneStays ==
    ASSUME TableInv, Kept, [Next]_vars, NEW i \in Ids, task[i] \in Gone
    PROVE  task'[i] \in Gone
<1>1. CASE Spawns
  <2>1. PICK x \in Session : Spawn(x)
    BY <1>1 DEF Spawns
  <2>2. task[next_id'] = "unborn"
    BY <2>1, RelayAssumption DEF Kept, TableInv, Typed, TableOK, Spawn, Ids
  <2> QED
    BY <2>1, <2>2 DEF Spawn, TableInv, Typed, TaskOK, Gone
<1>2. CASE EndStop \/ StopTimeout \/ Abandon
  BY <1>2 DEF EndStop, StopTimeout, Abandon, AbortAt, TableInv, Typed, TaskOK, Gone
<1>3. CASE \E j \in Ids : TaskStep(j) \/ BackendStep(j)
  <2>1. PICK j \in Ids : TaskStep(j) \/ BackendStep(j)
    BY <1>3
  <2>2. CASE j # i
    BY <2>1, <2>2, TaskTouches DEF TableInv
  <2>3. CASE j = i
    BY <2>1, <2>3 DEF TaskStep, BackendStep, TakeMessage, EmitSent, EndSilently, EndItself,
       Leave, Killed, RemoveSelf, Report, Reap, Answer, Stray, TableInv, Typed, TaskOK, Gone
  <2> QED
    BY <2>2, <2>3
<1>4. CASE UNCHANGED task
  BY <1>4
<1>5. ASSUME NEW s \in Sid, NEW a \in Alias, NEW c \in Cred \cup {NoCred}, open(s, a, c)
      PROVE  Spawns \/ UNCHANGED task
  BY <1>5, AdmittedSpawns DEF open, taskVars, TableInv
<1> QED
  BY <1>1, <1>2, <1>3, <1>4, <1>5, EvictionSpawns
     DEF Next, Handler, deliver, oversized, close, reconfigure, shutdown, MainStep, BeginStop,
     SendReply, Closed, AskStep, OwnerAnswers, ReleaseAllowed, ForwardAllowed, ReleaseDenied,
     ReplyDenied, WriterSends, WriterDies, Terminated, vars, taskVars

LEMMA ToldChanges ==
    ASSUME [Next]_vars
    PROVE  \/ UNCHANGED told
           \/ \E i \in Ids : Report(i) /\ told' = told \cup {i}
           \/ /\ SendReply /\ told' = told \cup {reply.from}
              /\ reply.tag = "session_close" /\ reply.from # 0
<1>1. ASSUME NEW i \in Ids, Report(i) PROVE told' \in {told, told \cup {i}}
  BY <1>1 DEF Report, SendFrame, Put, CloseFrame
<1>2. CASE SendReply
  BY <1>2 DEF SendReply, SendFrame, Put
<1>3. ASSUME NEW i \in Ids, NEW r \in Rid \cup Strays, EmitSent(i, r) PROVE UNCHANGED told
  BY <1>3 DEF EmitSent, Put, McpFrame
<1>4. ASSUME NEW k \in asks, ReplyDenied(k) PROVE UNCHANGED told
  BY <1>4 DEF ReplyDenied, SendFrame, Put, McpFrame
<1> QED
  BY <1>1, <1>2, <1>3, <1>4
     DEF Next, Handler, open, deliver, oversized, close, reconfigure, shutdown, MainStep,
     OpenAfterEviction, BeginStop, EndStop, StopTimeout, Stopped, Closed, Abandon, TaskStep,
     BackendStep, TakeMessage, EndSilently, EndItself, Leave, Killed, RemoveSelf, Reap, Answer, Stray,
     AskStep, OwnerAnswers, ReleaseAllowed, ForwardAllowed, ReleaseDenied, WriterSends,
     WriterDies, Terminated, vars, envVars

\* The frames the main loop sets out to send.
LEMMA ReplyChanges ==
    ASSUME [Next]_vars
    PROVE  \/ UNCHANGED reply
           \/ reply' = NoFrame
           \/ \E w : reply' = CloseFrame(0, w) /\ w # "evicted"
           \/ \E s \in Sid : /\ table[s] # 0 /\ reply' = McpFrame(table[s], "refused")
                             /\ UNCHANGED <<table, session, next_id>>
           \/ /\ EndStop \/ StopTimeout
              /\ reply' = CloseFrame(stopping, fate[stopping])
<1>1. ASSUME NEW s, NEW a, NEW c, OpenRefused(s, a, c)
      PROVE  \E w : reply' = CloseFrame(0, w) /\ w # "evicted"
  BY <1>1 DEF OpenRefused, Refuse, Refusal
<1>2. CASE \E s \in Sid, a \in Alias, c \in Cred \cup {NoCred} : open(s, a, c)
  BY <1>1, <1>2 DEF open, OpenDuplicate, OpenEvicting, OpenAdmitted, mainVars
<1>3. ASSUME NEW s \in Sid, NEW m \in Message, deliver(s, m)
      PROVE  \/ UNCHANGED reply
             \/ reply' = CloseFrame(0, "unknown_session")
             \/ /\ table[s] # 0 /\ reply' = McpFrame(table[s], "refused")
                /\ UNCHANGED <<table, session, next_id>>
  BY <1>3 DEF deliver, DeliverUnknown, DeliverForward, DeliverRefused, DeliverConfirm,
     DeliverNoSlot, Refuse
<1>4. ASSUME NEW s \in Sid, oversized(s)
      PROVE  UNCHANGED reply \/ reply' = CloseFrame(0, "message_too_large")
  BY <1>4 DEF oversized, Refuse
<1>5. CASE EndStop \/ StopTimeout
  BY <1>5 DEF EndStop, StopTimeout, Stopped
<1> QED
  BY <1>2, <1>3, <1>4, <1>5
     DEF Next, Handler, close, reconfigure, shutdown, MainStep, OpenAfterEviction, BeginStop,
     SendReply, Closed, Abandon, TaskStep, BackendStep, TakeMessage, EmitSent, EndSilently,
     EndItself, Leave, Killed, RemoveSelf, Report, Reap, Answer, Stray, AskStep, OwnerAnswers,
     ReleaseAllowed, ForwardAllowed, ReleaseDenied, ReplyDenied, WriterSends, WriterDies,
     Terminated, vars, mainVars

LEMMA NextLastWord ==
    ASSUME TableInv, Kept, LastWord, [Next]_vars
    PROVE  LastWord'
<1>0. Typed /\ told \subseteq Ids
  BY DEF TableInv, Typed, EnvOK
<1>r. reply \in Frame \cup {NoFrame}
  BY DEF TableInv, Typed, MainOK, ReplyOK
<1>1. \A i \in told' : task'[i] \in Gone
  <2>1. ASSUME NEW i \in Ids, Report(i) PROVE task'[i] \in Gone
    BY <2>1 DEF Report, TableInv, Typed, TaskOK, Gone
  <2>2. reply.tag = "session_close" /\ reply.from # 0 => reply.from \in Ids
    BY <1>r DEF Frame, NoFrame
  <2> QED
    BY <1>0, <2>1, <2>2, ToldChanges, GoneStays DEF LastWord
<1>2. reply'.tag = "session_close" /\ reply'.from # 0 => task'[reply'.from] \in Gone
  <2>1. CASE UNCHANGED reply
    <3>1. reply.tag = "session_close" /\ reply.from # 0 => reply.from \in Ids
      BY <1>r DEF Frame, NoFrame
    <3> QED
      BY <2>1, <3>1, GoneStays DEF LastWord
  <2>2. CASE EndStop \/ StopTimeout
    <3>1. PICK i \in Ids : i = stopping /\ task'[i] \in Gone
      BY <2>2 DEF EndStop, StopTimeout, AbortAt, TableInv, Typed, TaskOK, StopOK, Doomed, Gone
    <3>2. reply' = reply \/ reply'.from = i
      BY <2>2, <3>1 DEF EndStop, StopTimeout, Stopped, CloseFrame
    <3> QED
      BY <2>1, <3>1, <3>2
  <2> QED
    BY <2>1, <2>2, ReplyChanges DEF NoFrame, CloseFrame, McpFrame
<1>3. reply'.tag = "mcp" => reply'.from \in 1..next_id' /\ HoldsSid(reply.from)'
  <2> SUFFICES ASSUME reply'.tag = "mcp"
               PROVE  reply'.from \in 1..next_id' /\ HoldsSid(reply.from)'
    OBVIOUS
  <2>1. CASE \E s \in Sid : /\ table[s] # 0 /\ reply' = McpFrame(table[s], "refused")
                            /\ UNCHANGED <<table, session, next_id>>
    <3>a. PICK s \in Sid : /\ table[s] # 0 /\ reply' = McpFrame(table[s], "refused")
                            /\ UNCHANGED <<table, session, next_id>>
      BY <2>1
    <3> PICK i : i = table[s]
      OBVIOUS
    <3>1. /\ i = table[s] /\ i # 0 /\ reply' = McpFrame(i, "refused")
          /\ UNCHANGED <<table, session, next_id>>
      BY <3>a
    <3>2. session[i].sid = s /\ i \in 1..next_id /\ reply'.from = i
      BY <3>1 DEF TableInv, TableCurrent, Numbered, Typed, TableOK, McpFrame
    <3> QED
      BY <3>1, <3>2 DEF HoldsSid
  <2>2. CASE UNCHANGED reply
    <3>1. HoldsOn
      BY <2>2, StepSpawnsOrHolds DEF Spawns, NoFrame
    <3>2. PICK i : i = reply.from
      OBVIOUS
    <3>3. i \in 1..next_id /\ HoldsSid(i)
      BY <2>2, <3>2 DEF LastWord
    <3>4. session[i] \in Session
      BY <3>3, RelayAssumption DEF Kept, TableInv, Typed, TableOK, Ids
    <3>5. HoldsSid(i)'
      BY <3>1, <3>3, <3>4 DEF HoldsOn, HoldsSid, Session
    <3> QED
      BY <2>2, <3>1, <3>2, <3>3, <3>5 DEF HoldsOn
  <2> QED
    BY <2>1, <2>2, ReplyChanges DEF NoFrame, CloseFrame
<1> QED
  BY <1>1, <1>2, <1>3 DEF LastWord

\* Of a session that was chosen for eviction while it ran, one call for each stray
\* of its backend may be left, besides what is on its way out.
Evicted(i) == fate[i] = "evicted" \/ reply = CloseFrame(i, "evicted")

Done(i) ==
    /\ i <= next_id /\ ~InTable(i)
    /\ task[i] \in {"running", "killing", "over"} => Cardinality(Rest(i)) <= strays[i]
    /\ task[i] \in {"killing", "over"} => sending[i] = {}

Watched(i) == /\ Evicted(i) /\ writer = "up" /\ i \notin self_ended
              /\ session[i].entry.transport = "stdio"

Spared == \A i \in Ids : Watched(i) => Done(i)

LEMMA RestShrinks ==
    ASSUME Typed, Typed', NEW i \in Ids, Cardinality(Rest(i)) <= strays[i],
           Rest(i)' \subseteq Rest(i), strays[i] <= strays'[i]
    PROVE  Cardinality(Rest(i)') <= strays'[i]
<1>1. Rest(i) \in SUBSET Rid /\ Rest(i)' \in SUBSET Rest(i) /\ IsFiniteSet(Rid)
  BY RelayAssumption DEF Rest, Typed, EnvOK
<1>2. IsFiniteSet(Rest(i)) /\ IsFiniteSet(Rest(i)')
  BY <1>1, FS_Subset
<1>3. /\ Cardinality(Rest(i)') <= Cardinality(Rest(i))
      /\ Cardinality(Rest(i)) \in Nat /\ Cardinality(Rest(i)') \in Nat
  BY <1>1, <1>2, FS_Subset, FS_CardinalityType
<1>4. strays[i] \in Nat /\ strays'[i] \in Nat
  BY RelayAssumption DEF Typed, EnvOK
<1> QED
  BY <1>3, <1>4

\* Who is out of the table stays out.
LEMMA OutStays ==
    ASSUME TableInv, Kept, [Next]_vars, NEW i \in Ids, i <= next_id, ~InTable(i)
    PROVE  i <= next_id' /\ ~InTable(i)' /\ session'[i] = session[i]
<1>1. CASE HoldsOn
  BY <1>1 DEF HoldsOn, InTable
<1>2. CASE Spawns
  <2>1. PICK x \in Session : Spawn(x)
    BY <1>2 DEF Spawns
  <2>2. next_id' = next_id + 1 /\ next_id \in Int /\ i # next_id' /\ i # 0 /\ i \in Int
    BY <2>1, RelayAssumption DEF Spawn, TableInv, Typed, TableOK, Ids
  <2>3. /\ session'[i] = session[i]
        /\ \A q \in Sid : table'[q] \in {table[q], next_id'}
    BY <2>1, <2>2 DEF Spawn, TableInv, Typed, TableOK
  <2> QED
    BY <2>2, <2>3 DEF InTable
<1> QED
  BY <1>1, <1>2, StepSpawnsOrHolds

LEMMA DoneFrame ==
    ASSUME NEW i, Done(i), UNCHANGED Own(i), task'[i] \in {task[i], "aborted", "dying"},
           i <= next_id', ~InTable(i)'
    PROVE  Done(i)'
<1>1. Declined(i)' = Declined(i)
  BY OwnFrame
<1>2. Rest(i)' = Rest(i) /\ UNCHANGED <<sending[i], strays[i]>>
  BY <1>1 DEF Rest, Own
<1> QED
  BY <1>2 DEF Done

LEMMA TaskDone ==
    ASSUME TableInv, Typed', Stands, NEW i \in Ids, TaskStep(i) \/ BackendStep(i), Done(i),
           writer = "up", i \notin self_ended', session[i].entry.transport = "stdio",
           i <= next_id', ~InTable(i)'
    PROVE  Done(i)'
<1>0. Typed /\ task[i] \notin Ending
  <2>1. self_ended \subseteq self_ended'
    BY DEF TaskStep, BackendStep, TakeMessage, EmitSent, EndSilently, EndItself, Leave,
       Killed, RemoveSelf, Report, Reap, Answer, Stray
  <2> QED
    BY <2>1 DEF TableInv, Stands
<1>1. Declined(i)' = Declined(i)
  BY DEF TaskStep, BackendStep, TakeMessage, EmitSent, EndSilently, EndItself, Leave,
     Killed, RemoveSelf, Report, Reap, Answer, Stray, askVars, Declined
<1>s. strays[i] \in Nat
  BY <1>0, RelayAssumption DEF Typed, EnvOK
<1>2. CASE TakeMessage(i) \/ Killed(i)
  <2>1. /\ UNCHANGED <<sending, owed, strays>>
        /\ task'[i] = task[i] \/ (task[i] = "killing" /\ task'[i] \in {"ended", "over"})
    BY <1>0, <1>2 DEF TakeMessage, Killed, envVars, Typed, TaskOK
  <2>2. Rest(i)' = Rest(i)
    BY <1>1, <2>1 DEF Rest
  <2> QED
    BY <2>1, <2>2 DEF Done
<1>3. ASSUME NEW r, EmitSent(i, r) PROVE Done(i)'
  <2>1. /\ UNCHANGED <<task, strays>> /\ task[i] = "running" /\ r \in sending[i]
        /\ sending'[i] = sending[i] \ {r} /\ owed'[i] = owed[i] \ {r}
    BY <1>0, <1>3 DEF EmitSent, Typed, TaskOK, EnvOK
  <2>2. Rest(i)' = Rest(i)
    BY <1>1, <2>1 DEF Rest
  <2> QED
    BY <2>1, <2>2 DEF Done
<1>4. CASE Stray(i) \/ \E r \in Rid : Answer(i, r)
  <2>1. /\ UNCHANGED <<task, owed>> /\ task[i] = "running"
        /\ sending[i] \subseteq sending'[i] /\ strays[i] <= strays'[i]
    BY <1>0, <1>4, <1>s DEF Stray, Answer, Typed, TaskOK, EnvOK, envVars
  <2>2. Rest(i)' \subseteq Rest(i)
    BY <1>1, <2>1 DEF Rest
  <2>3. Cardinality(Rest(i)') <= strays'[i]
    BY <1>0, <2>1, <2>2, RestShrinks DEF Done
  <2> QED
    BY <2>1, <2>3 DEF Done
<1>5. CASE EndSilently(i)
  <2>1. /\ sending[i] = {} /\ sending'[i] = {} /\ UNCHANGED <<owed, strays>>
        /\ task[i] = "running"
    BY <1>0, <1>5 DEF EndSilently, Leave, Busy, Typed, TaskOK, envVars
  <2>2. Rest(i)' = Rest(i)
    BY <1>1, <2>1 DEF Rest
  <2> QED
    BY <2>1, <2>2 DEF Done
<1>6. CASE Reap(i)
  BY <1>0, <1>6 DEF Reap, Typed, TaskOK, Done
<1>7. CASE EndItself(i) \/ RemoveSelf(i) \/ Report(i)
  BY <1>0, <1>7 DEF EndItself, RemoveSelf, Report, Ending
<1> QED
  BY <1>2, <1>3, <1>4, <1>5, <1>6, <1>7 DEF TaskStep, BackendStep

LEMMA AskDone ==
    ASSUME TableInv, Typed', NEW k \in asks, AskStep(k), NEW i \in Ids, Done(i),
           i <= next_id', ~InTable(i)'
    PROVE  Done(i)'
<1>0. UNCHANGED <<task, sending, strays>> /\ Typed
  BY DEF AskStep, OwnerAnswers, ReleaseAllowed, ForwardAllowed, ReleaseDenied, ReplyDenied,
     taskVars, envVars, TableInv
<1>1. CASE k.id # i
  BY <1>0, <1>1, AskTouches, DoneFrame
<1>2. CASE k.id = i
  <2>1. Rest(i)' \subseteq Rest(i)
    <3>1. CASE ReplyDenied(k)
      <4>1. asks' = asks \ {k} /\ owed'[i] = owed[i] \ {k.rid}
        BY <1>0, <1>2, <3>1 DEF ReplyDenied, Typed, EnvOK
      <4>2. Declined(i) \ {k.rid} \subseteq Declined(i)'
        BY <4>1 DEF Declined
      <4> QED
        BY <1>0, <4>1, <4>2 DEF Rest
    <3>2. CASE ForwardAllowed(k)
      <4>1. asks' = asks \ {k} /\ k.phase # "reply" /\ UNCHANGED owed
        BY <3>2 DEF ForwardAllowed, envVars
      <4>2. Declined(i)' = Declined(i)
        BY <4>1 DEF Declined
      <4> QED
        BY <1>0, <4>1, <4>2 DEF Rest
    <3>3. CASE OwnerAnswers(k) \/ ReleaseAllowed(k) \/ ReleaseDenied(k)
      <4>1. PICK n : asks' = (asks \ {k}) \cup {n}
        BY <1>0, <3>3, PhaseMoves DEF OwnerAnswers, ReleaseAllowed, ReleaseDenied, Typed
      <4>2. k.phase # "reply" /\ UNCHANGED owed
        BY <3>3 DEF OwnerAnswers, ReleaseAllowed, ReleaseDenied, envVars
      <4>3. Declined(i) \subseteq Declined(i)'
        BY <4>1, <4>2 DEF Declined
      <4> QED
        BY <1>0, <4>2, <4>3 DEF Rest
    <3> QED
      BY <3>1, <3>2, <3>3 DEF AskStep
  <2>2. strays[i] \in Nat
    BY <1>0, RelayAssumption DEF Typed, EnvOK
  <2>3. Cardinality(Rest(i)) <= strays[i] => Cardinality(Rest(i)') <= strays'[i]
    BY <1>0, <2>1, <2>2, RestShrinks
  <2> QED
    BY <1>0, <2>3 DEF Done
<1> QED
  BY <1>1, <1>2

LEMMA DoneStays ==
    ASSUME TableInv, Kept, Stands, [Next]_vars, NEW i \in Ids, Done(i), writer = "up",
           i \notin self_ended', session[i].entry.transport = "stdio"
    PROVE  Done(i)'
<1>0. Typed /\ Typed' /\ i <= next_id' /\ ~InTable(i)'
  BY OutStays, NextTyped DEF Done, TableInv
<1>1. ASSUME NEW s \in Sid, NEW m \in Message, deliver(s, m) PROVE Done(i)'
  <2>1. i # table[s] /\ UNCHANGED task
    BY <1>1 DEF deliver, Done, InTable, Ids
  <2> QED
    BY <1>0, <1>1, <2>1, DeliverTouches, DoneFrame
<1>2. ASSUME NEW j \in Ids, TaskStep(j) \/ BackendStep(j) PROVE Done(i)'
  <2>1. CASE j = i
    BY <1>0, <1>2, <2>1, TaskDone
  <2>2. CASE j # i
    BY <1>0, <1>2, <2>2, TaskTouches, DoneFrame
  <2> QED
    BY <2>1, <2>2
<1>3. ASSUME NEW k \in asks, AskStep(k) PROVE Done(i)'
  BY <1>0, <1>3, AskDone
<1>4. CASE UNCHANGED <<queue, at, sending, owed, in_flight, strays, asks>>
  <2>1. UNCHANGED Own(i)
    BY <1>4 DEF Own, AsksOf
  <2>2. CASE task'[i] \in {task[i], "aborted", "dying"}
    BY <1>0, <2>1, <2>2, DoneFrame
  <2>3. CASE task'[i] \notin {task[i], "aborted", "dying"}
    <3>1. CASE Spawns
      <4>1. PICK x \in Session : Spawn(x)
        BY <3>1 DEF Spawns
      <4>2. i # next_id'
        BY <4>1, RelayAssumption DEF Spawn, Done, TableInv, Typed, TableOK, Ids
      <4> QED
        BY <2>3, <4>1, <4>2 DEF Spawn, TableInv, Typed, TaskOK
    <3>2. ASSUME NEW s \in Sid, NEW a \in Alias, NEW c \in Cred \cup {NoCred}, open(s, a, c)
          PROVE  Spawns
      BY <2>3, <3>2, AdmittedSpawns DEF open, taskVars
    <3>3. ~(EndStop \/ StopTimeout \/ Abandon)
      BY <2>3 DEF EndStop, StopTimeout, Abandon, AbortAt, TableInv, Typed, TaskOK
    <3> QED
      BY <1>1, <1>2, <1>3, <2>3, <3>1, <3>2, <3>3, EvictionSpawns
         DEF Next, Handler, oversized, close, reconfigure, shutdown, MainStep, BeginStop,
         SendReply, Closed, WriterSends, WriterDies, Terminated, vars, taskVars
  <2> QED
    BY <2>2, <2>3
<1> QED
  BY <1>1, <1>2, <1>3, <1>4, OtherStepsMoveNone

\* The victim of an open is done: the count said so.
LEMMA EvictedIsDone ==
    ASSUME TableInv, Kept, Stands, Calls, NEW s \in Sid, NEW a \in Alias,
           NEW c \in Cred \cup {NoCred}, open(s, a, c), OpenEvicting(s, a, c),
           NEW i \in Ids, fate[i] = "none", fate'[i] = "evicted",
           writer = "up", i \notin self_ended
    PROVE  Done(i)'
<1>1. PICK q \in Evictable(a) : Doom(q, "evicted")
  BY DEF OpenEvicting
<1>2. i = table[q] /\ q \in Sid /\ i # 0 /\ in_flight[i] = 0
  BY <1>1 DEF Doom, Evictable, LiveOn
<1>3. InTable(i) /\ task[i] = "running" /\ i <= next_id
  BY <1>2 DEF InTable, Stands, TableInv, Numbered
<1>4. Cardinality(Rest(i)) <= strays[i]
  BY <1>2, <1>3, FewAreLeft DEF Calls, Live, TableInv
<1>5. UNCHANGED <<sending, owed, asks, strays, task, next_id>>
  BY <1>3 DEF open, OpenDuplicate, OpenRefused, OpenEvicting, OpenAdmitted, Doom, Refuse,
     taskVars, askVars, envVars, mainVars
<1>6. ~InTable(i)'
  BY <1>1, <1>2 DEF Doom, InTable, TableInv, Typed, TableOK, TableCurrent
<1>7. Rest(i)' = Rest(i)
  BY <1>5 DEF Rest, Declined
<1> QED
  BY <1>3, <1>4, <1>5, <1>6, <1>7 DEF Done

LEMMA NewlyEvicted ==
    ASSUME Typed, [Next]_vars, NEW i \in Ids, Evicted(i)', ~Evicted(i)
    PROVE  /\ fate[i] = "none" /\ fate'[i] = "evicted"
           /\ \E s \in Sid, a \in Alias, c \in Cred \cup {NoCred} :
                  open(s, a, c) /\ OpenEvicting(s, a, c)
<1>1. fate'[i] = "evicted"
  <2> SUFFICES ASSUME reply' = CloseFrame(i, "evicted") PROVE FALSE
    BY DEF Evicted
  <2>1. CASE EndStop \/ StopTimeout
    <3>1. reply' # CloseFrame(stopping, fate[stopping])
      BY DEF CloseFrame, Evicted
    <3> QED
      BY <2>1, <3>1 DEF EndStop, StopTimeout, Stopped, Evicted
  <2> QED
    BY <2>1, ReplyChanges DEF NoFrame, CloseFrame, McpFrame, Evicted, Ids
<1>2. \E s \in Sid, a \in Alias, c \in Cred \cup {NoCred} :
          open(s, a, c) /\ OpenEvicting(s, a, c)
  BY <1>1, OnlyOpenEvicts DEF Evicted
<1>3. fate[i] = "none"
  BY <1>2 DEF open, MainIdle, Doomed
<1> QED
  BY <1>1, <1>2, <1>3

LEMMA NextSpared ==
    ASSUME TableInv, Kept, Stands, Calls, Spared, [Next]_vars
    PROVE  Spared'
<1> SUFFICES ASSUME NEW i \in Ids, Watched(i)' PROVE Done(i)'
  BY DEF Spared
<1>1. CASE Evicted(i)
  <2>1. ~Spawns
    BY <1>1 DEF Spawns, Evicted, Doomed, CloseFrame, NoFrame
  <2>2. HoldsOn /\ StandsOn
    BY <2>1, StepSpawnsOrHolds, NextStands
  <2>3. Watched(i)
    BY <1>1, <2>2 DEF Watched, HoldsOn, StandsOn
  <2> QED
    BY <2>3, DoneStays DEF Spared, Watched
<1>2. CASE ~Evicted(i)
  <2>1. Evicted(i)' /\ Typed
    BY DEF Watched, TableInv
  <2>2. PICK s \in Sid, a \in Alias, c \in Cred \cup {NoCred} :
             open(s, a, c) /\ OpenEvicting(s, a, c)
    BY <1>2, <2>1, NewlyEvicted
  <2>3. UNCHANGED <<writer, self_ended>>
    BY <2>2 DEF open, OpenAdmitted, Spawn, taskVars, wireVars
  <2>4. writer = "up" /\ i \notin self_ended
    BY <2>3 DEF Watched
  <2>5. fate[i] = "none" /\ fate'[i] = "evicted"
    BY <1>2, <2>1, NewlyEvicted
  <2> QED
    BY <2>2, <2>4, <2>5, EvictedIsDone
<1> QED
  BY <1>1, <1>2

LEMMA AlwaysLastWord == Spec => [](Stands /\ LastWord /\ Spared)
<1>1. Init => Stands /\ LastWord /\ Spared
  BY DEF Init, Stands, Ending, LastWord, Spared, Watched, Evicted, InTable, NoFrame, CloseFrame
<1>2. TableInv /\ Kept /\ Calls /\ (Stands /\ LastWord /\ Spared) /\ [Next]_vars
          => (Stands /\ LastWord /\ Spared)'
  BY NextStands, NextLastWord, NextSpared
<1> QED
  BY <1>1, <1>2, AlwaysTable, AlwaysKept, AlwaysCalls, PTL DEF Spec

-----------------------------------------------------------------------------
(* No session ends behind the gateway's back.                              *)

Spoken(i) == i \in told \/ i \in hung_up \/ InTable(i) \/ ToBeReported(i)

\* While the main loop waits for a task it sends nothing; what it ends silently
\* while the connection lasts is what the gateway closed; a task that was aborted
\* on its way out has lost its place in the table before.
Quiet == stopping # 0 => reply = NoFrame
Hung == conn = "up" => \A i \in Doomed : fate[i] = "silent" => i \in hung_up
DyingOut == \A i \in Ids : task[i] = "dying" => ~InTable(i)
Heard == Quiet /\ Hung /\ DyingOut /\ NoSilentEnd

LEMMA Lasting ==
    ASSUME [Next]_vars
    PROVE  /\ told \subseteq told' /\ hung_up \subseteq hung_up'
           /\ conn' = "up" => conn = "up"
           /\ writer' = "up" => writer = "up"
<1>1. told \subseteq told'
  BY ToldChanges
<1>2. hung_up \subseteq hung_up'
  BY DEF Next, Handler, open, deliver, oversized, close, reconfigure, shutdown, MainStep,
     OpenAfterEviction, BeginStop, EndStop, StopTimeout, Stopped, SendReply, Closed, Abandon,
     TaskStep, BackendStep, TakeMessage, EmitSent, EndSilently, EndItself, Leave, Killed,
     RemoveSelf, Report, Reap, Answer, Stray, AskStep, OwnerAnswers, ReleaseAllowed,
     ForwardAllowed, ReleaseDenied, ReplyDenied, WriterSends, WriterDies, Terminated, vars,
     envVars
<1>3. (conn' = "up" => conn = "up") /\ (writer' = "up" => writer = "up")
  BY DEF Next, Handler, open, deliver, oversized, close, reconfigure, shutdown, MainStep,
     OpenAfterEviction, BeginStop, EndStop, StopTimeout, Stopped, SendReply, Closed, Abandon,
     TaskStep, BackendStep, TakeMessage, EmitSent, EndSilently, EndItself, Leave, Killed,
     RemoveSelf, Report, Reap, Answer, Stray, AskStep, OwnerAnswers, ReleaseAllowed,
     ForwardAllowed, ReleaseDenied, ReplyDenied, WriterSends, WriterDies, Terminated, vars,
     wireVars
<1> QED
  BY <1>1, <1>2, <1>3

LEMMA HandlerFrame ==
    ASSUME Handler \/ OpenAfterEviction
    PROVE  Doomed = {} /\ reply = NoFrame /\ UNCHANGED stopping
BY DEF Handler, open, OpenDuplicate, OpenRefused, OpenEvicting, OpenAdmitted, deliver,
   oversized, close, reconfigure, shutdown, OpenAfterEviction, MainIdle, mainVars

LEMMA NextQuiet ==
    ASSUME TableInv, Quiet, [Next]_vars
    PROVE  Quiet'
<1>1. CASE Handler \/ OpenAfterEviction
  BY <1>1, HandlerFrame DEF TableInv, Typed, StopOK, Quiet
<1>2. CASE ~(Handler \/ OpenAfterEviction)
  BY <1>2 DEF Quiet, Next, MainStep, BeginStop, EndStop, StopTimeout, Stopped, SendReply,
     Closed, Abandon, TaskStep, BackendStep, TakeMessage, EmitSent, EndSilently, EndItself,
     Leave, Killed, RemoveSelf, Report, Reap, Answer, Stray, AskStep, OwnerAnswers,
     ReleaseAllowed, ForwardAllowed, ReleaseDenied, ReplyDenied, WriterSends, WriterDies,
     Terminated, vars, mainVars
<1> QED
  BY <1>1, <1>2

LEMMA NextHung ==
    ASSUME TableInv, Hung, [Next]_vars
    PROVE  Hung'
<1> SUFFICES ASSUME conn' = "up", NEW i \in Ids, fate'[i] = "silent", fate[i] # "silent"
             PROVE  i \in hung_up'
  BY Lasting DEF Hung, Doomed
<1>1. \A x, next, adm : ReloadFate(x, next, adm) # "silent"
  BY DEF ReloadFate
<1>2. ~(UNCHANGED fate)
  OBVIOUS
<1>3. \A s, w : Doom(s, w) /\ w # "silent" => FALSE
  BY DEF Doom
<1>4. ASSUME NEW s \in Sid, close(s) PROVE i \in hung_up'
  BY <1>4 DEF close, Doom
<1>5. CASE \E s \in Sid, m \in Message : deliver(s, m)
  BY <1>2, <1>3, <1>5 DEF deliver, DeliverUnknown, DeliverForward, TrySend,
     DeliverRefused, DeliverConfirm, DeliverNoSlot
<1>6. CASE \E s \in Sid : oversized(s)
  BY <1>2, <1>3, <1>6 DEF oversized
<1>7. CASE shutdown \/ \E next \in Tables, adm \in Admissions : reconfigure(next, adm)
  BY <1>1, <1>7 DEF shutdown, reconfigure
<1>8. CASE EndStop \/ StopTimeout \/ Abandon
  BY <1>8 DEF EndStop, StopTimeout, Stopped, Abandon, TableInv, Typed, MainOK, FateOK
<1>9. CASE \E s \in Sid, a \in Alias, c \in Cred \cup {NoCred} : open(s, a, c)
  BY <1>2, <1>3, <1>9 DEF open, OpenDuplicate, OpenRefused, OpenEvicting, OpenAdmitted,
     mainVars
<1> QED
  BY <1>2, <1>4, <1>5, <1>6, <1>7, <1>8, <1>9 DEF Next, Handler, MainStep,
     OpenAfterEviction, BeginStop, SendReply, Closed, TaskStep, BackendStep, TakeMessage,
     EmitSent, EndSilently, EndItself, Leave, Killed, RemoveSelf, Report, Reap, Answer, Stray,
     AskStep, OwnerAnswers, ReleaseAllowed, ForwardAllowed, ReleaseDenied, ReplyDenied,
     WriterSends, WriterDies, Terminated, vars, mainVars

\* How a step changes where task i is, when it neither spawns it nor is its own.
LEMMA TaskChanges ==
    ASSUME TableInv, Kept, [Next]_vars, NEW i \in Ids, i <= next_id
    PROVE  \/ task'[i] = task[i]
           \/ StopTimeout /\ stopping = i /\ task'[i] = AbortAt(task[i])
           \/ Abandon
           \/ TaskStep(i) \/ BackendStep(i)
<1>1. CASE Spawns
  <2>1. PICK x \in Session : Spawn(x)
    BY <1>1 DEF Spawns
  <2>2. i # next_id'
    BY <2>1, RelayAssumption DEF Spawn, TableInv, Typed, TableOK, Ids
  <2> QED
    BY <2>1, <2>2 DEF Spawn, TableInv, Typed, TaskOK
<1>2. CASE EndStop \/ StopTimeout
  BY <1>2 DEF EndStop, StopTimeout, TableInv, Typed, TaskOK
<1>3. ASSUME NEW j \in Ids, j # i, TaskStep(j) \/ BackendStep(j) PROVE task'[i] = task[i]
  BY <1>3, TaskTouches DEF TableInv
<1>4. ASSUME NEW s \in Sid, NEW a \in Alias, NEW c \in Cred \cup {NoCred}, open(s, a, c)
      PROVE  Spawns \/ UNCHANGED task
  BY <1>4, AdmittedSpawns DEF open, taskVars
<1> QED
  BY <1>1, <1>2, <1>3, <1>4, EvictionSpawns
     DEF Next, Handler, deliver, oversized, close, reconfigure, shutdown, MainStep, BeginStop,
     SendReply, Closed, AskStep, OwnerAnswers, ReleaseAllowed, ForwardAllowed, ReleaseDenied,
     ReplyDenied, WriterSends, WriterDies, Terminated, vars, taskVars

LEMMA NextDyingOut ==
    ASSUME TableInv, Kept, Stands, DyingOut, [Next]_vars
    PROVE  DyingOut'
<1> SUFFICES ASSUME NEW i \in Ids, task'[i] = "dying" PROVE ~InTable(i)'
  BY DEF DyingOut
<1>1. CASE i <= next_id
  <2>1. CASE StopTimeout /\ stopping = i
    <3>1. i \in signalled /\ UNCHANGED table
      BY <2>1 DEF StopTimeout, Stopped, tableVars, TableInv, Typed, StopOK
    <3> QED
      BY <3>1 DEF Stands, InTable
  <2>2. CASE Abandon
    BY <2>2 DEF Abandon, InTable
  <2>3. CASE task[i] = "dying"
    BY <1>1, <2>3, OutStays DEF DyingOut
  <2>4. CASE TaskStep(i) \/ BackendStep(i)
    <3>1. task[i] = "dying"
      BY <2>4 DEF TaskStep, BackendStep, TakeMessage, EmitSent, EndSilently, EndItself, Leave,
         Killed, RemoveSelf, Report, Reap, Answer, Stray, TableInv, Typed, TaskOK
    <3> QED
      BY <2>3, <3>1
  <2> QED
    BY <1>1, <2>1, <2>2, <2>3, <2>4, TaskChanges
<1>2. CASE ~(i <= next_id)
  <2>1. task[i] = "unborn"
    BY <1>2 DEF Kept
  <2>2. CASE HoldsOn
    BY <2>1, <2>2 DEF HoldsOn
  <2>3. CASE Spawns
    BY <2>1, <2>3 DEF Spawns, Spawn, TableInv, Typed, TaskOK
  <2> QED
    BY <2>2, <2>3, StepSpawnsOrHolds
<1> QED
  BY <1>1, <1>2

\* A handle the main loop takes out of the table is one it will report.
LEMMA TakenOut ==
    ASSUME TableInv, NEW s \in Sid, table[s] # 0, NEW w, Doom(s, w), NEW i \in Ids, InTable(i)
    PROVE  InTable(i)' \/ (i = table[s] /\ fate'[i] = w)
BY DEF Doom, InTable, TableInv, Typed, TableOK, MainOK, FateOK

LEMMA HandlerSpeaks ==
    ASSUME TableInv, Kept, Heard, Handler, ~Spawns, conn' = "up", writer' = "up",
           NEW i \in Ids, i <= next_id
    PROVE  Spoken(i)'
<1>0. /\ told \subseteq told' /\ hung_up \subseteq hung_up' /\ conn = "up" /\ writer = "up"
      /\ [Next]_vars
  BY Lasting DEF Next
<1>1. i \in told \/ i \in hung_up \/ InTable(i) \/ task[i] = "reporting"
  <2>1. i \in 1..next_id
    BY RelayAssumption DEF TableInv, Typed, TableOK, Ids
  <2>2. Spoken(i)
    BY <1>0, <2>1 DEF Heard, NoSilentEnd, Spoken
  <2>3. Doomed = {} /\ reply = NoFrame
    BY HandlerFrame
  <2> QED
    BY <2>2, <2>3 DEF Spoken, ToBeReported, NoFrame
<1>2. task'[i] = task[i]
  <2>1. UNCHANGED task
    BY AdmittedSpawns DEF Handler, open, deliver, oversized, close, reconfigure, shutdown,
       taskVars
  <2> QED
    BY <2>1
<1>3. CASE ~InTable(i)
  BY <1>0, <1>1, <1>2, <1>3 DEF Spoken, ToBeReported
<1>4. CASE InTable(i)
  <2>1. ASSUME NEW s \in Sid, table[s] # 0, NEW w \in Why, w # "silent", Doom(s, w)
        PROVE  Spoken(i)'
    <3>1. w # "none"
      BY DEF Why
    <3> QED
      BY <1>4, <2>1, <3>1, TakenOut DEF Spoken, ToBeReported, Doomed
  <2>2. CASE UNCHANGED table
    BY <1>4, <2>2 DEF Spoken, InTable
  <2>3. CASE shutdown
    BY <2>3 DEF shutdown
  <2>4. ASSUME NEW s \in Sid, close(s) PROVE Spoken(i)'
    <3>1. InTable(i)' \/ i = table[s]
      BY <1>4, <2>4, TakenOut DEF close
    <3> QED
      BY <2>4, <3>1 DEF close, Spoken
  <2>5. ASSUME NEW next \in Tables, NEW adm \in Admissions, reconfigure(next, adm)
        PROVE  Spoken(i)'
    <3>1. InTable(i)' \/ i \in Doomed'
      BY <1>4, <2>5 DEF reconfigure, InTable, Doomed
    <3>2. ReloadFate(session[i], next, adm) # "silent" /\ fate[i] = "none"
      BY <2>5 DEF ReloadFate, reconfigure, MainIdle, Doomed
    <3>3. fate'[i] # "silent"
      BY <2>5, <3>2 DEF reconfigure
    <3> QED
      BY <3>1, <3>3 DEF Spoken, ToBeReported
  <2>6. ASSUME NEW s \in Sid, NEW m \in Message, deliver(s, m) PROVE Spoken(i)'
    <3>1. CASE table[s] # 0 /\ Doom(session[table[s]].sid, "overloaded")
      <4>1. session[table[s]].sid = s /\ "overloaded" \in Why
        BY <3>1 DEF TableInv, TableCurrent, Why
      <4> QED
        BY <2>1, <3>1, <4>1
    <3> QED
      BY <2>2, <2>6, <3>1 DEF deliver, DeliverUnknown, DeliverForward, TrySend, DeliverRefused,
         DeliverConfirm, DeliverNoSlot
  <2>7. ASSUME NEW s \in Sid, oversized(s) PROVE Spoken(i)'
    BY <2>1, <2>2, <2>7 DEF oversized, Why
  <2>8. ASSUME NEW s \in Sid, NEW a \in Alias, NEW c \in Cred \cup {NoCred}, open(s, a, c)
        PROVE  Spoken(i)'
    <3>1. CASE OpenDuplicate(s)
      BY <2>1, <3>1 DEF OpenDuplicate, Why
    <3>2. CASE OpenRefused(s, a, c)
      BY <2>2, <3>2 DEF OpenRefused, tableVars
    <3>3. CASE OpenEvicting(s, a, c)
      BY <2>1, <3>3 DEF OpenEvicting, Evictable, LiveOn, Why
    <3> QED
      BY <2>8, <3>1, <3>2, <3>3, AdmittedSpawns DEF open
  <2> QED
    BY <2>3, <2>4, <2>5, <2>6, <2>7, <2>8 DEF Handler
<1> QED
  BY <1>3, <1>4

LEMMA MainSpeaks ==
    ASSUME TableInv, Heard, [Next]_vars,
           (\E j \in Ids : BeginStop(j)) \/ EndStop \/ StopTimeout \/ SendReply,
           NEW i \in Ids, Spoken(i), conn' = "up", writer' = "up"
    PROVE  Spoken(i)'
<1>0. /\ told \subseteq told' /\ hung_up \subseteq hung_up' /\ conn = "up" /\ writer = "up"
      /\ UNCHANGED table
  BY Lasting DEF BeginStop, EndStop, StopTimeout, Stopped, SendReply, tableVars
<1>1. CASE \E j \in Ids : BeginStop(j)
  BY <1>0, <1>1 DEF BeginStop, Spoken, ToBeReported, InTable, Doomed
<1>2. CASE SendReply
  <2>1. UNCHANGED <<fate, task>>
    BY <1>2 DEF SendReply, taskVars
  <2>2. reply.tag = "session_close" /\ reply.from = i => i \in told'
    BY <1>0, <1>2, RelayAssumption DEF SendReply, SendFrame, Put, Ids
  <2> QED
    BY <1>0, <2>1, <2>2 DEF Spoken, ToBeReported, InTable, Doomed
<1>3. CASE EndStop \/ StopTimeout
  <2>1. /\ stopping # 0 /\ stopping \in Doomed /\ reply = NoFrame
        /\ fate' = [fate EXCEPT ![stopping] = "none"]
        /\ reply' = IF fate[stopping] = "silent" THEN reply
                    ELSE CloseFrame(stopping, fate[stopping])
        /\ \A j \in Ids \ {stopping} : task'[j] = task[j]
    BY <1>3 DEF EndStop, StopTimeout, Stopped, TableInv, Typed, TaskOK, StopOK, Heard, Quiet
  <2>2. CASE i = stopping
    <3>1. fate[i] = "silent" => i \in hung_up
      BY <1>0, <2>1, <2>2 DEF Heard, Hung
    <3> QED
      BY <1>0, <2>1, <2>2, <3>1 DEF Spoken, ToBeReported, CloseFrame
  <2>3. CASE i # stopping
    <3>1. task'[i] = task[i] /\ fate'[i] = fate[i]
      BY <2>1, <2>3 DEF TableInv, Typed, MainOK, FateOK
    <3> QED
      BY <1>0, <2>1, <2>3, <3>1 DEF Spoken, ToBeReported, InTable, Doomed, NoFrame
  <2> QED
    BY <2>2, <2>3
<1> QED
  BY <1>1, <1>2, <1>3

LEMMA TaskSpeaks ==
    ASSUME TableInv, Heard, [Next]_vars, NEW j \in Ids, TaskStep(j) \/ BackendStep(j),
           NEW i \in Ids, Spoken(i), conn' = "up", writer' = "up"
    PROVE  Spoken(i)'
<1>0. /\ told \subseteq told' /\ hung_up \subseteq hung_up' /\ conn = "up" /\ writer = "up"
      /\ UNCHANGED <<fate, reply>>
  BY Lasting DEF TaskStep, BackendStep, TakeMessage, EmitSent, EndSilently, EndItself, Leave,
     Killed, RemoveSelf, Report, Reap, Answer, Stray, mainVars
<1>1. CASE RemoveSelf(j)
  <2>1. \A s \in Sid : table'[s] = IF s = session[j].sid /\ table[s] = j THEN 0 ELSE table[s]
    BY <1>1 DEF RemoveSelf, TableInv, Typed, TableOK
  <2>2. \A k \in Ids \ {j} : task'[k] = task[k]
    BY <1>1 DEF RemoveSelf, TableInv, Typed, TaskOK
  <2>3. CASE i # j
    <3>1. InTable(i) => InTable(i)'
      BY <2>1, <2>3 DEF InTable
    <3> QED
      BY <1>0, <2>2, <2>3, <3>1 DEF Spoken, ToBeReported, Doomed
  <2>4. CASE i = j /\ task[i] = "ended"
    BY <1>1, <2>4 DEF RemoveSelf, Spoken, ToBeReported, TableInv, Typed, TaskOK
  <2>5. CASE i = j /\ task[i] = "dying"
    <3>1. ~InTable(i)
      BY <2>5 DEF Heard, DyingOut
    <3> QED
      BY <1>0, <2>5, <3>1 DEF Spoken, ToBeReported, Doomed
  <2> QED
    BY <1>1, <2>3, <2>4, <2>5 DEF RemoveSelf
<1>2. CASE Report(j)
  <2>1. UNCHANGED table /\ j \in told' /\ \A k \in Ids \ {j} : task'[k] = task[k]
    BY <1>0, <1>2, RelayAssumption
       DEF Report, SendFrame, Put, CloseFrame, tableVars, Ids, TableInv, Typed, TaskOK
  <2> QED
    BY <1>0, <2>1 DEF Spoken, ToBeReported, InTable, Doomed
<1>3. CASE ~(RemoveSelf(j) \/ Report(j))
  <2>1. UNCHANGED table
    BY <1>3 DEF TaskStep, BackendStep, TakeMessage, EmitSent, EndSilently, EndItself, Leave,
       Killed, Reap, Answer, Stray, tableVars
  <2>2. task[i] = "reporting" => task'[i] = "reporting"
    BY <1>3 DEF TaskStep, BackendStep, TakeMessage, EmitSent, EndSilently, EndItself, Leave,
       Killed, Reap, Answer, Stray, TableInv, Typed, TaskOK
  <2> QED
    BY <1>0, <2>1, <2>2 DEF Spoken, ToBeReported, InTable, Doomed
<1> QED
  BY <1>1, <1>2, <1>3

LEMMA SpawnSpeaks ==
    ASSUME TableInv, Kept, Heard, [Next]_vars, Spawns, NEW i \in 1..next_id', writer' = "up"
    PROVE  Spoken(i)'
<1>1. PICK x \in Session : FitsFor(x) /\ Spawn(x)
  BY DEF Spawns
<1>2. PICK n \in Ids : n = next_id' /\ n = next_id + 1
  BY <1>1, RelayAssumption DEF TableInv, Typed, TableOK, Spawn, Ids
<1>3. /\ n # 0 /\ x.sid \in Sid
      /\ \A q \in Sid : table'[q] = IF q = x.sid THEN n ELSE table[q]
  BY <1>1, <1>2, RelayAssumption DEF TableInv, Typed, TableOK, Spawn, Session, Ids
<1>4. CASE i = n
  BY <1>3, <1>4 DEF Spoken, InTable
<1>5. CASE i # n
  <2>1. i \in 1..next_id /\ i \in Ids
    BY <1>2, <1>5, RelayAssumption DEF TableInv, Typed, TableOK, Ids
  <2>2. Spoken(i)
    BY <2>1 DEF Spawns, Heard, NoSilentEnd, Spoken
  <2>3. InTable(i) => InTable(i)'
    BY <1>1, <1>3 DEF InTable, FitsFor
  <2>4. task'[i] = task[i]
    BY <1>1, <1>2, <1>5, <2>1 DEF Spawn, TableInv, Typed, TaskOK
  <2>5. UNCHANGED <<fate, reply>> /\ told \subseteq told' /\ hung_up \subseteq hung_up'
    BY Lasting DEF Spawns
  <2> QED
    BY <2>2, <2>3, <2>4, <2>5 DEF Spoken, ToBeReported, Doomed
<1> QED
  BY <1>4, <1>5

LEMMA NextHeard ==
    ASSUME TableInv, Kept, Stands, Heard, [Next]_vars
    PROVE  Heard'
<1>1. Quiet' /\ Hung' /\ DyingOut'
  BY NextQuiet, NextHung, NextDyingOut DEF Heard
<1>2. NoSilentEnd'
  <2> SUFFICES ASSUME conn' = "up", writer' = "up", NEW i \in 1..next_id' PROVE Spoken(i)'
    BY DEF NoSilentEnd, Spoken
  <2>1. CASE Spawns
    BY <2>1, SpawnSpeaks
  <2>2. CASE ~Spawns
    <3>1. next_id' = next_id
      BY <2>2, StepSpawnsOrHolds DEF HoldsOn
    <3>2. i \in Ids /\ i <= next_id /\ i \in 1..next_id
      BY <3>1, RelayAssumption DEF TableInv, Typed, TableOK, Ids
    <3>3. /\ told \subseteq told' /\ hung_up \subseteq hung_up'
          /\ conn = "up" /\ writer = "up"
      BY Lasting
    <3>4. Spoken(i)
      BY <3>2, <3>3 DEF Heard, NoSilentEnd, Spoken
    <3>5. CASE UNCHANGED <<table, fate, reply, task>>
      BY <3>3, <3>4, <3>5 DEF Spoken, ToBeReported, InTable, Doomed
    <3>6. CASE (\E k \in asks : AskStep(k)) \/ WriterSends \/ WriterDies \/ UNCHANGED vars
      <4>1. UNCHANGED <<table, fate, reply, task>>
        BY <3>6 DEF AskStep, OwnerAnswers, ReleaseAllowed, ForwardAllowed, ReleaseDenied,
           ReplyDenied, WriterSends, WriterDies, vars, tableVars, taskVars, mainVars
      <4> QED
        BY <3>5, <4>1
    <3>7. ~(Closed \/ Abandon)
      BY DEF Closed, Abandon
    <3> QED
      BY <2>2, <3>2, <3>4, <3>6, <3>7, HandlerSpeaks, MainSpeaks, TaskSpeaks, EvictionSpawns
         DEF Next, MainStep, Terminated
  <2> QED
    BY <2>1, <2>2
<1> QED
  BY <1>1, <1>2 DEF Heard

\* No session goes behind the gateway's back (Relay::open, Relay::fail,
\* Relay::reconfigure, the end of a session's task): one it opened, did not close and
\* was not told the end of is in the table, or about to be reported - also when an
\* older task of its sid removes itself late.
THEOREM NeverSilent == Spec => []NoSilentEnd
<1>1. Init => Heard
  BY RelayAssumption DEF Init, Heard, Quiet, Hung, DyingOut, NoSilentEnd, Doomed
<1>2. TableInv /\ Kept /\ Stands /\ LastWord /\ Spared /\ Heard /\ [Next]_vars => Heard'
  BY NextHeard
<1>3. Heard => NoSilentEnd
  BY DEF Heard
<1> QED
  BY <1>1, <1>2, <1>3, AlwaysTable, AlwaysKept, AlwaysLastWord, PTL DEF Spec

-----------------------------------------------------------------------------

LEMMA RunningHoldsSid ==
    ASSUME TableInv, Kept, NEW i \in Ids, task[i] = "running"
    PROVE  HoldsSid(i)
<1>1. session[i] \in Session
  BY DEF Kept
<1>2. CASE InTable(i)
  BY <1>2 DEF InTable, TableInv, TableCurrent, HoldsSid
<1>3. CASE i \in Doomed
  BY <1>3 DEF Kept, HoldsSid
<1>4. CASE conn = "closed"
  BY <1>1, <1>4 DEF Kept, HoldsSid, Session
<1> QED
  BY <1>2, <1>3, <1>4 DEF Kept, Receiving

\* A session's close is its last word (Relay::stop, Relay::open, SessionCtx::emit):
\* when an eviction is reported every answer of the session has been sent (but one for
\* each stray of its backend at most), no answer follows a close, and no frame of an
\* old session goes out under a sid that a new one holds.
THEOREM CloseIsAlwaysLast == Spec => CloseIsLast
<1> DEFINE Inv == TableInv /\ Kept /\ Stands /\ LastWord /\ Spared
<1>1. ASSUME Inv, [Next]_vars, NEW i \in Ids, told' = told \cup {i}, i \notin told,
             i \notin self_ended, reply # NoFrame, reply.what = "evicted",
             session[i].entry.transport = "stdio", task[i] = "over", writer = "up"
      PROVE  Cardinality(owed[i] \ Declined(i)) <= strays[i]
  <2>1. ASSUME NEW j \in Ids, Report(j), told' = told \cup {j} PROVE FALSE
    <3>1. i = j
      BY <1>1, <2>1
    <3> QED
      BY <1>1, <2>1, <3>1 DEF Report
  <2>2. told' = told \cup {reply.from} /\ reply.tag = "session_close"
    BY <1>1, <2>1, ToldChanges
  <2>3. reply.from = i /\ reply \in Frame
    BY <1>1, <2>2 DEF TableInv, Typed, MainOK, ReplyOK
  <2>4. reply = CloseFrame(i, "evicted")
    BY <1>1, <2>2, <2>3 DEF Frame, CloseFrame
  <2>5. Done(i)
    BY <1>1, <2>4 DEF Spared, Watched, Evicted
  <2>6. Rest(i) = owed[i] \ Declined(i)
    BY <1>1, <2>5 DEF Done, Rest
  <2> QED
    BY <1>1, <2>5, <2>6 DEF Done
<1>2. ASSUME Inv, NEW i \in Ids, NEW r, EmitSent(i, r)
      PROVE  i \notin told /\ HoldsSid(i)
  <2>1. task[i] = "running"
    BY <1>2 DEF EmitSent
  <2> QED
    BY <1>2, <2>1, RunningHoldsSid DEF LastWord, Gone
<1>3. ASSUME Inv, reply.tag = "mcp" PROVE HoldsSid(reply.from)
  BY <1>3 DEF LastWord
<1>4. Spec => []Inv
  BY AlwaysTable, AlwaysKept, AlwaysLastWord, PTL
<1>5. Inv /\ [Next]_vars =>
          /\ \A i \in Ids : /\ told' = told \cup {i} /\ i \notin told /\ i \notin self_ended
                            /\ reply # NoFrame /\ reply.what = "evicted"
                            /\ session[i].entry.transport = "stdio"
                            /\ task[i] = "over" /\ writer = "up"
                => Cardinality(owed[i] \ Declined(i)) <= strays[i]
          /\ \A i \in Ids : \A r \in Rid \cup Strays :
                 EmitSent(i, r) => i \notin told /\ HoldsSid(i)
          /\ SendReply /\ reply.tag = "mcp" => HoldsSid(reply.from)
  BY <1>1, <1>2, <1>3
<1> HIDE DEF Inv
<1> QED
  BY <1>4, <1>5, PTL DEF Spec, CloseIsLast
=============================================================================
