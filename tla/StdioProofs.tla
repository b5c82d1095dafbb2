------------------------------ MODULE StdioProofs ------------------------------
(***************************************************************************)
(* What a stdio session guarantees, for messages, lines, pipes and times   *)
(* of any size: the child's stdin is never torn, its stdout implements     *)
(* Fifo, and the session ends for the reason it names.  The invariant says *)
(* where in both streams the loop is.                                      *)
(***************************************************************************)
EXTENDS Stdio, SequenceTheorems, TLAPS

\* The messages are numbered in the order they were sent, and taken in that order.
Order ==
    /\ Len(rx) <= sent
    /\ \A i \in 1..Len(rx) : rx[i] = (sent - Len(rx)) + i
    /\ pending # None => pending.msg = sent - Len(rx)

\* What the loop has read of stdout, and how many lines it has whole.
Consumed == Len(written) - Len(pipe)
Complete == Len(handled) + (IF emitting THEN 1 ELSE 0)

\* `ends` has every newline, in order.
Broken ==
    /\ Len(written) <= MaxWritten
    /\ \A k \in 1..Len(ends) : ends[k] <= Len(written) /\ written[ends[k]] = "n"
    /\ \A k \in 1..Len(ends) : \A m \in 1..Len(ends) : k < m => ends[k] < ends[m]
    /\ \A i \in 1..Len(written) : written[i] = "n" => \E k \in 1..Len(ends) : ends[k] = i

\* The pipe has the rest of what was written.
Piped ==
    /\ Len(pipe) <= Len(written)
    /\ \A i \in 1..Len(pipe) : pipe[i] = written[Consumed + i]

\* The loop is inside the line after those it has whole, and what it has of it are the
\* bytes since.
Inside ==
    /\ Complete <= Len(ends)
    /\ \A k \in 1..Len(handled) : handled[k] = ends[k] - Break(k - 1) - 1
    /\ why # "message_too_large" =>
        /\ Break(Complete) <= Consumed
        /\ \A i \in (Break(Complete) + 1)..Consumed : written[i] = "b"
        /\ emitting => /\ Consumed = Break(Complete)
                       /\ line = Consumed - Break(Complete - 1) - 1
        /\ ~emitting => line = Consumed - Break(Complete)
        /\ line <= MaxLine

\* The deadline runs from the last line or message, until the child is gone.
Timed == ~exited => left + quiet = Idle

\* TypeOK by stream: stdin, stdout and the rest.
TypeIn ==
    /\ sent \in 0..MaxSent /\ rx \in Seq(1..MaxSent)
    /\ pending \in [msg : 1..MaxSent, off : 0..(MsgBytes - 1)] \cup {None}
    /\ stdin \in 0..InCap /\ fed \in Seq((1..MaxSent) \X (1..MsgBytes))
TypeOut ==
    /\ written \in Seq({"b", "n"}) /\ ends \in Seq(1..MaxWritten) /\ pipe \in Seq({"b", "n"})
    /\ line \in 0..MaxWritten /\ handled \in Seq(0..MaxLine)
TypeRest ==
    /\ cancelled \in BOOLEAN /\ alive \in BOOLEAN /\ held \in BOOLEAN
    /\ closed \in BOOLEAN /\ emitting \in BOOLEAN /\ exited \in BOOLEAN
    /\ left \in 0..Idle /\ quiet \in 0..Idle
    /\ why \in {"running", "none", "server_exited", "message_too_large", "idle"}

\* Stdin, stdout and the end of a session; no action touches two of the three.
In == TypeIn /\ Order /\ StdinWhole
Stream == TypeOut /\ Broken /\ Piped /\ Inside
Inv == In /\ Stream /\ TypeRest /\ Timed /\ EndIsEarned

\* The three parts are the type invariant.
LEMMA TypeParts == TypeOK <=> TypeIn /\ TypeOut /\ TypeRest
BY DEF TypeOK, TypeIn, TypeOut, TypeRest

-----------------------------------------------------------------------------
(* Which actions touch what.                                               *)

\* A tick is about the clock alone.
LEMMA TickEffect ==
    Tick => /\ why = "running" /\ UNCHANGED <<inVars, cancelled, childVars, outVars, exited, why>>
            /\ left' = (IF left > 0 THEN left - 1 ELSE 0)
            /\ quiet' = (IF quiet < Idle THEN quiet + 1 ELSE quiet)
BY DEF Tick

\* Four actions touch what goes in.
LEMMA InFrame ==
    [Next]_vars => GatewaySends \/ ChildReads \/ Recv \/ Write \/ UNCHANGED inVars
BY TickEffect DEF Next, Cancel, ChildWrites, ChildExits, ChildClosesStdout, Arm, Closed, End, WriteFails,
   Read, ReadEof, Wait, Expire, Forward, ForwardFails, Kill, Over, vars

\* The loop ends for another reason than a line too long, or goes on.
Ends ==
    /\ UNCHANGED outVars
    /\ why' = why \/ (why = "running" /\ why' \in {"none", "server_exited", "idle"})

\* Three actions touch what comes out.
LEMMA OutFrame ==
    [Next]_vars => (\E x \in {"b", "n"} : ChildWrites(x)) \/ Read \/ Forward \/ Ends
<1>1. Tick \/ Over \/ UNCHANGED vars => Ends
  BY TickEffect DEF Over, Ends, vars
<1>2. GatewaySends \/ Cancel \/ ChildReads \/ ChildExits \/ ChildClosesStdout \/ Kill => Ends
  BY DEF GatewaySends, Cancel, ChildReads, ChildExits, ChildClosesStdout, Kill, Ends
<1>3. Closed \/ Recv \/ Write \/ WriteFails \/ ReadEof \/ Wait \/ Expire \/ ForwardFails => Ends
  BY DEF Closed, Recv, Write, WriteFails, ReadEof, Wait, Expire, ForwardFails, Selecting, End, Ends
<1> QED
  BY <1>1, <1>2, <1>3 DEF Next, Arm

-----------------------------------------------------------------------------
(* What goes in.                                                           *)

\* A message sent is the next in number.
LEMMA SendsIn == ASSUME In, GatewaySends PROVE In'
<1>1. /\ sent \in 0..MaxSent /\ sent < MaxSent /\ sent' = sent + 1 /\ rx' = Append(rx, sent + 1)
      /\ UNCHANGED <<pending, stdin, fed>> /\ rx \in Seq(1..MaxSent) /\ MaxSent \in Nat
  BY SessionAssumption, StdioAssumption DEF In, TypeIn, GatewaySends
<1>2. /\ rx' \in Seq(1..MaxSent) /\ Len(rx') = Len(rx) + 1 /\ rx'[Len(rx) + 1] = sent + 1
      /\ (\A i \in 1..Len(rx) : rx'[i] = rx[i]) /\ Len(rx) \in Nat
  BY <1>1, AppendProperties, LenProperties
<1>3. TypeIn'
  BY <1>1, <1>2 DEF In, TypeIn
<1>4. sent' - Len(rx') = sent - Len(rx)
  BY <1>1, <1>2
<1>5. Order'
  <2>1. ASSUME NEW i \in 1..Len(rx') PROVE rx'[i] = (sent' - Len(rx')) + i
    <3>1. CASE i = Len(rx) + 1
      BY <1>1, <1>2, <1>4, <3>1
    <3>2. CASE i # Len(rx) + 1
      <4>1. i \in 1..Len(rx)
        BY <1>2, <3>2
      <4> QED
        BY <1>2, <1>4, <4>1 DEF In, Order
    <3> QED
      BY <3>1, <3>2
  <2> QED
    BY <1>1, <1>2, <1>4, <2>1 DEF In, Order
<1>6. LastOut' = LastOut
  BY <1>1, <1>4 DEF LastOut
<1>7. StdinWhole'
  BY <1>1, <1>6 DEF In, StdinWhole
<1> QED
  BY <1>3, <1>5, <1>7 DEF In

\* The message taken is the next, and none of it is out.
LEMMA RecvIn == ASSUME In, Recv PROVE In'
<1>1. /\ pending = None /\ rx # <<>> /\ pending' = [msg |-> Head(rx), off |-> 0] /\ rx' = Tail(rx)
      /\ UNCHANGED <<sent, stdin, fed>> /\ rx \in Seq(1..MaxSent) /\ sent \in 0..MaxSent
  BY DEF Recv, In, TypeIn
<1>2. /\ rx' \in Seq(1..MaxSent) /\ Len(rx') = Len(rx) - 1 /\ Head(rx) = rx[1] /\ Len(rx) \in Nat \ {0}
      /\ Head(rx) \in 1..MaxSent /\ \A i \in 1..Len(rx') : rx'[i] = rx[i + 1]
  <2>1. Len(rx) \in Nat \ {0}
    BY <1>1, EmptySeq
  <2>2. Head(rx) = rx[1]
    BY <1>1, <2>1
  <2>3. /\ Head(rx) \in 1..MaxSent /\ Tail(rx) \in Seq(1..MaxSent) /\ Len(Tail(rx)) = Len(rx) - 1
        /\ \A i \in 1..Len(Tail(rx)) : Tail(rx)[i] = rx[i + 1]
    BY <1>1, HeadTailProperties
  <2> QED
    BY <1>1, <2>1, <2>2, <2>3
<1>3. pending'.msg = Head(rx) /\ pending'.off = 0 /\ pending' # None
  <2>1. None.msg = 0
    BY DEF None
  <2> QED
    BY <1>1, <1>2, <2>1
<1>4. TypeIn'
  <2>1. 0 \in 0..(MsgBytes - 1)
    BY SessionAssumption, StdioAssumption
  <2> QED
    BY <1>1, <1>2, <2>1 DEF In, TypeIn
<1>5. sent' - Len(rx') = (sent - Len(rx)) + 1 /\ Head(rx) = (sent - Len(rx)) + 1
  BY <1>1, <1>2 DEF In, Order
<1>6. Order'
  <2>1. ASSUME NEW i \in 1..Len(rx') PROVE rx'[i] = (sent' - Len(rx')) + i
    <3>1. i + 1 \in 1..Len(rx)
      BY <1>2
    <3>2. rx[i + 1] = (sent - Len(rx)) + (i + 1)
      BY <3>1 DEF In, Order
    <3> QED
      BY <1>1, <1>2, <1>5, <3>2
  <2> QED
    BY <1>1, <1>2, <1>3, <1>5, <2>1 DEF In, Order
<1>7. LastOut' = LastOut
  <2>1. LastOut = <<sent - Len(rx), MsgBytes>>
    BY <1>1 DEF LastOut
  <2>2. LastOut' = <<(sent' - Len(rx')) - 1, MsgBytes>>
    BY <1>3 DEF LastOut
  <2> QED
    BY <1>1, <1>2, <1>5, <2>1, <2>2
<1>8. StdinWhole'
  BY <1>1, <1>7 DEF In, StdinWhole
<1> QED
  BY <1>4, <1>6, <1>8 DEF In

\* The next piece of a message is the bytes after the last one out.
LEMMA WriteIn == ASSUME In, Write PROVE In'
<1> DEFINE m == sent - Len(rx)
<1>1. /\ pending # None /\ pending \in [msg : 1..MaxSent, off : 0..(MsgBytes - 1)]
      /\ pending.msg = m /\ UNCHANGED <<sent, rx>> /\ MsgBytes \in Nat \ {0}
      /\ fed \in Seq((1..MaxSent) \X (1..MsgBytes)) /\ stdin \in 0..InCap /\ InCap \in Nat
  BY SessionAssumption, StdioAssumption DEF Write, In, TypeIn, Order
<1>2. PICK n \in 1..(MsgBytes - pending.off) :
        /\ stdin + n <= InCap /\ stdin' = stdin + n
        /\ fed' = fed \o SubSeq(Message(pending.msg), pending.off + 1, pending.off + n)
        /\ pending' = IF pending.off + n = MsgBytes THEN None
                      ELSE [pending EXCEPT !.off = @ + n]
  BY DEF Write
<1>3. PICK o \in 0..(MsgBytes - 1) : o = pending.off
  BY <1>1
<1>4. m \in 1..MaxSent /\ n \in 1..(MsgBytes - o) /\ n \in Nat \ {0} /\ o + n <= MsgBytes
  <2>1. pending.msg \in 1..MaxSent
    BY <1>1
  <2>2. n \in 1..(MsgBytes - o)
    BY <1>3
  <2>3. n \in Nat \ {0} /\ o + n <= MsgBytes
    <3>1. MsgBytes \in Nat \ {0}
      BY <1>1
    <3> QED
      BY <2>2, <3>1
  <2> QED
    BY <1>1, <2>1, <2>2, <2>3
<1> DEFINE chunk == SubSeq(Message(m), o + 1, o + n)
<1>5. /\ chunk \in Seq((1..MaxSent) \X (1..MsgBytes)) /\ Len(chunk) = n
      /\ \A i \in 1..n : chunk[i] = <<m, o + i>>
  <2>1. \A i \in (o + 1)..(o + n) : Message(m)[i] = <<m, i>> /\ <<m, i>> \in (1..MaxSent) \X (1..MsgBytes)
    BY <1>1, <1>4 DEF Message
  <2>2. /\ chunk \in Seq((1..MaxSent) \X (1..MsgBytes))
        /\ Len(chunk) = IF o + 1 <= o + n THEN (o + n) - (o + 1) + 1 ELSE 0
        /\ \A i \in 1..((o + n) - (o + 1) + 1) : chunk[i] = Message(m)[(o + 1) + i - 1]
    <3>1. o + 1 \in Int /\ o + n \in Int
      BY <1>4
    <3>2. \A i \in (o + 1)..(o + n) : Message(m)[i] \in (1..MaxSent) \X (1..MsgBytes)
      BY <2>1
    <3> QED
      BY <3>1, <3>2, SubSeqProperties
  <2>3. ASSUME NEW i \in 1..n PROVE chunk[i] = <<m, o + i>>
    <3>1. (o + 1) + i - 1 = o + i /\ i \in 1..((o + n) - (o + 1) + 1) /\ o + i \in (o + 1)..(o + n)
      BY <1>4
    <3> QED
      BY <2>1, <2>2, <3>1
  <2> HIDE DEF chunk
  <2> QED
    BY <1>4, <2>2, <2>3
<1>6. fed' = fed \o chunk
  BY <1>1, <1>2, <1>3
<1> HIDE DEF chunk
<1>7. /\ fed' \in Seq((1..MaxSent) \X (1..MsgBytes)) /\ Len(fed) \in Nat /\ Len(fed') = Len(fed) + n
      /\ \A i \in 1..Len(fed) : fed'[i] = fed[i]
      /\ \A i \in 1..n : fed'[Len(fed) + i] = <<m, o + i>>
  <2>1. /\ fed' \in Seq((1..MaxSent) \X (1..MsgBytes)) /\ Len(fed) \in Nat /\ Len(fed') = Len(fed) + n
        /\ \A i \in 1..(Len(fed) + n) : fed'[i] = IF i <= Len(fed) THEN fed[i] ELSE chunk[i - Len(fed)]
    <3>1. fed \in Seq((1..MaxSent) \X (1..MsgBytes))
      BY <1>1
    <3>2. /\ fed \o chunk \in Seq((1..MaxSent) \X (1..MsgBytes))
          /\ Len(fed \o chunk) = Len(fed) + Len(chunk)
          /\ \A i \in 1..(Len(fed) + Len(chunk)) :
                (fed \o chunk)[i] = IF i <= Len(fed) THEN fed[i] ELSE chunk[i - Len(fed)]
      BY <1>5, <3>1, ConcatProperties
    <3>3. Len(fed) \in Nat
      BY <3>1, LenProperties
    <3> QED
      BY <1>5, <1>6, <3>2, <3>3
  <2>2. ASSUME NEW i \in 1..Len(fed) PROVE fed'[i] = fed[i]
    <3>1. i \in 1..(Len(fed) + n) /\ i <= Len(fed)
      BY <1>4, <2>1
    <3> QED
      BY <2>1, <3>1
  <2>3. ASSUME NEW i \in 1..n PROVE fed'[Len(fed) + i] = <<m, o + i>>
    <3>1. /\ Len(fed) + i \in 1..(Len(fed) + n) /\ ~(Len(fed) + i <= Len(fed))
          /\ (Len(fed) + i) - Len(fed) = i
      BY <1>4, <2>1
    <3> QED
      BY <1>5, <2>1, <3>1
  <2> QED
    BY <2>1, <2>2, <2>3
<1>8. \/ pending' = None /\ o + n = MsgBytes
      \/ /\ pending' # None /\ pending' \in [msg : 1..MaxSent, off : 0..(MsgBytes - 1)]
         /\ pending'.msg = m /\ pending'.off = o + n /\ o + n # 0
  <2>1. CASE o + n = MsgBytes
    BY <1>2, <1>3, <2>1
  <2>2. CASE o + n # MsgBytes
    <3>1. o + n \in 1..(MsgBytes - 1)
      <4>1. MsgBytes \in Nat \ {0}
        BY <1>1
      <4> QED
        BY <1>4, <2>2, <4>1
    <3>2. pending' = [pending EXCEPT !.off = o + n]
      BY <1>2, <1>3, <2>2
    <3>3. pending.msg = m /\ pending \in [msg : 1..MaxSent, off : 0..(MsgBytes - 1)]
      BY <1>1
    <3> HIDE DEF m
    <3>4. pending' = [msg |-> m, off |-> o + n]
      BY <3>2, <3>3
    <3>5. /\ pending' \in [msg : 1..MaxSent, off : 0..(MsgBytes - 1)]
          /\ pending'.msg = m /\ pending'.off = o + n
      BY <1>4, <3>1, <3>4
    <3>6. None.msg = 0 /\ m # 0
      BY <1>4 DEF None
    <3> QED
      BY <3>1, <3>5, <3>6
  <2> QED
    BY <2>1, <2>2
<1>9. LastOut' = <<m, o + n>>
  <2>1. sent' - Len(rx') = m
    BY <1>1
  <2> HIDE DEF m
  <2> QED
    BY <1>8, <2>1 DEF LastOut
<1>10. LastOut = IF o = 0 THEN <<m - 1, MsgBytes>> ELSE <<m, o>>
  BY <1>1, <1>3 DEF LastOut
<1> HIDE DEF m
<1>11. TypeIn' /\ Order'
  <2>1. TypeIn'
    <3>1. stdin' \in 0..InCap
      <4>1. stdin \in 0..InCap /\ InCap \in Nat
        BY <1>1
      <4> QED
        BY <1>2, <1>4, <4>1
    <3>2. sent' \in 0..MaxSent /\ rx' \in Seq(1..MaxSent)
      BY <1>1 DEF In, TypeIn
    <3> QED
      BY <1>7, <1>8, <3>1, <3>2 DEF TypeIn
  <2>2. Order'
    BY <1>1, <1>8 DEF In, Order, m
  <2> QED
    BY <2>1, <2>2
<1>12. fed'[1] = <<1, 1>>
  <2>1. CASE fed = <<>>
    <3>1. LastOut[1] = 0 /\ Len(fed) = 0
      BY <2>1 DEF In, StdinWhole
    <3>2. o = 0 /\ m = 1
      BY <1>3, <1>4, <1>10, <3>1
    <3>3. 1 \in 1..n /\ Len(fed) + 1 = 1 /\ o + 1 = 1
      BY <1>4, <3>1, <3>2
    <3> QED
      BY <1>7, <3>2, <3>3
  <2>2. CASE fed # <<>>
    <3>1. Len(fed) \in Nat \ {0} /\ fed[1] = <<1, 1>>
      BY <1>1, <2>2, EmptySeq DEF In, StdinWhole
    <3>2. 1 \in 1..Len(fed)
      BY <3>1
    <3> QED
      BY <1>7, <3>1, <3>2
  <2> QED
    BY <2>1, <2>2
<1>13. ASSUME NEW i \in 1..(Len(fed') - 1) PROVE fed'[i + 1] = After(fed'[i])
  <2>0. Len(fed) \in Nat /\ Len(fed') = Len(fed) + n /\ n \in Nat \ {0} /\ i \in Nat \ {0}
    BY <1>4, <1>7
  <2>1. CASE i < Len(fed)
    <3>1. i \in 1..Len(fed) /\ i + 1 \in 1..Len(fed) /\ i \in 1..(Len(fed) - 1)
      BY <2>1, <2>0
    <3> QED
      BY <1>7, <3>1 DEF In, StdinWhole
  <2>2. CASE i = Len(fed)
    <3>1. fed # <<>> /\ i \in 1..Len(fed)
      BY <1>7, <2>2
    <3>2. fed'[i] = LastOut
      BY <1>7, <2>2, <3>1 DEF In, StdinWhole
    <3>3. fed'[i + 1] = <<m, o + 1>>
      <4>1. 1 \in 1..n
        BY <1>4
      <4> QED
        BY <1>7, <2>2, <4>1
    <3>4. CASE o = 0
      <4>1. LastOut = <<m - 1, MsgBytes>>
        BY <1>10, <3>4
      <4>2. After(LastOut) = <<(m - 1) + 1, 1>>
        BY <1>1, <4>1 DEF After
      <4> QED
        BY <1>4, <3>2, <3>3, <3>4, <4>2
    <3>5. CASE o # 0
      <4>1. LastOut = <<m, o>>
        BY <1>10, <3>5
      <4>2. After(LastOut) = <<m, o + 1>>
        BY <1>1, <1>3, <4>1 DEF After
      <4> QED
        BY <3>2, <3>3, <4>2
    <3> QED
      BY <3>4, <3>5
  <2>3. CASE i > Len(fed)
    <3>1. PICK j \in 1..n : i = Len(fed) + j /\ j + 1 \in 1..n
      <4>1. i - Len(fed) \in 1..n /\ (i - Len(fed)) + 1 \in 1..n /\ i = Len(fed) + (i - Len(fed))
        BY <2>3, <2>0
      <4> QED
        BY <4>1
    <3>2. fed'[i] = <<m, o + j>>
      BY <1>7, <3>1
    <3>3. fed'[i + 1] = <<m, o + (j + 1)>>
      <4>1. i + 1 = Len(fed) + (j + 1)
        BY <1>7, <3>1
      <4> QED
        BY <1>7, <3>1, <4>1
    <3>4. o + j < MsgBytes /\ o + (j + 1) = (o + j) + 1
      <4>1. MsgBytes \in Nat \ {0} /\ o \in Nat /\ j \in Nat /\ j + 1 <= n
        BY <1>1, <1>3, <2>0, <3>1
      <4> QED
        BY <1>4, <4>1
    <3>5. After(<<m, o + j>>) = <<m, (o + j) + 1>>
      BY <3>4 DEF After
    <3> QED
      BY <3>2, <3>3, <3>4, <3>5
  <2> QED
    BY <2>1, <2>2, <2>3, <2>0
<1>14. fed' # <<>> /\ fed'[Len(fed')] = LastOut'
  <2>1. Len(fed') # 0 /\ n \in 1..n
    BY <1>4, <1>7
  <2>2. fed' # <<>>
    BY <2>1
  <2> QED
    BY <1>7, <1>9, <2>1, <2>2
<1>15. StdinWhole'
  BY <1>12, <1>13, <1>14 DEF StdinWhole
<1> QED
  BY <1>11, <1>15 DEF In

\* Every step keeps what goes in in order.
LEMMA InStep == In /\ [Next]_vars => In'
<1> SUFFICES ASSUME In, [Next]_vars PROVE In'
  OBVIOUS
<1>1. CASE GatewaySends
  BY <1>1, SendsIn
<1>2. CASE Recv
  BY <1>2, RecvIn
<1>3. CASE Write
  BY <1>3, WriteIn
<1>4. CASE ChildReads
  <2>1. UNCHANGED <<sent, rx, pending, fed>> /\ stdin' = 0
    BY <1>4 DEF ChildReads
  <2>2. TypeIn'
    BY <2>1, SessionAssumption, StdioAssumption DEF In, TypeIn
  <2> QED
    BY <2>1, <2>2 DEF In, Order, StdinWhole, LastOut
<1>5. CASE UNCHANGED inVars
  <2>1. UNCHANGED <<sent, rx, pending, fed, stdin>>
    BY <1>5 DEF inVars
  <2> QED
    BY <2>1 DEF In, TypeIn, Order, StdinWhole, LastOut
<1> QED
  BY <1>1, <1>2, <1>3, <1>4, <1>5, InFrame

-----------------------------------------------------------------------------
(* What comes out.                                                         *)

\* Whole numbers and their order, as Broken and Inside have them.
LEMMA Numbers ==
    ASSUME Stream, TypeRest
    PROVE  /\ Len(written) \in Nat /\ Len(ends) \in Nat /\ Len(pipe) \in Nat /\ Len(handled) \in Nat
           /\ MaxWritten \in Nat /\ MaxLine \in Nat /\ Consumed \in Nat /\ Complete \in Nat
           /\ Consumed + Len(pipe) = Len(written) /\ line \in Nat
           /\ \A k \in 1..Len(ends) : ends[k] \in Nat \ {0} /\ ends[k] <= Len(written)
           /\ \A k \in 0..Len(ends) : Break(k) \in Nat /\ Break(k) <= Len(written)
<1>1. /\ Len(written) \in Nat /\ Len(ends) \in Nat /\ Len(pipe) \in Nat /\ Len(handled) \in Nat
      /\ MaxWritten \in Nat /\ MaxLine \in Nat
  BY LenProperties, SessionAssumption, StdioAssumption DEF Stream, TypeOut
<1>2. \A k \in 1..Len(ends) : ends[k] \in Nat \ {0} /\ ends[k] <= Len(written)
  <2> SUFFICES ASSUME NEW k \in 1..Len(ends) PROVE ends[k] \in Nat \ {0} /\ ends[k] <= Len(written)
    OBVIOUS
  <2>1. ends[k] \in 1..MaxWritten
    BY ElementOfSeq DEF Stream, TypeOut
  <2> QED
    BY <1>1, <2>1 DEF Stream, Broken
<1>3. Consumed \in Nat /\ Consumed + Len(pipe) = Len(written)
  BY <1>1 DEF Stream, Piped, Consumed
<1>4. Complete \in Nat /\ line \in Nat
  BY <1>1 DEF Complete, TypeRest, Stream, TypeOut
<1>5. \A k \in 0..Len(ends) : Break(k) \in Nat /\ Break(k) <= Len(written)
  BY <1>1, <1>2 DEF Break
<1> QED
  BY <1>1, <1>2, <1>3, <1>4, <1>5

\* What the child writes is the end of the stream: the loop stays where it is.
LEMMA WritesStream ==
    ASSUME Stream, TypeRest, NEW x \in {"b", "n"}, ChildWrites(x)
    PROVE  Stream'
<1> DEFINE w == Len(written)
<1>1. /\ w < MaxWritten /\ written' = Append(written, x) /\ pipe' = Append(pipe, x)
      /\ ends' = (IF x = "n" THEN Append(ends, Len(written')) ELSE ends)
      /\ UNCHANGED <<line, emitting, handled, why>>
      /\ written \in Seq({"b", "n"}) /\ ends \in Seq(1..MaxWritten) /\ pipe \in Seq({"b", "n"})
  BY DEF ChildWrites, Stream, TypeOut
<1>2. /\ written' \in Seq({"b", "n"}) /\ Len(written') = w + 1 /\ written'[w + 1] = x
      /\ \A i \in 1..w : written'[i] = written[i]
  BY <1>1, AppendProperties
<1>3. /\ pipe' \in Seq({"b", "n"}) /\ Len(pipe') = Len(pipe) + 1 /\ pipe'[Len(pipe) + 1] = x
      /\ \A i \in 1..Len(pipe) : pipe'[i] = pipe[i]
  BY <1>1, AppendProperties
<1>4. /\ w \in Nat /\ Len(pipe) \in Nat /\ Len(ends) \in Nat /\ MaxWritten \in Nat
      /\ Consumed \in Nat /\ Consumed + Len(pipe) = w
      /\ \A k \in 1..Len(ends) : ends[k] \in Nat \ {0} /\ ends[k] <= w
      /\ \A k \in 0..Len(ends) : Break(k) \in Nat /\ Break(k) <= w
  BY Numbers
<1> HIDE DEF w
<1>5. /\ ends' \in Seq(1..MaxWritten) /\ Len(ends') \in Nat /\ Len(ends') >= Len(ends)
      /\ \A k \in 1..Len(ends) : ends'[k] = ends[k]
      /\ \/ x = "b" /\ Len(ends') = Len(ends)
         \/ x = "n" /\ Len(ends') = Len(ends) + 1 /\ ends'[Len(ends) + 1] = w + 1
  <2>1. CASE x = "n"
    <3>1. ends' = Append(ends, w + 1) /\ w + 1 \in 1..MaxWritten
      BY <1>1, <1>2, <1>4, <2>1
    <3> QED
      BY <1>1, <1>4, <2>1, <3>1, AppendProperties
  <2>2. CASE x = "b"
    BY <1>1, <1>4, <2>2
  <2> QED
    BY <2>1, <2>2
<1>6. TypeOut'
  BY <1>1, <1>2, <1>3, <1>5 DEF Stream, TypeOut
<1>7. Broken'
  <2>1. ASSUME NEW k \in 1..Len(ends') PROVE ends'[k] <= w + 1 /\ written'[ends'[k]] = "n"
    <3>1. CASE k \in 1..Len(ends)
      <4>1. ends'[k] = ends[k] /\ ends[k] \in 1..w
        BY <1>4, <1>5, <3>1
      <4>2. written[ends[k]] = "n"
        BY <3>1 DEF Stream, Broken
      <4> QED
        BY <1>2, <1>4, <4>1, <4>2
    <3>2. CASE k \notin 1..Len(ends)
      <4>1. x = "n" /\ k = Len(ends) + 1
        BY <1>4, <1>5, <3>2
      <4> QED
        BY <1>2, <1>4, <1>5, <4>1
    <3> QED
      BY <3>1, <3>2
  <2>2. ASSUME NEW k \in 1..Len(ends'), NEW m \in 1..Len(ends'), k < m PROVE ends'[k] < ends'[m]
    <3>1. CASE m \in 1..Len(ends)
      <4>1. k \in 1..Len(ends)
        BY <1>4, <1>5, <2>2, <3>1
      <4> QED
        BY <1>5, <2>2, <3>1, <4>1 DEF Stream, Broken
    <3>2. CASE m \notin 1..Len(ends)
      <4>1. Len(ends) \in Nat /\ Len(ends') \in {Len(ends), Len(ends) + 1}
        BY <1>4, <1>5
      <4>2. m = Len(ends) + 1 /\ k \in 1..Len(ends)
        BY <2>2, <3>2, <4>1
      <4>3. ends'[m] = w + 1
        BY <1>4, <1>5, <4>2
      <4>4. ends'[k] = ends[k] /\ ends[k] \in Nat /\ ends[k] <= w /\ w \in Nat
        BY <1>4, <1>5, <4>2
      <4> QED
        BY <4>3, <4>4
    <3> QED
      BY <3>1, <3>2
  <2>3. ASSUME NEW i \in 1..(w + 1), written'[i] = "n" PROVE \E k \in 1..Len(ends') : ends'[k] = i
    <3>1. CASE i \in 1..w
      <4>1. PICK k \in 1..Len(ends) : ends[k] = i
        BY <1>2, <2>3, <3>1 DEF Stream, Broken, w
      <4>2. k \in 1..Len(ends') /\ ends'[k] = i
        BY <1>4, <1>5, <4>1
      <4> QED
        BY <4>2
    <3>2. CASE i \notin 1..w
      <4>1. i = w + 1
        BY <1>4, <3>2
      <4>2. x = "n" /\ Len(ends) + 1 \in 1..Len(ends') /\ ends'[Len(ends) + 1] = i
        BY <1>2, <1>4, <1>5, <2>3, <4>1
      <4> QED
        BY <4>2
    <3> QED
      BY <3>1, <3>2
  <2>4. w + 1 <= MaxWritten
    BY <1>1, <1>4 DEF w
  <2> QED
    BY <1>2, <2>1, <2>2, <2>3, <2>4 DEF Broken
<1>8. Consumed' = Consumed
  BY <1>2, <1>3, <1>4 DEF Consumed, w
<1>9. Piped'
  <2>1. ASSUME NEW i \in 1..Len(pipe') PROVE pipe'[i] = written'[Consumed + i]
    <3>1. CASE i \in 1..Len(pipe)
      <4>1. Consumed + i \in 1..w
        BY <1>4, <3>1
      <4>2. pipe[i] = written[Consumed + i]
        BY <3>1 DEF Stream, Piped
      <4> QED
        BY <1>2, <1>3, <3>1, <4>1, <4>2
    <3>2. CASE i \notin 1..Len(pipe)
      <4>1. i = Len(pipe) + 1 /\ Consumed + i = w + 1
        BY <1>3, <1>4, <3>2
      <4> QED
        BY <1>2, <1>3, <4>1
    <3> QED
      BY <3>1, <3>2
  <2>2. Len(pipe') <= Len(written')
    BY <1>2, <1>3, <1>4
  <2> QED
    BY <1>8, <2>1, <2>2 DEF Piped
<1>10. Inside'
  <2>1. \A k \in 0..Len(ends) : Break(k)' = Break(k)
    BY <1>4, <1>5 DEF Break
  <2>2. Complete' = Complete /\ Complete \in Nat /\ Complete <= Len(ends) /\ Len(handled) \in Nat
        /\ Len(handled) <= Complete
    BY <1>1, Numbers DEF Complete, Stream, Inside, TypeRest
  <2>3. Break(Complete)' = Break(Complete)
    BY <1>4, <2>1, <2>2
  <2>4. emitting => Break(Complete - 1)' = Break(Complete - 1)
    <3> SUFFICES ASSUME emitting PROVE Break(Complete - 1)' = Break(Complete - 1)
      OBVIOUS
    <3>1. Complete = Len(handled) + 1
      BY DEF Complete
    <3>2. PICK c \in 0..Len(ends) : c = Complete - 1
      BY <1>4, <2>2, <3>1
    <3>3. Break(c)' = Break(c) /\ c = (Complete - 1)'
      BY <2>1, <2>2, <3>2
    <3> QED
      BY <3>2, <3>3 DEF Break
  <2>5. ASSUME NEW k \in 1..Len(handled') PROVE handled'[k] = ends'[k] - Break(k - 1)' - 1
    <3>1. k \in 1..Len(handled) /\ k \in 1..Len(ends) /\ k - 1 \in 0..Len(ends)
      <4>1. handled' = handled
        BY <1>1
      <4>2. Len(handled) \in Nat /\ Len(ends) \in Nat /\ Len(handled) <= Len(ends)
        BY <1>4, <2>2
      <4> QED
        BY <4>1, <4>2
    <3>2. handled[k] = ends[k] - Break(k - 1) - 1
      BY <3>1 DEF Stream, Inside
    <3> QED
      BY <1>1, <1>5, <2>1, <3>1, <3>2
  <2>6. Complete' <= Len(ends')
    BY <1>4, <1>5, <2>2
  <2>7. ASSUME why # "message_too_large", NEW i \in (Break(Complete) + 1)..Consumed
        PROVE  written'[i] = "b"
    <3>1. i \in 1..w
      <4>1. Break(Complete) \in Nat
        BY <1>4, <2>2
      <4> QED
        BY <1>4, <4>1
    <3>2. written[i] = "b"
      BY <2>7 DEF Stream, Inside
    <3> QED
      BY <1>2, <3>1, <3>2
  <2>8. why # "message_too_large" =>
          /\ Break(Complete) <= Consumed
          /\ emitting => /\ Consumed = Break(Complete)
                         /\ line = Consumed - Break(Complete - 1) - 1
          /\ ~emitting => line = Consumed - Break(Complete)
          /\ line <= MaxLine
    BY DEF Stream, Inside
  <2>9. (Complete - 1)' = Complete - 1
    BY <2>2
  <2>10. Break(Complete)' = Break(Complete) /\ (emitting' => Break(Complete - 1)' = Break(Complete - 1))
    BY <1>1, <2>3, <2>4
  <2> QED
    BY <1>1, <1>8, <2>2, <2>5, <2>6, <2>7, <2>8, <2>10 DEF Inside
<1> QED
  BY <1>6, <1>7, <1>9, <1>10 DEF Stream

\* What is left in the pipe after `n` of it are read.
LEMMA ReadsPipe ==
    ASSUME Stream, TypeRest, NEW n \in 1..Len(pipe),
           pipe' = SubSeq(pipe, n + 1, Len(pipe)), written' = written
    PROVE  pipe' \in Seq({"b", "n"}) /\ Consumed' = Consumed + n /\ Piped'
<1>1. /\ Len(pipe) \in Nat /\ Len(written) \in Nat /\ Consumed \in Nat
      /\ Consumed + Len(pipe) = Len(written) /\ pipe \in Seq({"b", "n"}) /\ n \in Nat /\ n <= Len(pipe)
  <2>1. Len(pipe) \in Nat
    BY Numbers
  <2> QED
    BY <2>1, Numbers DEF Stream, TypeOut
<1>2. /\ pipe' \in Seq({"b", "n"})
      /\ Len(pipe') = IF n + 1 <= Len(pipe) THEN Len(pipe) - (n + 1) + 1 ELSE 0
      /\ \A i \in 1..(Len(pipe) - (n + 1) + 1) : pipe'[i] = pipe[(n + 1) + i - 1]
  <2>1. \A i \in (n + 1)..Len(pipe) : pipe[i] \in {"b", "n"}
    <3> SUFFICES ASSUME NEW i \in (n + 1)..Len(pipe) PROVE pipe[i] \in {"b", "n"}
      OBVIOUS
    <3>1. i \in 1..Len(pipe)
      BY <1>1
    <3> QED
      BY <1>1, <3>1, ElementOfSeq
  <2>2. n + 1 \in Int /\ Len(pipe) \in Int
    BY <1>1
  <2> QED
    BY <2>1, <2>2, SubSeqProperties
<1>3. Len(pipe') = Len(pipe) - n
  BY <1>1, <1>2
<1>4. Consumed' = Consumed + n
  <2>1. Consumed' = Len(written) - Len(pipe') /\ Consumed = Len(written) - Len(pipe)
    BY DEF Consumed
  <2> QED
    BY <1>1, <1>3, <2>1
<1>5. ASSUME NEW i \in 1..Len(pipe') PROVE pipe'[i] = written'[Consumed' + i]
  <2>1. /\ n + i \in 1..Len(pipe) /\ (n + 1) + i - 1 = n + i
        /\ i \in 1..(Len(pipe) - (n + 1) + 1) /\ (Consumed + n) + i = Consumed + (n + i)
    BY <1>1, <1>3
  <2>2. pipe'[i] = pipe[n + i]
    BY <1>2, <2>1
  <2>3. pipe[n + i] = written[Consumed + (n + i)]
    BY <2>1 DEF Stream, Piped
  <2> QED
    BY <1>4, <2>1, <2>2, <2>3
<1>6. Len(pipe') <= Len(written')
  BY <1>1, <1>3
<1> QED
  BY <1>2, <1>4, <1>5, <1>6 DEF Piped

\* The bytes up to the first newline in the pipe belong to the line being read.
LEMMA LineSoFar ==
    ASSUME Stream, TypeRest, Selecting,
           NEW n \in 0..Len(pipe), \A i \in 1..n : pipe[i] # "n"
    PROVE  /\ Break(Complete) \in Nat /\ line + n = (Consumed + n) - Break(Complete)
           /\ Consumed + n <= Len(written) /\ n \in Nat
           /\ \A i \in (Break(Complete) + 1)..(Consumed + n) : written[i] = "b"
<1>1. /\ Len(pipe) \in Nat /\ Len(written) \in Nat /\ Consumed \in Nat /\ line \in Nat
      /\ Consumed + Len(pipe) = Len(written) /\ Complete \in Nat /\ Len(ends) \in Nat
      /\ pipe \in Seq({"b", "n"})
  BY Numbers DEF Stream, TypeOut
<1>2. /\ Complete <= Len(ends) /\ Break(Complete) <= Consumed /\ line = Consumed - Break(Complete)
      /\ \A i \in (Break(Complete) + 1)..Consumed : written[i] = "b"
  BY DEF Selecting, Stream, Inside
<1>3. Break(Complete) \in Nat
  <2>1. Complete \in 0..Len(ends)
    BY <1>1, <1>2
  <2> QED
    BY <2>1, Numbers
<1>4. ASSUME NEW i \in (Break(Complete) + 1)..(Consumed + n) PROVE written[i] = "b"
  <2>1. CASE i <= Consumed
    BY <1>1, <1>2, <1>3, <2>1
  <2>2. CASE ~(i <= Consumed)
    <3>1. PICK j \in 1..n : i = Consumed + j
      <4>1. i - Consumed \in 1..n /\ i = Consumed + (i - Consumed)
        BY <1>1, <1>3, <2>2
      <4> QED
        BY <4>1
    <3>2. j \in 1..Len(pipe)
      BY <1>1, <3>1
    <3>3. pipe[j] = written[i] /\ pipe[j] \in {"b", "n"}
      BY <1>1, <3>1, <3>2, ElementOfSeq DEF Stream, Piped
    <3> QED
      BY <3>3
  <2> QED
    BY <2>1, <2>2
<1>5. line + n = (Consumed + n) - Break(Complete) /\ Consumed + n <= Len(written) /\ n \in Nat
  BY <1>1, <1>2, <1>3
<1> QED
  BY <1>3, <1>4, <1>5

\* A line of more than MaxLine bytes is one in the child's output.
LEMMA TooLong ==
    ASSUME Stream, TypeRest, Selecting,
           NEW n \in 0..Len(pipe), \A i \in 1..n : pipe[i] # "n", line + n > MaxLine
    PROVE  \E k \in DOMAIN written :
              /\ k > MaxLine
              /\ \A j \in (k - MaxLine)..k : written[j] = "b"
<1> DEFINE k == Consumed + n
<1>1. /\ Break(Complete) \in Nat /\ line + n = (Consumed + n) - Break(Complete)
      /\ Consumed + n <= Len(written) /\ n \in Nat
      /\ \A i \in (Break(Complete) + 1)..(Consumed + n) : written[i] = "b"
  BY LineSoFar
<1>2. MaxLine \in Nat /\ Consumed \in Nat /\ Len(written) \in Nat
  BY Numbers
<1>3. k \in 1..Len(written) /\ k > MaxLine
  BY <1>1, <1>2
<1>4. ASSUME NEW j \in (k - MaxLine)..k PROVE written[j] = "b"
  <2>1. j \in (Break(Complete) + 1)..(Consumed + n)
    BY <1>1, <1>2
  <2> QED
    BY <1>1, <2>1
<1>5. k \in DOMAIN written
  <2>1. written \in Seq({"b", "n"})
    BY DEF Stream, TypeOut
  <2> QED
    BY <1>3, <2>1, LenProperties
<1> QED
  BY <1>3, <1>4, <1>5

\* The first newline in the pipe ends the line being read.
LEMMA NextEnd ==
    ASSUME Stream, TypeRest, Selecting,
           NEW k \in 1..Len(pipe), \A i \in 1..(k - 1) : pipe[i] # "n", pipe[k] = "n"
    PROVE  Complete + 1 <= Len(ends) /\ ends[Complete + 1] = Consumed + k
<1>1. /\ Len(pipe) \in Nat /\ Len(written) \in Nat /\ Consumed \in Nat /\ line \in Nat
      /\ Consumed + Len(pipe) = Len(written) /\ Complete \in Nat /\ Len(ends) \in Nat
      /\ \A m \in 1..Len(ends) : ends[m] \in Nat
  BY Numbers
<1>2. k - 1 \in 0..Len(pipe) /\ Consumed + (k - 1) = (Consumed + k) - 1
  BY <1>1
<1>3. /\ Break(Complete) \in Nat
      /\ \A i \in (Break(Complete) + 1)..(Consumed + (k - 1)) : written[i] = "b"
  BY <1>2, LineSoFar
<1>4. Complete <= Len(ends) /\ Break(Complete) <= Consumed
  BY DEF Selecting, Stream, Inside
<1>5. PICK m \in 1..Len(ends) : ends[m] = Consumed + k
  <2>1. written[Consumed + k] = "n" /\ Consumed + k \in 1..Len(written)
    BY <1>1 DEF Stream, Piped
  <2> QED
    BY <2>1 DEF Stream, Broken
<1>6. \A i \in 1..Len(ends) : \A j \in 1..Len(ends) : i < j => ends[i] < ends[j]
  BY DEF Stream, Broken
<1>7. Complete < m
  <2> SUFFICES ASSUME m <= Complete PROVE FALSE
    BY <1>1
  <2>1. Complete \in 1..Len(ends) /\ Break(Complete) = ends[Complete]
    BY <1>1, <1>4 DEF Break
  <2>2. ends[m] <= ends[Complete]
    BY <1>1, <1>6, <2>1
  <2> QED
    BY <1>1, <1>4, <1>5, <2>1, <2>2
<1>8. Complete + 1 \in 1..Len(ends)
  BY <1>1, <1>7
<1>9. m = Complete + 1
  <2> SUFFICES ASSUME Complete + 1 < m PROVE FALSE
    BY <1>1, <1>7
  <2>1. ends[Complete + 1] < Consumed + k
    BY <1>5, <1>6, <1>8
  <2>2. Break(Complete) < ends[Complete + 1]
    <3>1. CASE Complete = 0
      <4>1. ends[1] \in Nat \ {0}
        BY <1>8, <3>1, Numbers
      <4> QED
        BY <3>1, <4>1 DEF Break
    <3>2. CASE Complete # 0
      <4>1. Complete \in 1..Len(ends) /\ Complete < Complete + 1
        BY <1>1, <1>4, <3>2
      <4> QED
        BY <1>6, <1>8, <3>2, <4>1 DEF Break
    <3> QED
      BY <3>1, <3>2
  <2>3. ends[Complete + 1] \in (Break(Complete) + 1)..(Consumed + (k - 1))
    <3>1. ends[Complete + 1] \in Nat
      BY <1>1, <1>8
    <3> QED
      BY <1>1, <1>3, <2>1, <2>2, <3>1
  <2>4. written[ends[Complete + 1]] = "b"
    BY <1>3, <2>3
  <2>5. written[ends[Complete + 1]] = "n"
    BY <1>8 DEF Stream, Broken
  <2> QED
    BY <2>4, <2>5
<1> QED
  BY <1>1, <1>5, <1>8, <1>9

\* What a read is: a piece of a line, a line too long, or the end of one.
LEMMA ReadStream == ASSUME Stream, TypeRest, Read PROVE Stream'
<1>1. /\ Selecting /\ why = "running" /\ ~emitting /\ emitting \in BOOLEAN
      /\ UNCHANGED <<written, ends, handled>>
  BY DEF Read, Selecting, TypeRest
<1>2. PICK n \in 1..Len(pipe) : TakeLine(n)
  BY DEF Read
<1>3. /\ Len(pipe) \in Nat /\ Len(written) \in Nat /\ Consumed \in Nat /\ line \in Nat
      /\ Complete \in Nat /\ Len(ends) \in Nat /\ MaxWritten \in Nat /\ MaxLine \in Nat
      /\ Len(handled) \in Nat
  BY Numbers
<1>4. Broken'
  BY <1>1 DEF Stream, Broken
<1>5. \A k \in Nat : Break(k)' = Break(k)
  BY <1>1 DEF Break
<1>6. /\ Complete <= Len(ends) /\ Complete = Len(handled) /\ Len(written) <= MaxWritten
      /\ \A k \in 1..Len(handled) : handled[k] = ends[k] - Break(k - 1) - 1
  BY <1>1, <1>3 DEF Complete, Stream, Inside, Broken
<1>7. \A k \in 1..Len(handled') : handled'[k] = ends'[k] - Break(k - 1)' - 1
  <2> SUFFICES ASSUME NEW k \in 1..Len(handled) PROVE handled[k] = ends[k] - Break(k - 1)' - 1
    BY <1>1
  <2>1. k - 1 \in Nat /\ k - 1 = (k - 1)'
    BY <1>3
  <2> QED
    BY <1>5, <1>6, <2>1
<1>8. ASSUME NEW k \in 1..Len(pipe), NEW m \in {k - 1, k}, \A i \in 1..m : pipe[i] # "n",
             Gather(m), pipe' = SubSeq(pipe, k + 1, Len(pipe))
      PROVE  /\ TypeOut' /\ Piped' /\ Consumed' = Consumed + k /\ m \in 0..Len(pipe)
             /\ line' = (Consumed + m) - Break(Complete) /\ Break(Complete) \in Nat
             /\ \A i \in (Break(Complete) + 1)..(Consumed + m) : written[i] = "b"
             /\ why' = (IF line' > MaxLine THEN "message_too_large" ELSE "running")
  <2>1. m \in 0..Len(pipe)
    BY <1>3
  <2>2. /\ Break(Complete) \in Nat /\ line + m = (Consumed + m) - Break(Complete)
        /\ Consumed + m <= Len(written) /\ m \in Nat
        /\ \A i \in (Break(Complete) + 1)..(Consumed + m) : written[i] = "b"
    BY <1>1, <1>8, <2>1, LineSoFar
  <2>3. line' = line + m /\ why' = (IF line' > MaxLine THEN "message_too_large" ELSE "running")
    BY <1>1, <1>8 DEF Gather
  <2>4. line' \in 0..MaxWritten
    BY <1>3, <1>6, <2>2, <2>3
  <2>5. pipe' \in Seq({"b", "n"}) /\ Consumed' = Consumed + k /\ Piped'
    BY <1>1, <1>8, ReadsPipe
  <2>6. TypeOut'
    BY <1>1, <2>4, <2>5 DEF Stream, TypeOut
  <2> QED
    BY <2>1, <2>2, <2>3, <2>5, <2>6
<1>9. CASE /\ \A i \in 1..n : pipe[i] # "n"
           /\ Gather(n)
           /\ pipe' = SubSeq(pipe, n + 1, Len(pipe))
           /\ UNCHANGED <<emitting, clock>>
  <2>1. /\ TypeOut' /\ Piped' /\ Consumed' = Consumed + n
        /\ line' = (Consumed + n) - Break(Complete) /\ Break(Complete) \in Nat
        /\ \A i \in (Break(Complete) + 1)..(Consumed + n) : written[i] = "b"
        /\ why' = (IF line' > MaxLine THEN "message_too_large" ELSE "running")
    BY <1>8, <1>9
  <2>2. Complete' = Complete /\ ~emitting'
    BY <1>1, <1>9 DEF Complete
  <2>3. Break(Complete)' = Break(Complete)
    BY <1>1, <2>2 DEF Break
  <2>4. Break(Complete) <= Consumed + n
    <3>1. Break(Complete) <= Consumed
      BY <1>1 DEF Stream, Inside
    <3> QED
      BY <1>3, <2>1, <3>1
  <2>5. why' # "message_too_large" => line' <= MaxLine
    BY <1>3, <2>1
  <2>6. Inside'
    BY <1>1, <1>6, <1>7, <2>1, <2>2, <2>3, <2>4, <2>5 DEF Inside
  <2> QED
    BY <1>4, <2>1, <2>6 DEF Stream
<1>10. CASE \E k \in 1..n :
              /\ pipe[k] = "n" /\ \A i \in 1..(k - 1) : pipe[i] # "n"
              /\ Gather(k - 1)
              /\ pipe' = SubSeq(pipe, k + 1, Len(pipe))
              /\ \/ why' = "running" /\ emitting' = TRUE /\ left' = Idle /\ quiet' = 0
                 \/ why' # "running" /\ UNCHANGED <<emitting, clock>>
  <2>1. PICK k \in 1..n :
              /\ pipe[k] = "n" /\ \A i \in 1..(k - 1) : pipe[i] # "n"
              /\ Gather(k - 1)
              /\ pipe' = SubSeq(pipe, k + 1, Len(pipe))
              /\ \/ why' = "running" /\ emitting' = TRUE
                 \/ why' # "running" /\ emitting' = emitting
    BY <1>10
  <2>2. k \in 1..Len(pipe)
    BY <1>3
  <2>3. /\ TypeOut' /\ Piped' /\ Consumed' = Consumed + k
        /\ line' = (Consumed + (k - 1)) - Break(Complete)
        /\ why' = (IF line' > MaxLine THEN "message_too_large" ELSE "running")
    BY <1>8, <2>1, <2>2
  <2>4. CASE why' = "running"
    <3>1. emitting' = TRUE /\ Complete' = Complete + 1
      BY <1>1, <1>6, <2>1, <2>4 DEF Complete
    <3>2. Complete + 1 <= Len(ends) /\ ends[Complete + 1] = Consumed + k
      BY <1>1, <2>1, <2>2, NextEnd
    <3>3. Break(Complete)' = Consumed' /\ Break(Complete - 1)' = Break(Complete)
      <4>1. Complete' # 0 /\ Complete' - 1 = Complete
        BY <1>3, <3>1
      <4>2. Break(Complete)' = ends[Complete + 1]
        BY <1>1, <3>1, <4>1 DEF Break
      <4>3. Break(Complete - 1)' = Break(Complete)
        BY <1>1, <4>1 DEF Break
      <4> QED
        BY <2>3, <3>2, <4>2, <4>3
    <3>4. Consumed' \in Nat /\ (Consumed + (k - 1)) = (Consumed + k) - 1
      BY <1>3, <2>2, <2>3
    <3>5. line' = Consumed' - Break(Complete - 1)' - 1
      <4>1. Break(Complete) \in Nat
        BY <1>8, <2>1, <2>2
      <4>2. k \in Nat
        BY <1>3, <2>2
      <4> QED
        BY <1>3, <2>3, <3>3, <4>1, <4>2
    <3>6. line' <= MaxLine
      <4>1. line' \in Nat
        BY <2>3, SessionAssumption, StdioAssumption DEF TypeOut
      <4> QED
        BY <1>3, <2>3, <2>4, <4>1
    <3>7. \A i \in (Break(Complete)' + 1)..Consumed' : written'[i] = "b"
      <4>1. PICK c \in Nat : c = Consumed' /\ c = Break(Complete)'
        BY <3>3, <3>4
      <4>2. (c + 1)..c = {}
        BY <4>1
      <4> QED
        BY <4>1, <4>2
    <3>8. Break(Complete)' <= Consumed'
      BY <3>3, <3>4
    <3>9. Inside'
      BY <1>1, <1>7, <3>1, <3>2, <3>3, <3>5, <3>6, <3>7, <3>8 DEF Inside
    <3> QED
      BY <1>4, <2>3, <3>9 DEF Stream
  <2>5. CASE why' # "running"
    <3>1. why' = "message_too_large" /\ Complete' = Complete
      BY <1>1, <2>1, <2>3, <2>5 DEF Complete
    <3>2. Inside'
      BY <1>1, <1>6, <1>7, <3>1 DEF Inside
    <3> QED
      BY <1>4, <2>3, <3>2 DEF Stream
  <2> QED
    BY <2>4, <2>5
<1> QED
  BY <1>2, <1>9, <1>10 DEF TakeLine

\* `forward` has the line the loop made whole.
LEMMA ForwardStream == ASSUME Stream, TypeRest, Forward PROVE Stream'
<1> DEFINE h == Len(handled)
<1>1. /\ why = "running" /\ emitting /\ emitting' = FALSE /\ line' = 0
      /\ handled' = Append(handled, line) /\ UNCHANGED <<written, ends, pipe, why>>
      /\ handled \in Seq(0..MaxLine)
  BY DEF Forward, Stream, TypeOut
<1>2. /\ h \in Nat /\ line \in Nat /\ MaxLine \in Nat /\ MaxWritten \in Nat /\ Len(ends) \in Nat
      /\ Consumed \in Nat /\ Complete = h + 1
  BY <1>1, Numbers DEF Complete
<1>3. /\ Complete <= Len(ends) /\ Consumed = Break(Complete) /\ line <= MaxLine
      /\ line = Consumed - Break(Complete - 1) - 1
      /\ \A i \in (Break(Complete) + 1)..Consumed : written[i] = "b"
      /\ \A k \in 1..h : handled[k] = ends[k] - Break(k - 1) - 1
  BY <1>1 DEF Stream, Inside
<1>4. /\ handled' \in Seq(0..MaxLine) /\ Len(handled') = h + 1 /\ handled'[h + 1] = line
      /\ \A k \in 1..h : handled'[k] = handled[k]
  <2>1. line \in 0..MaxLine
    BY <1>2, <1>3
  <2> QED
    BY <1>1, <2>1, AppendProperties
<1> HIDE DEF h
<1>5. TypeOut'
  <2>1. 0 \in 0..MaxWritten
    BY <1>2
  <2> QED
    BY <1>1, <1>4, <2>1 DEF Stream, TypeOut
<1>6. Broken' /\ Piped' /\ Consumed' = Consumed
  BY <1>1 DEF Stream, Broken, Piped, Consumed
<1>7. Complete' = Complete
  BY <1>1, <1>2, <1>4 DEF Complete
<1>8. Break(Complete)' = Break(Complete)
  BY <1>1, <1>7 DEF Break
<1>9. ASSUME NEW k \in 1..Len(handled') PROVE handled'[k] = ends'[k] - Break(k - 1)' - 1
  <2>1. Break(k - 1)' = Break(k - 1)
    BY <1>1 DEF Break
  <2>2. CASE k \in 1..h
    BY <1>1, <1>3, <1>4, <2>1, <2>2
  <2>3. CASE k \notin 1..h
    <3>1. k = h + 1 /\ k = Complete /\ k # 0
      BY <1>2, <1>4, <2>3
    <3>2. Break(Complete) = ends[k]
      BY <3>1 DEF Break
    <3>3. line = ends[k] - Break(k - 1) - 1
      BY <1>3, <3>1, <3>2
    <3> QED
      BY <1>1, <1>4, <2>1, <3>1, <3>3
  <2> QED
    BY <2>2, <2>3
<1>10. /\ Break(Complete)' <= Consumed' /\ line' = Consumed' - Break(Complete)'
       /\ \A i \in (Break(Complete)' + 1)..Consumed' : written'[i] = "b"
  BY <1>1, <1>2, <1>3, <1>6, <1>8
<1>11. Inside'
  <2>1. Complete' <= Len(ends') /\ ~emitting' /\ line' <= MaxLine
    BY <1>1, <1>2, <1>3, <1>7
  <2> QED
    BY <1>9, <1>10, <2>1 DEF Inside
<1> QED
  BY <1>5, <1>6, <1>11 DEF Stream

\* Every step keeps the loop where its line says it is.
LEMMA StreamStep == Stream /\ TypeRest /\ [Next]_vars => Stream'
<1> SUFFICES ASSUME Stream, TypeRest, [Next]_vars PROVE Stream'
  OBVIOUS
<1>1. CASE \E x \in {"b", "n"} : ChildWrites(x)
  BY <1>1, WritesStream
<1>2. CASE Read
  BY <1>2, ReadStream
<1>3. CASE Forward
  BY <1>3, ForwardStream
<1>4. CASE Ends
  <2>1. UNCHANGED <<written, ends, pipe, line, emitting, handled>>
    BY <1>4 DEF Ends, outVars
  <2>2. why' # "message_too_large" => why # "message_too_large"
    BY <1>4 DEF Ends
  <2>3. Consumed' = Consumed /\ Complete' = Complete
    BY <2>1 DEF Consumed, Complete
  <2>4. TypeOut' /\ Broken' /\ Piped'
    BY <2>1, <2>3 DEF Stream, TypeOut, Broken, Piped
  <2>5. Inside'
    BY <2>1, <2>2, <2>3 DEF Stream, Inside, Break
  <2> QED
    BY <2>4, <2>5 DEF Stream
<1> QED
  BY <1>1, <1>2, <1>3, <1>4, OutFrame

-----------------------------------------------------------------------------
(* Time, and the end.                                                      *)

\* What no other action does: the clock and `exited` change, or the session is idle.
Calm ==
    /\ UNCHANGED <<left, quiet, exited>>
    /\ why' = why \/ why' \in {"none", "server_exited"}
    /\ emitting' \in {emitting, FALSE}
    /\ cancelled' \in {cancelled, TRUE} /\ alive' \in {alive, FALSE}
    /\ held' = held /\ closed' \in {closed, TRUE}

\* Five actions touch the clock or may say idle.
LEMMA ClockFrame ==
    [Next]_vars => Recv \/ Read \/ Wait \/ Expire \/ Tick \/ Calm
<1>1. UNCHANGED vars \/ Over => Calm
  BY DEF Over, vars, clock, outVars, childVars, Calm
<1>2. GatewaySends \/ Cancel \/ ChildReads \/ ChildExits \/ ChildClosesStdout \/ Kill => Calm
  BY DEF GatewaySends, Cancel, ChildReads, ChildExits, ChildClosesStdout, Kill, clock, outVars,
     childVars, Calm
<1>3. Closed \/ Write \/ WriteFails \/ ReadEof \/ ForwardFails => Calm
  BY DEF Closed, Write, WriteFails, ReadEof, ForwardFails, End, clock, outVars, childVars, Calm
<1>4. (\E x \in {"b", "n"} : ChildWrites(x)) \/ Forward => Calm
  BY DEF ChildWrites, Forward, clock, childVars, Calm
<1> QED
  BY <1>1, <1>2, <1>3, <1>4 DEF Next, Arm

\* Only Expire says idle, when nothing came for the whole idle time.
LEMMA RestStep ==
    ASSUME TypeRest, Timed, EndIsEarned, [Next]_vars
    PROVE  TypeRest' /\ Timed' /\ (why' = "idle" => quiet' = Idle /\ ~exited')
<1>1. Idle \in Nat /\ Drain \in Nat /\ Drain < Idle
  BY SessionAssumption, StdioAssumption
<1>2. why = "idle" => quiet = Idle /\ ~exited
  BY DEF EndIsEarned
<1>3. CASE Calm
  BY <1>2, <1>3 DEF Calm, TypeRest, Timed
<1>4. CASE Recv
  <2>1. why = "running" /\ left' = Idle /\ quiet' = 0 /\ UNCHANGED <<cancelled, alive, held, closed,
          emitting, exited, why>>
    BY <1>4 DEF Recv, Selecting, childVars, outVars
  <2>2. left' \in 0..Idle /\ quiet' \in 0..Idle /\ left' + quiet' = Idle
    BY <1>1, <2>1
  <2> QED
    BY <2>1, <2>2 DEF TypeRest, Timed
<1>5. CASE Read
  <2>1. /\ why = "running" /\ UNCHANGED <<cancelled, alive, held, closed, exited>>
        /\ why' \in {"running", "message_too_large"}
        /\ \/ UNCHANGED <<emitting, left, quiet>>
           \/ emitting' = TRUE /\ left' = Idle /\ quiet' = 0
    BY <1>5 DEF Read, TakeLine, Gather, Selecting, childVars, clock
  <2>2. left' \in 0..Idle /\ quiet' \in 0..Idle /\ (~exited => left' + quiet' = Idle)
    BY <1>1, <2>1 DEF TypeRest, Timed
  <2>3. emitting' \in BOOLEAN
    BY <2>1 DEF TypeRest
  <2> QED
    BY <2>1, <2>2, <2>3 DEF TypeRest, Timed
<1>6. CASE Wait
  <2>1. /\ why = "running" /\ exited' = TRUE /\ left' = Drain
        /\ UNCHANGED <<cancelled, alive, held, closed, emitting, quiet, why>>
    BY <1>6 DEF Wait, Selecting, childVars, outVars
  <2> QED
    BY <1>1, <2>1 DEF TypeRest, Timed
<1>7. CASE Expire
  <2>1. /\ left = 0 /\ why' = (IF exited THEN "server_exited" ELSE "idle")
        /\ UNCHANGED <<cancelled, alive, held, closed, emitting, exited, left, quiet>>
    BY <1>7 DEF Expire, End, childVars, outVars, clock
  <2>2. ~exited => quiet = Idle
    BY <1>1, <2>1 DEF TypeRest, Timed
  <2> QED
    BY <2>1, <2>2 DEF TypeRest, Timed
<1>8. CASE Tick
  <2>1. /\ why = "running" /\ UNCHANGED <<cancelled, alive, held, closed, emitting, exited, why>>
        /\ left' = (IF left > 0 THEN left - 1 ELSE 0)
        /\ quiet' = (IF quiet < Idle THEN quiet + 1 ELSE quiet)
    BY <1>8, TickEffect DEF childVars, outVars
  <2>2. left' \in 0..Idle /\ quiet' \in 0..Idle
    BY <1>1, <2>1 DEF TypeRest
  <2>3. ~exited => left' + quiet' = Idle
    BY <1>1, <2>1 DEF TypeRest, Timed
  <2> QED
    BY <2>1, <2>2, <2>3 DEF TypeRest, Timed
<1> QED
  BY <1>3, <1>4, <1>5, <1>6, <1>7, <1>8, ClockFrame

\* A line is given up only when the child wrote one too long.
LEMMA EarnedStep ==
    ASSUME Stream, TypeRest, Timed, EndIsEarned, [Next]_vars
    PROVE  EndIsEarned'
<1> DEFINE Long == \E k \in DOMAIN written :
                      /\ k > MaxLine
                      /\ \A j \in (k - MaxLine)..k : written[j] = "b"
<1>1. why' = "idle" => quiet' = Idle /\ ~exited'
  BY RestStep
<1>2. \A k \in DOMAIN handled' : handled'[k] <= MaxLine
  <2>1. handled' \in Seq(0..MaxLine) /\ MaxLine \in Nat
    BY StreamStep, SessionAssumption, StdioAssumption DEF Stream, TypeOut
  <2> SUFFICES ASSUME NEW k \in DOMAIN handled' PROVE handled'[k] <= MaxLine
    OBVIOUS
  <2>2. k \in 1..Len(handled')
    BY <2>1, LenProperties
  <2>3. handled'[k] \in 0..MaxLine
    BY <2>1, <2>2, ElementOfSeq
  <2> QED
    BY <2>1, <2>3
<1>3. why = "message_too_large" => Long
  BY DEF EndIsEarned
<1>4. why' = "message_too_large" => Long'
  <2> SUFFICES ASSUME why' = "message_too_large" PROVE Long'
    OBVIOUS
  <2>1. CASE \E x \in {"b", "n"} : ChildWrites(x)
    <3>1. PICK x \in {"b", "n"} : ChildWrites(x)
      BY <2>1
    <3>2. why' = why /\ written' = Append(written, x) /\ written \in Seq({"b", "n"})
      BY <3>1 DEF ChildWrites, Stream, TypeOut
    <3>3. /\ DOMAIN written = 1..Len(written) /\ DOMAIN written' = 1..(Len(written) + 1)
          /\ Len(written) \in Nat /\ MaxLine \in Nat
          /\ \A i \in 1..Len(written) : written'[i] = written[i]
      <4>1. written' \in Seq({"b", "n"}) /\ Len(written') = Len(written) + 1
        BY <3>2, AppendProperties
      <4> QED
        BY <3>2, <4>1, AppendProperties, LenProperties, Numbers
    <3>4. PICK k \in 1..Len(written) :
              /\ k > MaxLine
              /\ \A j \in (k - MaxLine)..k : written[j] = "b"
      BY <1>3, <3>2, <3>3
    <3>5. k \in DOMAIN written'
      BY <3>3
    <3>6. ASSUME NEW j \in (k - MaxLine)..k PROVE written'[j] = "b"
      <4>1. j \in 1..Len(written)
        BY <3>3, <3>4
      <4> QED
        BY <3>3, <3>4, <4>1
    <3> QED
      BY <3>4, <3>5, <3>6
  <2>2. CASE Read
    <3>1. /\ Selecting /\ why = "running" /\ UNCHANGED written /\ Len(pipe) \in Nat
          /\ \E n \in 1..Len(pipe) : TakeLine(n)
      BY <2>2, Numbers DEF Read, Selecting
    <3>2. PICK m \in 0..Len(pipe) : Gather(m) /\ \A i \in 1..m : pipe[i] # "n"
      <4>1. PICK n \in 1..Len(pipe) : TakeLine(n)
        BY <3>1
      <4>2. CASE (\A i \in 1..n : pipe[i] # "n") /\ Gather(n)
        BY <3>1, <4>2
      <4>3. CASE \E k \in 1..n : (\A i \in 1..(k - 1) : pipe[i] # "n") /\ Gather(k - 1)
        <5>1. PICK k \in 1..n : (\A i \in 1..(k - 1) : pipe[i] # "n") /\ Gather(k - 1)
          BY <4>3
        <5>2. k - 1 \in 0..Len(pipe)
          BY <3>1
        <5> QED
          BY <5>1, <5>2
      <4> QED
        BY <4>1, <4>2, <4>3 DEF TakeLine
    <3>3. line + m > MaxLine
      BY <3>1, <3>2 DEF Gather
    <3>4. Long
      BY <3>1, <3>2, <3>3, TooLong
    <3> QED
      BY <3>1, <3>4
  <2>3. CASE Forward
    <3>1. why' = why /\ written' = written
      BY <2>3 DEF Forward
    <3> QED
      BY <1>3, <3>1
  <2>4. CASE Ends
    <3>1. why' = why /\ written' = written
      BY <2>4 DEF Ends, outVars
    <3> QED
      BY <1>3, <3>1
  <2> QED
    BY <2>1, <2>2, <2>3, <2>4, OutFrame
<1> QED
  BY <1>1, <1>2, <1>4 DEF EndIsEarned

-----------------------------------------------------------------------------
(* The invariant and what follows from it.                                 *)

\* A session starts in the invariant.
LEMMA InitInv == Init => Inv
<1> SUFFICES ASSUME Init PROVE Inv
  OBVIOUS
<1>1. /\ Idle \in Nat /\ MaxLine \in Nat /\ MaxWritten \in Nat /\ MaxSent \in Nat /\ InCap \in Nat
      /\ MsgBytes \in Nat
  BY SessionAssumption, StdioAssumption
<1>2. \A S : <<>> \in Seq(S) /\ Len(<<>>) = 0
  OBVIOUS
<1>3. TypeIn /\ Order
  BY <1>1, <1>2 DEF Init, TypeIn, Order
<1>4. StdinWhole
  <2>1. LastOut = <<0, MsgBytes>>
    <3>1. sent - Len(rx) = 0 /\ pending = None
      <4>1. sent = 0 /\ Len(rx) = 0
        BY <1>2 DEF Init
      <4>2. pending = None
        BY DEF Init
      <4> QED
        BY <4>1, <4>2
    <3> QED
      BY <3>1 DEF LastOut
  <2> QED
    BY <1>2, <2>1 DEF Init, StdinWhole
<1>5. TypeOut /\ TypeRest /\ Timed
  <2>1. 0 \in 0..MaxWritten /\ 0 \in 0..Idle /\ Idle \in 0..Idle /\ Idle + 0 = Idle
    BY <1>1
  <2>2. TypeOut
    BY <1>2, <2>1 DEF Init, TypeOut
  <2>3. TypeRest
    BY <2>1 DEF Init, TypeRest
  <2>4. Timed
    BY <2>1 DEF Init, Timed
  <2> QED
    BY <2>2, <2>3, <2>4
<1>6. Broken /\ Piped
  BY <1>1, <1>2 DEF Init, Broken, Piped
<1>7. Inside
  <2>1. Complete = 0 /\ Consumed = 0 /\ Break(0) = 0
    BY <1>2 DEF Init, Complete, Consumed, Break
  <2> QED
    BY <1>1, <1>2, <2>1 DEF Init, Inside
<1>8. EndIsEarned
  BY DEF Init, EndIsEarned
<1> QED
  BY <1>3, <1>4, <1>5, <1>6, <1>7, <1>8 DEF Inv, In, Stream

\* Every step keeps the invariant.
LEMMA NextInv == Inv /\ [Next]_vars => Inv'
BY InStep, StreamStep, RestStep, EarnedStep DEF Inv

\* The invariant holds throughout.
LEMMA Invariance == Spec => []Inv
BY InitInv, NextInv, PTL DEF Spec

\* Every variable of a session keeps its type: no pipe or line outgrows its bound, and
\* the loop ends for one of the five reasons run() returns.
THEOREM TypeCorrect == Spec => []TypeOK
<1>1. Inv => TypeOK
  BY TypeParts DEF Inv, In, Stream
<1> QED
  BY <1>1, Invariance, PTL

\* The child's stdin is never torn, whatever arms win while a message is partly written
\* (write_pending keeps its place).
THEOREM StdinAlwaysWhole == Spec => []StdinWhole
<1>1. Inv => StdinWhole
  BY DEF Inv, In
<1> QED
  BY <1>1, Invariance, PTL

\* The gateway is told the truth of why a session ended (run, read_line_bounded).
THEOREM EndIsAlwaysEarned == Spec => []EndIsEarned
<1>1. Inv => EndIsEarned
  BY DEF Inv
<1> QED
  BY <1>1, Invariance, PTL

-----------------------------------------------------------------------------
(* Stdout implements Fifo.                                                 *)

\* The lines are as many as their ends, each of a length that fits.
LinesFit ==
    /\ Lines \in Seq(0..MaxWritten) /\ Len(Lines) = Len(ends)
    /\ \A k \in 1..Len(ends) : Lines[k] = ends[k] - Break(k - 1) - 1

\* The lines are what Fifo may be given.
LEMMA LinesShape == Stream /\ TypeRest => LinesFit
<1> SUFFICES ASSUME Stream, TypeRest PROVE LinesFit
  OBVIOUS
<1>1. /\ Len(ends) \in Nat /\ Len(written) \in Nat /\ MaxWritten \in Nat
      /\ Len(written) <= MaxWritten
      /\ \A k \in 1..Len(ends) : ends[k] \in Nat \ {0} /\ ends[k] <= Len(written)
      /\ \A k \in 0..Len(ends) : Break(k) \in Nat
  BY Numbers DEF Stream, Broken
<1>2. ASSUME NEW k \in 1..Len(ends) PROVE ends[k] - Break(k - 1) - 1 \in 0..MaxWritten
  <2>1. k - 1 \in 0..Len(ends) /\ Break(k - 1) \in Nat
    BY <1>1
  <2>2. Break(k - 1) < ends[k]
    <3>1. CASE k = 1
      BY <1>1, <3>1 DEF Break
    <3>2. CASE k # 1
      <4>1. k - 1 \in 1..Len(ends) /\ k - 1 < k /\ k - 1 # 0
        BY <1>1, <3>2
      <4>2. ends[k - 1] < ends[k]
        BY <4>1 DEF Stream, Broken
      <4> QED
        BY <4>1, <4>2 DEF Break
    <3> QED
      BY <3>1, <3>2
  <2>3. ends[k] \in Nat /\ ends[k] <= MaxWritten
    BY <1>1
  <2> QED
    BY <1>1, <2>1, <2>2, <2>3
<1>3. Lines \in Seq(0..MaxWritten) /\ DOMAIN Lines = 1..Len(ends)
  BY <1>1, <1>2 DEF Lines
<1>4. Len(Lines) = Len(ends)
  BY <1>1, <1>3, LenProperties
<1> QED
  BY <1>3, <1>4 DEF Lines, LinesFit

\* A session starts as Fifo does.
LEMMA LinesInit == Init => Out!Init
<1> SUFFICES ASSUME Init PROVE Out!Init
  OBVIOUS
<1>1. Len(ends) = 0
  BY DEF Init
<1>2. Lines = <<>>
  BY <1>1 DEF Lines
<1> QED
  BY <1>2 DEF Init, Out!Init

\* A newline puts one line more.
LEMMA NewlinePuts ==
    ASSUME Stream, TypeRest, ChildWrites("n")
    PROVE  \E v \in 0..MaxWritten : Out!Put(v)
<1>1. /\ ends' = Append(ends, Len(written')) /\ UNCHANGED <<handled, why>>
      /\ ends \in Seq(1..MaxWritten) /\ written \in Seq({"b", "n"}) /\ written' = Append(written, "n")
  BY DEF ChildWrites, Stream, TypeOut
<1>2. Stream' /\ TypeRest'
  BY WritesStream DEF ChildWrites, childVars, clock, TypeRest
<1>3. /\ Lines \in Seq(0..MaxWritten) /\ Len(Lines) = Len(ends) /\ Len(ends) \in Nat
      /\ \A k \in 1..Len(ends) : Lines[k] = ends[k] - Break(k - 1) - 1
  BY LinesShape, Numbers DEF LinesFit
<1>4. LinesFit'
  BY <1>2, LinesShape, PTL
<1>5. /\ Lines' \in Seq(0..MaxWritten) /\ Len(Lines') = Len(ends')
      /\ \A k \in 1..Len(ends') : Lines'[k] = ends'[k] - Break(k - 1)' - 1
  BY <1>4 DEF LinesFit
<1>6. /\ Len(ends') = Len(ends) + 1 /\ \A k \in 1..Len(ends) : ends'[k] = ends[k]
  <2>1. Len(written') \in 1..MaxWritten
    <3>1. Len(written') = Len(written) + 1 /\ Len(written) \in Nat /\ MaxWritten \in Nat
      BY <1>1, Numbers, AppendProperties
    <3>2. Len(written') <= MaxWritten
      BY <1>2 DEF Stream, Broken
    <3> QED
      BY <3>1, <3>2
  <2> QED
    BY <1>1, <2>1, AppendProperties
<1>7. ASSUME NEW k \in 1..Len(ends) PROVE Lines'[k] = Lines[k]
  <2>1. k \in 1..Len(ends') /\ k - 1 \in 0..Len(ends) /\ (k - 1 # 0 => k - 1 \in 1..Len(ends))
    BY <1>3, <1>6
  <2>2. Break(k - 1)' = Break(k - 1)
    BY <1>6, <2>1 DEF Break
  <2> QED
    BY <1>3, <1>5, <1>6, <2>1, <2>2
<1>8. PICK v \in 0..MaxWritten : v = Lines'[Len(ends) + 1]
  <2>1. Len(ends) + 1 \in 1..Len(Lines')
    BY <1>3, <1>5, <1>6
  <2> QED
    BY <1>5, <2>1, ElementOfSeq
<1>9. Lines' = Append(Lines, v)
  <2> DEFINE longer == Append(Lines, v)
  <2>1. /\ longer \in Seq(0..MaxWritten) /\ Len(longer) = Len(ends) + 1
        /\ longer[Len(ends) + 1] = v
        /\ \A k \in 1..Len(ends) : longer[k] = Lines[k]
    BY <1>3, <1>8, AppendProperties
  <2> HIDE DEF longer
  <2>2. ASSUME NEW k \in 1..Len(Lines') PROVE Lines'[k] = longer[k]
    <3>1. k \in 1..(Len(ends) + 1) /\ Len(ends) \in Nat
      BY <1>3, <1>5, <1>6
    <3>2. k \in 1..Len(ends) \/ k = Len(ends) + 1
      BY <3>1
    <3> QED
      BY <1>7, <1>8, <2>1, <3>2
  <2>3. Len(Lines') = Len(longer)
    BY <1>5, <1>6, <2>1
  <2>4. Lines' = longer
    BY <1>5, <2>1, <2>2, <2>3, SeqEqual
  <2> QED
    BY <2>4 DEF longer
<1> QED
  BY <1>1, <1>9 DEF Out!Put

\* Every step is a step of Fifo or none: a newline puts a line, `forward` gets one, and
\* the end of the loop ends it.
LEMMA LinesStep == Inv /\ [Next]_vars => [Out!Next]_(Out!vars)
<1> SUFFICES ASSUME Inv, [Next]_vars PROVE [Out!Next]_(Out!vars)
  OBVIOUS
<1>0. Stream /\ TypeRest
  BY DEF Inv
<1>1. CASE \E x \in {"b", "n"} : ChildWrites(x)
  <2>1. CASE ChildWrites("n")
    BY <1>0, <2>1, NewlinePuts DEF Out!Next
  <2>2. CASE ChildWrites("b")
    <3>1. UNCHANGED <<ends, handled, why>>
      BY <2>2 DEF ChildWrites
    <3>2. Lines' = Lines
      BY <3>1 DEF Lines, Break
    <3> QED
      BY <3>1, <3>2 DEF Out!vars
  <2> QED
    BY <1>1, <2>1, <2>2
<1>2. CASE Read
  <2>1. UNCHANGED <<ends, handled>> /\ why = "running"
    BY <1>2 DEF Read, Selecting
  <2>2. Lines' = Lines
    BY <2>1 DEF Lines, Break
  <2>3. CASE why' = why
    BY <2>1, <2>2, <2>3 DEF Out!vars
  <2>4. CASE why' # why
    <3>1. Out!End
      BY <2>1, <2>2, <2>4 DEF Out!End
    <3> QED
      BY <3>1 DEF Out!Next
  <2> QED
    BY <2>3, <2>4
<1>3. CASE Forward
  <2>1. /\ why = "running" /\ emitting /\ handled' = Append(handled, line)
        /\ UNCHANGED <<ends, why>> /\ Len(handled) \in Nat /\ Len(ends) \in Nat
    BY <1>0, <1>3, Numbers DEF Forward
  <2>2. Lines' = Lines
    BY <2>1 DEF Lines, Break
  <2>3. Complete = Len(handled) + 1 /\ Complete # 0 /\ Complete - 1 = Len(handled)
    BY <2>1 DEF Complete
  <2>4. /\ Complete <= Len(ends) /\ Consumed = Break(Complete)
        /\ line = Consumed - Break(Complete - 1) - 1
    BY <1>0, <2>1 DEF Stream, Inside
  <2>5. /\ Len(Lines) = Len(ends)
        /\ \A k \in 1..Len(ends) : Lines[k] = ends[k] - Break(k - 1) - 1
    BY <1>0, LinesShape DEF LinesFit
  <2>6. Len(handled) < Len(Lines) /\ Complete \in 1..Len(ends)
    BY <2>1, <2>3, <2>4, <2>5
  <2>7. Break(Complete) = ends[Complete]
    BY <2>3 DEF Break
  <2>8. line = Lines[Len(handled) + 1]
    BY <2>3, <2>4, <2>5, <2>6, <2>7
  <2>9. Out!Get
    BY <2>1, <2>2, <2>6, <2>8 DEF Out!Get
  <2> QED
    BY <2>9 DEF Out!Next
<1>4. CASE Ends
  <2>1. UNCHANGED <<ends, handled>>
    BY <1>4 DEF Ends, outVars
  <2>2. Lines' = Lines
    BY <2>1 DEF Lines, Break
  <2>3. CASE why' = why
    BY <2>1, <2>2, <2>3 DEF Out!vars
  <2>4. CASE why' # why
    <3>1. why' # "running"
      BY <1>4, <2>4 DEF Ends
    <3>2. Out!End
      BY <2>1, <2>2, <3>1 DEF Out!End
    <3> QED
      BY <3>2 DEF Out!Next
  <2> QED
    BY <2>3, <2>4
<1> QED
  BY <1>1, <1>2, <1>3, <1>4, OutFrame

\* A session implements the safety part of Fifo: every line the server writes is sent on
\* once, whole and in order, however the chunks of read_line_bounded fall, until the
\* session ends.
THEOREM LinesImplementFifo == Spec => Out!Safety
BY LinesInit, LinesStep, Invariance, PTL DEF Spec, Out!Safety

====
