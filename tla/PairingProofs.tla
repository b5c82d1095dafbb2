---------------------------- MODULE PairingProofs ----------------------------
(***************************************************************************)
(* Pairing, for any number of runs and any timing of the gateway: a config *)
(* never stands beside another device's key, and no poll comes too early.  *)
(***************************************************************************)
EXTENDS Pairing, FiniteSetTheorems, TLAPS

-----------------------------------------------------------------------------
(* The type invariant, in the parts an action disturbs separately.         *)

Before == {"new", "loaded", "asking", "starting"}
Asking == {"sleeping", "polling"}
Step == Ended \cup Before \cup Asking \cup {"paired", "opened", "written", "keyed", "picking"}

FilesOK ==
    /\ cfg \in Key \cup {NoDevice} /\ on \in BOOLEAN
    /\ names \in [path : 0..(Runs + 1), tmp : 0..(Runs + 1)]
    /\ data \in [Inode -> Key \cup {Empty}]

RunOK ==
    /\ step \in [Run -> Step]
    /\ loaded \in [Run -> Key \cup {NoDevice}] /\ kept \in [Run -> BOOLEAN]
    /\ fd \in [Run -> 0..(Runs + 1)]
    /\ consent \in [Run -> {"none", "approved", "redeemed"}]
    /\ overlapped \in BOOLEAN /\ broken \in BOOLEAN

ClockOK ==
    /\ age \in [Run -> 0..(Expires + Timeout)] /\ wake \in [Run -> 0..Expires]
    /\ polled \in [Run -> 0..Expires] /\ interval \in [Run -> Nat]

\* Where the clock of a run stands: nothing is polled before the flow starts, the
\* next poll is an interval away, and a run has no key file open before `persist`.
Paced(p) ==
    /\ step[p] \in Before => age[p] = 0 /\ polled[p] = 0 /\ interval[p] = Interval
    /\ step[p] = "sleeping" => age[p] <= wake[p] /\ wake[p] >= polled[p] + interval[p]
    /\ step[p] = "polling" => age[p] >= polled[p]
    /\ step[p] \in Before \cup Asking \cup {"paired"} => fd[p] = 0

\* The temporary name is never a second name of the key.
Apart == names.tmp # 0 => names.tmp # names.path

Typed == FilesOK /\ RunOK /\ ClockOK /\ Apart /\ \A p \in Run : Paced(p)

LEMMA TypedIsTypeOK == Typed => TypeOK
BY DEF Typed, TypeOK, FilesOK, RunOK, ClockOK, Step, Before, Asking, Ended

LEMMA Numbers ==
    /\ Runs \in Nat /\ Expires \in Nat /\ Timeout \in Nat
    /\ Interval \in Nat /\ SlowDownBy \in Nat
    /\ \A p \in Run : p \in Key /\ p # NoDevice /\ p # Empty
    /\ NoDevice # Empty /\ NoDevice \notin Key /\ Empty \notin Key
    /\ 1 \in Inode /\ 0 \in Key /\ 0 \in 0..(Runs + 1)
    /\ 0 \in 0..Expires /\ 0 \in 0..(Expires + Timeout)
BY PairingAssumption DEF Run, Key, NoDevice, Empty, Inode

LEMMA InitTyped == Init => Typed
<1> SUFFICES ASSUME Init PROVE Typed
  OBVIOUS
<1>1. FilesOK /\ Apart
  <2>1. cfg \in Key \cup {NoDevice} /\ on \in BOOLEAN
    BY Numbers DEF Init
  <2>2. names \in [path : 0..(Runs + 1), tmp : 0..(Runs + 1)] /\ names.tmp = 0
    BY Numbers DEF Init, Inode
  <2>3. data \in [Inode -> Key \cup {Empty}]
    BY Numbers DEF Init
  <2> QED
    BY <2>1, <2>2, <2>3 DEF FilesOK, Apart
<1>2. RunOK
  <2>1. step \in [Run -> Step]
    BY DEF Init, Step, Before
  <2>2. /\ loaded \in [Run -> Key \cup {NoDevice}] /\ kept \in [Run -> BOOLEAN]
        /\ overlapped \in BOOLEAN /\ broken \in BOOLEAN
    BY DEF Init
  <2>3. /\ fd \in [Run -> 0..(Runs + 1)]
        /\ consent \in [Run -> {"none", "approved", "redeemed"}]
    BY Numbers DEF Init
  <2> QED
    BY <2>1, <2>2, <2>3 DEF RunOK
<1>3. ClockOK
  BY Numbers DEF Init, ClockOK
<1>4. \A p \in Run : Paced(p)
  BY DEF Init, Paced, Before, Asking
<1> QED
  BY <1>1, <1>2, <1>3, <1>4 DEF Typed

\* What the other runs make of a step of run p.
LEMMA OthersPaced ==
    ASSUME Typed, NEW p \in Run, Paced(p)',
           \A q \in Run \ {p} : UNCHANGED <<step[q], age[q], polled[q], interval[q],
                                            wake[q], fd[q]>>
    PROVE  \A q \in Run : Paced(q)'
<1> TAKE q \in Run
<1>1. CASE q = p
  BY <1>1
<1>2. CASE q # p
  BY <1>2 DEF Typed, Paced
<1> QED
  BY <1>1, <1>2

\* An inode is left for a new temporary file.
LEMMA FreeInode ==
    ASSUME Typed, NEW p \in Run, step[p] = "paired"
    PROVE  \E i \in Inode : i # names.path /\ \A q \in Run : Active(q) => fd[q] # i
<1> SUFFICES ASSUME \A i \in Inode : i = names.path \/ \E q \in Run : fd[q] = i PROVE FALSE
  OBVIOUS
<1>1. PICK g \in [Inode -> Run] :
           \A i \in Inode : g[i] = IF i = names.path THEN p ELSE CHOOSE q \in Run : fd[q] = i
  <2> DEFINE h == [i \in Inode |-> IF i = names.path THEN p ELSE CHOOSE q \in Run : fd[q] = i]
  <2>1. h \in [Inode -> Run]
    OBVIOUS
  <2> QED
    BY <2>1
<1>2. \A i \in Inode : i # names.path => fd[g[i]] = i
  BY <1>1
<1>3. fd[p] = 0 /\ \A i \in Inode : i # 0
  BY Numbers DEF Typed, Paced, Inode
<1>4. \A i, j \in Inode : g[i] = g[j] => i = j
  BY <1>1, <1>2, <1>3
<1>5. /\ IsFiniteSet(Inode) /\ Cardinality(Inode) = Runs + 1
      /\ IsFiniteSet(Run) /\ Cardinality(Run) = Runs
  <2>1. 1 \in Int /\ Runs \in Int /\ Runs + 1 \in Int /\ Runs >= 1
    BY PairingAssumption
  <2>2. IsFiniteSet(1..(Runs + 1)) /\ IsFiniteSet(1..Runs)
    BY <2>1, FS_Interval
  <2>3. Cardinality(1..(Runs + 1)) = Runs + 1
    BY <2>1, FS_Interval
  <2>4. Cardinality(1..Runs) = Runs
    BY <2>1, FS_Interval
  <2> QED
    BY <2>2, <2>3, <2>4 DEF Inode, Run
<1>6. Cardinality(Run) < Cardinality(Inode)
  BY <1>5, Numbers
<1> QED
  BY <1>1, <1>4, <1>5, <1>6, FS_PigeonHole

-----------------------------------------------------------------------------
(* Steps that leave the clock alone.                                       *)

\* Between runs, and from the answer that pairs on, a run has no clock to mind.
LEMMA GoTyped ==
    ASSUME Typed, NEW p \in Run, NEW s \in Step, Go(p, s)
    PROVE  /\ step' \in [Run -> Step] /\ step'[p] = s
           /\ \A q \in Run \ {p} : step'[q] = step[q]
BY DEF Typed, RunOK, Go

\* A run that moves with its clock as it was.
LEMMA StillPaced ==
    ASSUME Typed, NEW p \in Run, NEW s \in Step, Go(p, s),
           s \in Before \cup {"paired", "polling", "sleeping"} =>
               s = step[p] \/ (s \in Before /\ step[p] \in Before)
               \/ (s = "paired" /\ step[p] \in Before \cup Asking),
           UNCHANGED <<age, wake, polled, interval>>,
           \A q \in Run : fd'[q] = fd[q] \/ (q = p /\ s \notin Before \cup Asking \cup {"paired"})
    PROVE  (\A q \in Run : Paced(q)') /\ ClockOK'
<1>1. step'[p] = s /\ \A q \in Run \ {p} : step'[q] = step[q]
  BY GoTyped
<1>2. Paced(p) /\ ClockOK
  BY DEF Typed
<1>3. Paced(p)'
  BY <1>1, <1>2 DEF Paced, Before, Asking
<1>4. ClockOK'
  BY <1>2 DEF ClockOK
<1> QED
  BY <1>1, <1>3, <1>4, OthersPaced

LEMMA CommandTyped ==
    ASSUME Typed, NEW p \in Run,
           (\E force \in BOOLEAN : login(p, force) \/ up_steps(p, force)) \/ up(p) \/ Finish(p)
           \/ pair(p) \/ Refused(p) \/ Misdirected(p) \/ Stop(p)
    PROVE  Typed'
<1>1. PICK s \in Step :
        /\ Go(p, s)
        /\ s \in Before \cup {"paired", "polling", "sleeping"} =>
               (s \in Before /\ step[p] \in Before)
               \/ (s = "paired" /\ step[p] \in Before)
  BY DEF login, up, up_steps, Finish, pair, Refused, Misdirected, Stop, Step, Before, Asking,
     Ended, Begin
<1>2. UNCHANGED <<files, flow, fd>>
  BY DEF login, up, up_steps, Finish, pair, Refused, Misdirected, Stop, flow
<1>3. (\A q \in Run : Paced(q)') /\ ClockOK'
  BY <1>1, <1>2, StillPaced DEF flow
<1>4. FilesOK' /\ Apart'
  BY <1>2 DEF Typed, FilesOK, Apart, files
<1>5. /\ loaded' \in [Run -> Key \cup {NoDevice}] /\ kept' \in [Run -> BOOLEAN]
      /\ overlapped' \in BOOLEAN /\ broken' \in BOOLEAN
  BY DEF login, up, up_steps, Finish, pair, Refused, Misdirected, Stop, Begin, Typed, RunOK,
     FilesOK, mine, ghosts
<1>6. RunOK'
  BY <1>1, <1>2, <1>5, GoTyped DEF Typed, RunOK, flow
<1> QED
  BY <1>3, <1>4, <1>6 DEF Typed
\* Steps that only touch what other runs and the config say.
LEMMA AsideTyped ==
    ASSUME Typed, ApprovalsOn \/ \E p \in Run : Attach(p) \/ OwnerApproves(p)
    PROVE  Typed'
<1>1. UNCHANGED <<names, data, step, loaded, kept, fd, age, wake, interval, polled, overlapped,
                  broken>>
  BY DEF ApprovalsOn, Attach, OwnerApproves, files, mine, flow, ghosts
<1>2. cfg' \in Key \cup {NoDevice} /\ on' \in BOOLEAN
  BY DEF ApprovalsOn, Attach, OwnerApproves, files, Typed, FilesOK, RunOK
<1>3. consent' \in [Run -> {"none", "approved", "redeemed"}]
  BY DEF ApprovalsOn, Attach, OwnerApproves, flow, Typed, RunOK
<1>4. \A p \in Run : Paced(p)'
  BY <1>1 DEF Typed, Paced
<1> QED
  BY <1>1, <1>2, <1>3, <1>4 DEF Typed, FilesOK, RunOK, ClockOK, Apart

-----------------------------------------------------------------------------
(* The clock.                                                              *)

\* A sleep ends an interval later, or does not begin.
LEMMA SleepTyped ==
    ASSUME Typed, NEW p \in Run, step[p] \in {"starting", "polling"}, NEW i \in Nat,
           Sleep(p, i), interval' = [interval EXCEPT ![p] = i], UNCHANGED <<polled, fd>>
    PROVE  /\ step' \in [Run -> Step] /\ ClockOK' /\ \A q \in Run : Paced(q)'
<1>1. /\ age[p] \in Nat /\ polled[p] \in Nat /\ age[p] >= polled[p]
      /\ age[p] \in 0..(Expires + Timeout)
  BY Numbers DEF Typed, ClockOK, Paced, Before
<1>2. PICK s \in {"failed", "sleeping"} :
        /\ Go(p, s)
        /\ s = "sleeping" => age[p] + i <= Expires /\ wake' = [wake EXCEPT ![p] = age[p] + i]
        /\ s = "failed" => UNCHANGED wake
  BY <1>1, Numbers DEF Sleep
<1>3. s \in Step
  BY DEF Step, Ended, Asking
<1>4. /\ step' \in [Run -> Step] /\ step'[p] = s
      /\ \A q \in Run \ {p} : step'[q] = step[q]
  BY <1>2, <1>3, GoTyped
<1>5. UNCHANGED age
  BY DEF Sleep
<1>6. /\ interval' \in [Run -> Nat] /\ interval'[p] = i
      /\ \A q \in Run \ {p} : interval'[q] = interval[q]
  BY DEF Typed, ClockOK
<1>7. /\ wake' \in [Run -> 0..Expires]
      /\ s = "sleeping" => wake'[p] = age[p] + i
      /\ \A q \in Run \ {p} : wake'[q] = wake[q]
  <2>1. CASE s = "sleeping"
    <3>1. age[p] + i \in 0..Expires
      BY <1>1, <1>2, <2>1, Numbers
    <3> QED
      BY <1>2, <2>1, <3>1 DEF Typed, ClockOK
  <2>2. CASE s = "failed"
    BY <1>2, <2>2 DEF Typed, ClockOK
  <2> QED
    BY <2>1, <2>2
<1>8. ClockOK'
  BY <1>5, <1>6, <1>7 DEF Typed, ClockOK
<1>9. Paced(p)'
  <2>1. fd[p] = 0
    BY DEF Typed, Paced, Before, Asking
  <2>2. age[p] <= age[p] + i /\ age[p] + i >= polled[p] + i
    BY <1>1
  <2> QED
    BY <1>2, <1>4, <1>5, <1>6, <1>7, <2>1, <2>2 DEF Paced, Before, Asking
<1> QED
  BY <1>4, <1>5, <1>6, <1>7, <1>8, <1>9, OthersPaced

LEMMA FlowTyped ==
    ASSUME Typed, NEW p \in Run,
           start(p) \/ Poll(p) \/ Approved(p) \/ Pending(p) \/ SlowDown(p) \/ Lost(p) \/ Tick(p)
    PROVE  Typed'
<1>1. UNCHANGED <<files, mine, fd, ghosts>>
  BY DEF start, Poll, Approved, Pending, SlowDown, Lost, Tick
<1>2. FilesOK' /\ Apart'
  BY <1>1 DEF Typed, FilesOK, Apart, files
<1>3. consent' \in [Run -> {"none", "approved", "redeemed"}]
  BY DEF start, Poll, Approved, Pending, SlowDown, Lost, Tick, Typed, RunOK
<1>4. step' \in [Run -> Step] => RunOK'
  BY <1>1, <1>3 DEF Typed, RunOK, mine, ghosts
<1>5. CASE start(p)
  <2>1. CASE Sleep(p, Interval)
    <3>1. interval' = [interval EXCEPT ![p] = Interval] /\ polled' = polled
      BY <1>5 DEF start, Typed, Paced, Before, ClockOK
    <3> QED
      BY <1>1, <1>2, <1>4, <1>5, <2>1, <3>1, SleepTyped, Numbers DEF start, Typed
  <2>2. CASE Go(p, "failed") /\ UNCHANGED <<age, wake>>
    BY <1>1, <1>2, <1>4, <1>5, <2>2, GoTyped, StillPaced
       DEF start, Typed, Step, Ended, Before, Asking
  <2> QED
    BY <1>5, <2>1, <2>2 DEF start
<1>6. CASE Pending(p) \/ Lost(p)
  <2>1. /\ Sleep(p, interval[p]) /\ step[p] = "polling" /\ interval[p] \in Nat
        /\ interval' = [interval EXCEPT ![p] = interval[p]] /\ polled' = polled
    BY <1>6 DEF Pending, Lost, Typed, ClockOK
  <2> QED
    BY <1>1, <1>2, <1>4, <2>1, SleepTyped DEF Typed
<1>7. CASE SlowDown(p)
  <2>1. /\ Sleep(p, interval'[p]) /\ step[p] = "polling"
        /\ interval' = [interval EXCEPT ![p] = interval[p] + SlowDownBy] /\ polled' = polled
        /\ interval'[p] = interval[p] + SlowDownBy
    BY <1>7 DEF SlowDown, Typed, ClockOK
  <2>2. interval[p] + SlowDownBy \in Nat
    BY Numbers DEF Typed, ClockOK
  <2> QED
    BY <1>1, <1>2, <1>4, <2>1, <2>2, SleepTyped DEF Typed
<1>8. CASE Approved(p)
  BY <1>1, <1>2, <1>4, <1>8, GoTyped, StillPaced DEF Approved, Typed, Step, Before, Asking
<1>9. CASE Poll(p)
  <2>1. /\ step' \in [Run -> Step] /\ step'[p] = "polling"
        /\ \A q \in Run \ {p} : step'[q] = step[q]
    BY <1>9, GoTyped DEF Poll, Step, Asking
  <2>2. /\ polled' \in [Run -> 0..Expires] /\ polled'[p] = age[p]
        /\ \A q \in Run \ {p} : polled'[q] = polled[q]
    BY <1>9 DEF Poll, Typed, ClockOK
  <2>3. UNCHANGED <<age, wake, interval>>
    BY <1>9 DEF Poll
  <2>4. ClockOK' /\ age[p] \in Nat
    BY <2>2, <2>3, Numbers DEF Typed, ClockOK
  <2>5. Paced(p)'
    BY <1>1, <1>9, <2>1, <2>2, <2>3, <2>4 DEF Poll, Typed, Paced, Before, Asking
  <2> QED
    BY <1>1, <1>2, <1>4, <2>1, <2>2, <2>3, <2>4, <2>5, OthersPaced DEF Typed
<1>10. CASE Tick(p)
  <2>1. UNCHANGED <<step, wake, interval, polled>> /\ age' = [age EXCEPT ![p] = @ + 1]
    BY <1>10 DEF Tick
  <2>2. /\ age[p] \in Nat /\ wake[p] \in 0..Expires /\ polled[p] \in 0..Expires
    BY Numbers DEF Typed, ClockOK
  <2>3. /\ age[p] + 1 \in 0..(Expires + Timeout)
        /\ step[p] = "sleeping" => age[p] + 1 <= wake[p]
    BY <1>10, <2>2, Numbers DEF Tick
  <2>4. ClockOK' /\ age'[p] = age[p] + 1 /\ \A q \in Run \ {p} : age'[q] = age[q]
    BY <2>1, <2>3 DEF Typed, ClockOK
  <2>5. Paced(p)'
    BY <1>1, <1>10, <2>1, <2>2, <2>3, <2>4 DEF Tick, Typed, Paced, Before, Asking
  <2>6. step' \in [Run -> Step]
    BY <2>1 DEF Typed, RunOK
  <2> QED
    BY <1>1, <1>2, <1>4, <2>1, <2>4, <2>5, <2>6, OthersPaced DEF Typed
<1> QED
  BY <1>5, <1>6, <1>7, <1>8, <1>9, <1>10
-----------------------------------------------------------------------------
(* The files.                                                              *)

\* The inode that OpenKey writes to: the temporary file there is, or a fresh one.
LEMMA OpenedWhere ==
    ASSUME Typed, NEW p \in Run, OpenKey(p)
    PROVE  \E new \in Inode :
              /\ new # names.path /\ new # 0
              /\ fd' = [fd EXCEPT ![p] = new]
              /\ names' = [names EXCEPT !.tmp = new]
              /\ data' = [data EXCEPT ![new] = Empty]
<1> DEFINE free == CHOOSE i \in Inode : /\ i # names.path
                                       /\ \A q \in Run : Active(q) => fd[q] # i
           new == IF names.tmp # 0 THEN names.tmp ELSE free
<1>1. /\ step[p] = "paired"
      /\ fd' = [fd EXCEPT ![p] = new]
      /\ names' = [names EXCEPT !.tmp = new]
      /\ data' = [data EXCEPT ![new] = Empty]
  BY DEF OpenKey, Opened
<1>2. free \in Inode /\ free # names.path
  BY <1>1, FreeInode
<1> HIDE DEF free
<1>3. names.tmp # 0 => names.tmp \in Inode /\ names.tmp # names.path
  BY DEF Typed, FilesOK, Apart, Inode
<1>4. new \in Inode /\ new # names.path /\ new # 0
  BY <1>2, <1>3 DEF Inode
<1> HIDE DEF new
<1> QED
  BY <1>1, <1>4

LEMMA PersistTyped ==
    ASSUME Typed, NEW p \in Run, OpenKey(p) \/ WriteKey(p) \/ RenameKey(p) \/ SaveConfig(p)
    PROVE  Typed'
<1>0. UNCHANGED <<age, wake, interval, polled, consent>>
  BY DEF OpenKey, Opened, WriteKey, RenameKey, SaveConfig, flow
<1>1. PICK s \in Step : Go(p, s) /\ s \notin Before \cup Asking \cup {"paired"}
  BY DEF OpenKey, Opened, WriteKey, RenameKey, SaveConfig, Step, Ended, Before, Asking
<1>2. step' \in [Run -> Step]
  BY <1>1, GoTyped
<1>3. FilesOK' /\ Apart' /\ fd' \in [Run -> 0..(Runs + 1)]
      /\ \A q \in Run \ {p} : fd'[q] = fd[q]
  <2>1. CASE OpenKey(p)
    <3>1. PICK new \in Inode :
              /\ new # names.path /\ new # 0
              /\ fd' = [fd EXCEPT ![p] = new]
              /\ names' = [names EXCEPT !.tmp = new]
              /\ data' = [data EXCEPT ![new] = Empty]
      BY <2>1, OpenedWhere
    <3>2. new \in 0..(Runs + 1)
      BY Numbers DEF Inode
    <3>3. UNCHANGED <<cfg, on>>
      BY <2>1 DEF OpenKey, Opened
    <3> QED
      BY <3>1, <3>2, <3>3 DEF Typed, FilesOK, Apart, RunOK
  <2>2. CASE WriteKey(p)
    BY <2>2, Numbers DEF WriteKey, Typed, FilesOK, Apart, RunOK
  <2>3. CASE RenameKey(p)
    <3>1. UNCHANGED <<cfg, on, data, fd>>
      BY <2>3 DEF RenameKey
    <3>2. UNCHANGED names \/ names' = [path |-> names.tmp, tmp |-> 0]
      BY <2>3 DEF RenameKey
    <3> QED
      BY <3>1, <3>2, Numbers DEF Typed, FilesOK, Apart, RunOK
  <2>4. CASE SaveConfig(p)
    BY <2>4, Numbers DEF SaveConfig, Typed, FilesOK, Apart, RunOK
  <2> QED
    BY <2>1, <2>2, <2>3, <2>4
<1>4. /\ loaded' \in [Run -> Key \cup {NoDevice}] /\ kept' \in [Run -> BOOLEAN]
      /\ overlapped' \in BOOLEAN /\ broken' \in BOOLEAN
  BY Numbers DEF OpenKey, Opened, WriteKey, RenameKey, SaveConfig, mine, ghosts, Typed, RunOK
<1>5. (\A q \in Run : Paced(q)') /\ ClockOK'
  BY <1>0, <1>1, <1>3, StillPaced DEF Before, Asking
<1> QED
  BY <1>0, <1>2, <1>3, <1>4, <1>5 DEF Typed, RunOK

LEMMA NextTyped == Typed /\ [Next]_vars => Typed'
<1> SUFFICES ASSUME Typed, [Next]_vars PROVE Typed'
  OBVIOUS
<1>1. CASE UNCHANGED vars
  BY <1>1 DEF vars, files, flow, ghosts, mine, Typed, FilesOK, RunOK, ClockOK, Apart, Paced
<1>2. ASSUME NEW p \in Run, RunStep(p) PROVE Typed'
  BY <1>2, CommandTyped, AsideTyped, FlowTyped, PersistTyped DEF RunStep, Answer, Persist
<1> QED
  BY <1>1, <1>2, AsideTyped DEF Next

LEMMA AlwaysTyped == Spec => []Typed
BY InitTyped, NextTyped, PTL DEF Spec

\* Every variable of the pairing has its type, whatever runs overlap.
THEOREM TypeCorrect == Spec => []TypeOK
<1>1. []Typed => []TypeOK
  BY TypedIsTypeOK, PTL
<1> QED
  BY <1>1, AlwaysTyped, PTL

\* No poll comes before the interval is over, slow_down included, and none after the
\* code expired, however long the answers take (pair.rs, wait).
THEOREM PollsAlwaysKeepTheirDistance == Spec => PollsKeepTheirDistance
<1>1. ASSUME Typed, [Next]_vars
      PROVE  \A p \in Run : polled'[p] # polled[p] =>
                 polled'[p] >= polled[p] + interval[p] /\ polled'[p] <= Expires
  <2> TAKE p \in Run
  <2> HAVE polled'[p] # polled[p]
  <2>1. PICK q \in Run : Poll(q)
    BY <1>1 DEF Next, RunStep, login, up, up_steps, Attach, Finish, pair, start, Answer,
       Approved, Pending, SlowDown, Lost, Refused, OwnerApproves, Tick, Persist, Misdirected,
       OpenKey, Opened, WriteKey, RenameKey, SaveConfig, Stop, ApprovalsOn, vars, flow
  <2>2. p = q /\ polled'[p] = wake[p] /\ step[p] = "sleeping"
    BY <1>1, <2>1 DEF Poll, Typed, ClockOK
  <2>3. wake[p] \in 0..Expires
    BY <1>1 DEF Typed, ClockOK
  <2> QED
    BY <1>1, <2>2, <2>3, Numbers DEF Typed, Paced
<1> QED
  BY <1>1, AlwaysTyped, PTL DEF Spec, PollsKeepTheirDistance
-----------------------------------------------------------------------------
(* The key and the config.                                                 *)

\* What a run that is alone knows: the config is the one it has in memory, the
\* temporary file is its own, with its key once that is written, and the key file
\* has its key between the two renames.
Own(p) ==
    /\ loaded[p] = cfg
    /\ step[p] \in {"opened", "written"} => fd[p] = names.tmp /\ names.tmp # 0
    /\ step[p] = "written" => data[names.tmp] = p
    /\ step[p] = "keyed" => KeyFile = p

Solo ==
    /\ ~overlapped => /\ \A p, q \in Run : Active(p) /\ Active(q) => p = q
                      /\ \A p \in Run : Active(p) => Own(p)
    /\ KeyMatchesDevice

\* It is enough to look at the run that moved.
LEMMA ActorKeeps ==
    ASSUME Solo, NEW p \in Run, Active(p), ~overlapped,
           \A q \in Run \ {p} : step'[q] = step[q],
           Active(p)' => Own(p)', KeyMatchesDevice'
    PROVE  Solo'
<1>1. \A q \in Run : Active(q)' => q = p
  BY DEF Solo, Active
<1> QED
  BY <1>1 DEF Solo

\* A run that touches neither file.
LEMMA FilesKept ==
    ASSUME Typed, Solo, NEW p \in Run, NEW s \in Step, Go(p, s), Active(p), ~overlapped,
           s \notin {"opened", "written", "keyed"},
           UNCHANGED <<cfg, names, data, loaded>>,
           ~broken' => ~broken /\ (step[p] = "keyed" => cfg = NoDevice)
    PROVE  Solo'
<1>1. step'[p] = s /\ \A q \in Run \ {p} : step'[q] = step[q]
  BY GoTyped
<1>2. KeyFile' = KeyFile
  BY DEF KeyFile
<1>3. Own(p)'
  BY <1>1 DEF Solo, Own
<1>4. KeyMatchesDevice'
  <2> SUFFICES ASSUME cfg # NoDevice, ~broken', \A q \in Run : step'[q] # "keyed"
               PROVE  KeyFile = cfg
    BY <1>2 DEF KeyMatchesDevice
  <2>1. \A q \in Run : step[q] # "keyed"
    BY <1>1
  <2> QED
    BY <2>1 DEF Solo, KeyMatchesDevice
<1> QED
  BY <1>1, <1>3, <1>4, ActorKeeps

LEMMA BeginSolo ==
    ASSUME Typed, Solo, NEW p \in Run, Begin(p), NEW s \in {"failed", "asking", "loaded"},
           Go(p, s), UNCHANGED <<files, fd, broken>>
    PROVE  Solo'
<1>1. step'[p] = s /\ \A q \in Run \ {p} : step'[q] = step[q]
  BY GoTyped DEF Step, Ended, Before
<1>2. loaded'[p] = cfg /\ KeyFile' = KeyFile
  BY DEF Begin, KeyFile, files, Typed, RunOK
<1>3. ~overlapped' => ~overlapped /\ \A q \in Run : ~Active(q)
  BY DEF Begin
<1>4. ASSUME ~overlapped'
      PROVE  \A q \in Run : Active(q)' => q = p /\ Own(q)'
  BY <1>1, <1>2, <1>3, <1>4 DEF Active, Own, files
<1>5. KeyMatchesDevice'
  BY <1>1, <1>2, <1>3 DEF Solo, KeyMatchesDevice, files, Begin
<1> QED
  BY <1>4, <1>5 DEF Solo

LEMMA PersistSolo ==
    ASSUME Typed, Solo, ~overlapped, NEW p \in Run,
           OpenKey(p) \/ WriteKey(p) \/ RenameKey(p) \/ SaveConfig(p)
    PROVE  Solo'
<1>0. Active(p) /\ overlapped' = overlapped
  BY DEF OpenKey, Opened, WriteKey, RenameKey, SaveConfig, Active, Ended, ghosts
<1>1. PICK s \in Step :
        /\ Go(p, s)
        /\ OpenKey(p) => s = "opened"
        /\ WriteKey(p) => s = "written"
        /\ RenameKey(p) => s = IF names.tmp = 0 THEN "failed" ELSE "keyed"
        /\ SaveConfig(p) => s \in {"done", "picking"}
  BY DEF OpenKey, Opened, WriteKey, RenameKey, SaveConfig, Step, Ended
<1>2. step'[p] = s /\ \A q \in Run \ {p} : step'[q] = step[q]
  BY <1>1, GoTyped
<1>3. Own(p)
  BY <1>0 DEF Solo
<1>4. CASE OpenKey(p)
  <2>1. PICK new \in Inode :
            /\ new # names.path /\ new # 0
            /\ fd' = [fd EXCEPT ![p] = new]
            /\ names' = [names EXCEPT !.tmp = new]
            /\ data' = [data EXCEPT ![new] = Empty]
    BY <1>4, OpenedWhere
  <2>2. UNCHANGED <<cfg, loaded, broken>>
    BY <1>4 DEF OpenKey, Opened, mine, ghosts
  <2>3. /\ fd'[p] = new /\ names'.tmp = new /\ names'.path = names.path
        /\ names.path # 0 => data'[names.path] = data[names.path]
    BY <2>1 DEF Typed, FilesOK, RunOK, Inode
  <2>4. KeyFile' = KeyFile
    BY <2>3 DEF KeyFile
  <2>5. Own(p)'
    BY <1>1, <1>2, <1>3, <1>4, <2>1, <2>2, <2>3 DEF Own
  <2>6. step[p] = "paired"
    BY <1>4 DEF OpenKey, Opened
  <2>7. KeyMatchesDevice'
    BY <1>0, <1>2, <2>2, <2>4, <2>6 DEF Solo, KeyMatchesDevice
  <2> QED
    BY <1>0, <1>2, <2>5, <2>7, ActorKeeps
<1>5. CASE WriteKey(p)
  <2>1. /\ step[p] = "opened" /\ data' = [data EXCEPT ![fd[p]] = p]
        /\ UNCHANGED <<cfg, names, loaded, fd, broken>>
    BY <1>5 DEF WriteKey, mine, ghosts
  <2>2. fd[p] = names.tmp /\ fd[p] \in Inode /\ fd[p] # names.path
    BY <1>3, <2>1 DEF Own, Typed, FilesOK, Apart, Inode
  <2>3. data'[names.tmp] = p /\ (names.path # 0 => data'[names.path] = data[names.path])
    BY <2>1, <2>2 DEF Typed, FilesOK
  <2>4. KeyFile' = KeyFile
    BY <2>1, <2>3 DEF KeyFile
  <2>5. Own(p)'
    BY <1>1, <1>2, <1>3, <1>5, <2>1, <2>2, <2>3 DEF Own
  <2>6. KeyMatchesDevice'
    BY <1>0, <1>2, <2>1, <2>4 DEF Solo, KeyMatchesDevice
  <2> QED
    BY <1>0, <1>2, <2>5, <2>6, ActorKeeps
<1>6. CASE RenameKey(p)
  <2>1. /\ step[p] = "written" /\ names.tmp # 0 /\ data[names.tmp] = p
        /\ names' = [path |-> names.tmp, tmp |-> 0]
        /\ UNCHANGED <<cfg, data, loaded, fd, broken>>
    BY <1>3, <1>6 DEF RenameKey, Own, mine, ghosts
  <2>2. KeyFile' = p
    BY <2>1 DEF KeyFile
  <2>3. s = "keyed"
    BY <1>1, <1>6, <2>1
  <2>4. Own(p)' /\ KeyMatchesDevice'
    BY <1>2, <1>3, <2>1, <2>2, <2>3 DEF Own, KeyMatchesDevice
  <2> QED
    BY <1>0, <1>2, <2>4, ActorKeeps
<1>7. CASE SaveConfig(p)
  <2>1. /\ step[p] = "keyed" /\ cfg' = p /\ UNCHANGED <<names, data>>
        /\ loaded'[p] = p
    BY <1>7 DEF SaveConfig, Typed, RunOK
  <2>2. KeyFile' = p
    BY <1>3, <2>1 DEF KeyFile, Own
  <2>3. s \in {"done", "picking"}
    BY <1>1, <1>7
  <2>4. Own(p)' /\ KeyMatchesDevice'
    BY <1>2, <2>1, <2>2, <2>3 DEF Own, KeyMatchesDevice
  <2> QED
    BY <1>0, <1>2, <2>4, ActorKeeps
<1> QED
  BY <1>4, <1>5, <1>6, <1>7

LEMMA NextSolo == Typed /\ Solo /\ [Next]_vars => Solo'
<1> SUFFICES ASSUME Typed, Solo, [Next]_vars PROVE Solo'
  OBVIOUS
<1>1. CASE UNCHANGED <<step, loaded, fd, cfg, names, data, overlapped, broken>>
  BY <1>1 DEF Solo, Own, KeyMatchesDevice, KeyFile, Active
<1>2. ASSUME NEW p \in Run, RunStep(p) PROVE Solo'
  <2>1. CASE (\E force \in BOOLEAN : login(p, force)) \/ up(p)
    <3>1. Begin(p) /\ UNCHANGED <<files, fd, broken>>
      BY <2>1 DEF login, up
    <3>2. PICK s \in {"failed", "asking", "loaded"} : Go(p, s)
      BY <2>1 DEF login, up
    <3> QED
      BY <3>1, <3>2, BeginSolo
  <2>2. CASE overlapped /\ UNCHANGED overlapped
    BY <2>2 DEF Solo, KeyMatchesDevice
  <2>3. ASSUME ~overlapped, OpenKey(p) \/ WriteKey(p) \/ RenameKey(p) \/ SaveConfig(p)
        PROVE  Solo'
    BY <2>3, PersistSolo
  <2>4. ASSUME ~overlapped, NEW s \in Step, Go(p, s), s \notin {"opened", "written", "keyed"},
               step[p] \in Before \cup Asking \cup {"paired", "picking"},
               step[p] # "new",
               UNCHANGED <<cfg, names, data, loaded, broken, overlapped>>
        PROVE  Solo'
    BY <2>4, FilesKept DEF Active, Ended, Before, Asking
  <2>5. CASE Stop(p) /\ ~overlapped
    BY <2>5, FilesKept DEF Stop, files, mine, Step, Ended
  <2>6. CASE Attach(p) /\ ~overlapped
    <3>1. Active(p) /\ UNCHANGED <<step, names, data, loaded, fd, overlapped, broken>>
          /\ cfg' = loaded[p]
      BY <2>6 DEF Attach, Active, Ended, mine, ghosts
    <3>2. cfg' = cfg
      BY <2>6, <3>1 DEF Solo, Own
    <3> QED
      BY <1>1, <3>1, <3>2
  <2>7. ASSUME ~overlapped,
               (\E force \in BOOLEAN : up_steps(p, force)) \/ Finish(p) \/ pair(p) \/ start(p)
               \/ Poll(p) \/ Answer(p) \/ Misdirected(p)
        PROVE  Solo'
    <3>1. /\ UNCHANGED <<cfg, names, data, loaded, broken, overlapped>>
          /\ step[p] \in (Before \ {"new"}) \cup Asking \cup {"paired", "picking"}
      BY <2>7 DEF up_steps, Finish, pair, start, Poll, Answer, Approved, Pending, SlowDown, Lost,
         Refused, Misdirected, files, mine, ghosts, Before, Asking
    <3>2. \E s \in {"failed", "picking", "starting", "done", "paired", "sleeping", "polling"} :
              Go(p, s)
      BY <2>7 DEF up_steps, Finish, pair, start, Poll, Answer, Approved, Pending, SlowDown, Lost,
         Refused, Misdirected, Sleep
    <3> QED
      BY <2>4, <2>7, <3>1, <3>2 DEF Step, Ended, Before, Asking
  <2>8. CASE OwnerApproves(p) \/ Tick(p)
    BY <1>1, <2>8 DEF OwnerApproves, Tick, files, mine, ghosts
  <2>9. (\E force \in BOOLEAN : login(p, force)) \/ up(p) \/ UNCHANGED overlapped
    BY <1>2 DEF RunStep, up_steps, Attach, Finish, pair, start, Answer, Approved, Pending,
       SlowDown, Lost, Refused, OwnerApproves, Tick, Persist, Misdirected, OpenKey, Opened,
       WriteKey, RenameKey, SaveConfig, Stop, Poll, ghosts
  <2> QED
    BY <1>2, <2>1, <2>2, <2>3, <2>5, <2>6, <2>7, <2>8, <2>9 DEF RunStep, Persist
<1> QED
  BY <1>1, <1>2 DEF Next, ApprovalsOn, vars, files, mine, ghosts

\* A config never stands beside another device's key or beside none, wherever a run
\* was killed, as long as runs do not overlap and no re-pair ended between the two
\* files (main.rs, persist: the key first).
THEOREM KeyAlwaysMatchesDevice == Spec => []KeyMatchesDevice
<1>1. Init => Solo
  BY Numbers DEF Init, Solo, KeyMatchesDevice, KeyFile, Active, Ended, Inode
<1>2. Solo => KeyMatchesDevice
  BY DEF Solo
<1> QED
  BY <1>1, <1>2, NextSolo, AlwaysTyped, PTL DEF Spec
=============================================================================
