------------------------- MODULE DisseminationProofs -------------------------
(***************************************************************************)
(* The dissemination of commands, proved for every set of motes, every     *)
(* topology, every queue capacity and every number of lines and reboots.   *)
(***************************************************************************)
EXTENDS DisseminationProperties, HandlerProofs, SequenceTheorems

----------------------------------------------------------------------------
(* Sequences of line numbers.                                              *)

LEMMA SeqWiden ==
    ASSUME NEW m \in Nat, NEW n \in Nat, m <= n, NEW q \in Seq(1..m)
    PROVE  q \in Seq(1..n)
BY SeqDef

LEMMA TailIds ==
    ASSUME NEW n \in Nat, NEW q \in Seq(1..n), q # <<>>
    PROVE  /\ Head(q) \in 1..n
           /\ Tail(q) \in Seq(1..n)
           /\ Len(Tail(q)) = Len(q) - 1
OBVIOUS

LEMMA EnqueueIds ==
    ASSUME NEW n \in Nat, NEW q \in Seq(1..n), Len(q) <= OutCap, NEW i \in 1..n
    PROVE  /\ Enqueue(q, i) \in Seq(1..n)
           /\ Len(Enqueue(q, i)) <= OutCap
<1>1. OutCap \in Nat
    BY DisseminationAssumption
<1>2. CASE Len(q) < OutCap
    BY <1>1, <1>2 DEF Enqueue
<1>3. CASE ~ (Len(q) < OutCap)
    BY <1>3 DEF Enqueue
<1> QED
    BY <1>2, <1>3

LEMMA LineOf ==
    ASSUME TypeOK, NEW i \in Id
    PROVE  log[i] \in Line
BY DEF TypeOK, Id

LEMMA CountType ==
    ASSUME NEW r \in [1..MaxLines -> 0..(MaxRepeat + 1)], NEW i \in 1..MaxLines
    PROVE  Count(r, i) \in [1..MaxLines -> 0..(MaxRepeat + 1)]
BY HandlersAssumption DEF Count

----------------------------------------------------------------------------
(* Type correctness.                                                       *)

LEMMA InitType == Init => TypeOK
<1> SUFFICES ASSUME Init PROVE TypeOK
    OBVIOUS
<1>1. scvn \in 1..CvnMax
    BY HandlersAssumption DEF Init
<1>2. log \in Seq(Line) /\ Len(log) = 0 /\ Len(log) <= MaxLines
    BY DisseminationAssumption DEF Init
<1>3. serial \in [Sink -> Seq(Id)] /\ outq \in [Node -> Seq(Id)]
    BY DEF Init
<1>4. \A n \in Node : Len(outq[n]) <= OutCap
    BY DisseminationAssumption DEF Init
<1>5. sink \in [Sink -> Sinks] /\ mote \in [Sender -> Senders]
    BY BootType DEF Init
<1>6. done \in [Sender -> 0..Len(log)]
    BY <1>2 DEF Init
<1>7. repeats \in [Sender -> [1..MaxLines -> 0..(MaxRepeat + 1)]]
    BY HandlersAssumption DEF Init, NoRepeats
<1>8. reboots \in 0..MaxReboots
    BY DisseminationAssumption DEF Init
<1> QED
    BY <1>1, <1>2, <1>3, <1>4, <1>5, <1>6, <1>7, <1>8 DEF TypeOK

(* A longer log keeps the types of what refers to it.                      *)
LEMMA GrowType ==
    ASSUME TypeOK, log' \in Seq(Line), Len(log) <= Len(log'), Len(log') <= MaxLines,
           serial' \in [Sink -> Seq(Id')], scvn' \in 1..CvnMax,
           UNCHANGED <<sink, mote, outq, done, repeats, reboots>>
    PROVE  TypeOK'
<1>1. Len(log) \in Nat /\ Len(log') \in Nat
    BY DEF TypeOK
<1>2. outq' \in [Node -> Seq(Id')]
    BY <1>1, SeqWiden DEF TypeOK, Id
<1>3. done' \in [Sender -> 0..Len(log')]
    BY <1>1 DEF TypeOK
<1> QED
    BY <1>2, <1>3 DEF TypeOK

LEMMA WriteType ==
    ASSUME TypeOK, NEW l \in Line, Write(l), scvn' \in 1..CvnMax
    PROVE  TypeOK'
<1>1. /\ log' \in Seq(Line)
      /\ Len(log') = Len(log) + 1
      /\ Len(log') <= MaxLines
      /\ Len(log) \in Nat
    BY DEF TypeOK, Write
<1>2. serial' \in [Sink -> Seq(Id')]
    <2> SUFFICES ASSUME NEW k \in Sink
                 PROVE  Append(serial[k], Len(log) + 1) \in Seq(Id')
        BY DEF Write
    <2>1. serial[k] \in Seq(1..(Len(log) + 1))
        BY <1>1, SeqWiden DEF TypeOK, Id
    <2> QED
        BY <1>1, <2>1 DEF Id
<1> QED
    BY <1>1, <1>2, GrowType DEF Write

LEMMA WriteTwoType ==
    ASSUME TypeOK, NEW l \in Line, NEW m \in Line, WriteTwo(l, m), scvn' \in 1..CvnMax
    PROVE  TypeOK'
<1>1. /\ log' \in Seq(Line)
      /\ Len(log') = Len(log) + 2
      /\ Len(log') <= MaxLines
      /\ Len(log) \in Nat
    BY DEF TypeOK, WriteTwo
<1>2. serial' \in [Sink -> Seq(Id')]
    <2> SUFFICES ASSUME NEW k \in Sink
                 PROVE  Append(Append(serial[k], Len(log) + 1), Len(log) + 2) \in Seq(Id')
        BY DEF WriteTwo
    <2>1. serial[k] \in Seq(1..(Len(log) + 2))
        BY <1>1, SeqWiden DEF TypeOK, Id
    <2> QED
        BY <1>1, <2>1 DEF Id
<1> QED
    BY <1>1, <1>2, GrowType DEF WriteTwo

LEMMA ServerLines ==
    /\ ResetLine \in Line
    /\ SinkInfoLine \in Line
    /\ \A o \in Orders : \A v \in 1..CvnMax : Stamp(v, o) \in Line
<1>1. /\ [kind |-> "RESET_CVN", arg |-> NoArg] \in Order
      /\ [kind |-> "SINK_ID_DVN", arg |-> NoArg] \in Order
    BY DEF Order, Local
<1>2. 1 \in 0..CvnMax /\ CvnMax \in 0..CvnMax
    BY HandlersAssumption
<1>3. Orders \subseteq Order
    BY DisseminationAssumption
<1> QED
    BY <1>1, <1>2, <1>3, StampType, HandlersAssumption DEF ResetLine, SinkInfoLine

LEMMA TransmitType ==
    ASSUME TypeOK, NEW n \in Node, NEW R \in SUBSET Hearers(n), Transmit(n, R)
    PROVE  TypeOK'
<1> DEFINE i == Head(outq[n])
           Forwards(s) == s \in R /\ SenderForwards(mote[s], log[i])
<1>1. /\ outq[n] \in Seq(Id) /\ outq[n] # <<>>
      /\ Len(log) \in Nat
    BY DEF TypeOK, Transmit
<1>2. i \in Id /\ Tail(outq[n]) \in Seq(Id) /\ Len(Tail(outq[n])) = Len(outq[n]) - 1
    BY <1>1, TailIds DEF Id
<1>3. log[i] \in Line
    BY <1>2, LineOf
<1>4. mote' \in [Sender -> Senders]
    BY <1>3, SenderAfterType DEF Transmit, TypeOK
<1>5. /\ outq' \in [Node -> Seq(Id)]
      /\ \A x \in Node : Len(outq'[x]) <= OutCap
    <2>1. outq' = [x \in Node |->
                     IF x = n THEN Tail(outq[n])
                     ELSE IF x \in Sender /\ Forwards(x) THEN Enqueue(outq[x], i)
                     ELSE outq[x]]
        BY DEF Transmit
    <2>2. ASSUME NEW x \in Node
          PROVE  outq'[x] \in Seq(Id) /\ Len(outq'[x]) <= OutCap
        <3>1. outq[x] \in Seq(Id) /\ Len(outq[x]) <= OutCap
            BY DEF TypeOK
        <3>2. Enqueue(outq[x], i) \in Seq(Id) /\ Len(Enqueue(outq[x], i)) <= OutCap
            BY <1>1, <1>2, <3>1, EnqueueIds DEF Id
        <3>3. Len(Tail(outq[n])) <= OutCap
            BY <1>1, <1>2, DisseminationAssumption DEF TypeOK
        <3> HIDE DEF i, Forwards
        <3> QED
            BY <1>2, <2>1, <3>1, <3>2, <3>3
    <2> HIDE DEF i, Forwards
    <2> QED
        BY <2>1, <2>2
<1>6. done' \in [Sender -> 0..Len(log)]
    BY <1>2 DEF Transmit, TypeOK, Id
<1>7. repeats' \in [Sender -> [1..MaxLines -> 0..(MaxRepeat + 1)]]
    <2>1. i \in 1..MaxLines
        BY <1>1, <1>2, DisseminationAssumption DEF TypeOK, Id
    <2> QED
        BY <2>1, CountType DEF Transmit, TypeOK
<1> QED
    BY <1>4, <1>5, <1>6, <1>7 DEF Transmit, TypeOK, Id

LEMMA LoseLineType ==
    ASSUME TypeOK, NEW k \in Sink, LoseLine(k)
    PROVE  TypeOK'
<1>1. serial[k] \in Seq(Id) /\ serial[k] # <<>> /\ Len(log) \in Nat
    BY DEF TypeOK, LoseLine
<1>2. Tail(serial[k]) \in Seq(Id)
    BY <1>1, TailIds DEF Id
<1> QED
    BY <1>2 DEF TypeOK, LoseLine, Id

LEMMA SerialLineType ==
    ASSUME TypeOK, NEW k \in Sink, SerialLine(k)
    PROVE  TypeOK'
<1> DEFINE i == Head(serial[k])
<1>1. serial[k] \in Seq(Id) /\ serial[k] # <<>> /\ Len(log) \in Nat
    BY DEF TypeOK, SerialLine
<1>2. i \in Id /\ Tail(serial[k]) \in Seq(Id)
    BY <1>1, TailIds DEF Id
<1>3. serial' \in [Sink -> Seq(Id)]
    BY <1>2 DEF SerialLine, TypeOK
<1>4. sink' \in [Sink -> Sinks]
    BY <1>2, LineOf, SinkAfterType DEF SerialLine, TypeOK
<1>5. /\ outq' \in [Node -> Seq(Id)]
      /\ \A n \in Node : Len(outq'[n]) <= OutCap
    <2>1. k \in Node
        BY DEF Node
    <2>2. Enqueue(outq[k], i) \in Seq(Id) /\ Len(Enqueue(outq[k], i)) <= OutCap
        BY <1>1, <1>2, <2>1, EnqueueIds DEF TypeOK, Id
    <2>3. outq' = [outq EXCEPT ![k] = Enqueue(@, i)] \/ outq' = outq
        BY DEF SerialLine
    <2> HIDE DEF i
    <2> QED
        BY <2>1, <2>2, <2>3 DEF TypeOK
<1> QED
    BY <1>3, <1>4, <1>5 DEF SerialLine, TypeOK, Id

LEMMA RebootType ==
    ASSUME TypeOK,
           \/ \E k \in Sink : RebootSink(k)
           \/ \E s \in Sender : RebootSender(s)
    PROVE  TypeOK'
<1>1. reboots' \in 0..MaxReboots
    BY DisseminationAssumption DEF TypeOK, RebootSink, RebootSender
<1>2. <<>> \in Seq(Id) /\ Len(<<>>) <= OutCap /\ 0 \in 0..Len(log)
    BY DisseminationAssumption DEF TypeOK
<1>3. ASSUME NEW k \in Sink, RebootSink(k)
      PROVE  TypeOK'
    BY <1>1, <1>2, <1>3, BootType DEF TypeOK, RebootSink, Id
<1>4. ASSUME NEW s \in Sender, RebootSender(s)
      PROVE  TypeOK'
    <2>1. NoRepeats \in [1..MaxLines -> 0..(MaxRepeat + 1)]
        BY HandlersAssumption DEF NoRepeats
    <2> QED
        BY <1>1, <1>2, <1>4, <2>1, BootType DEF TypeOK, RebootSender, Id
<1> QED
    BY <1>3, <1>4

LEMMA NextType == TypeOK /\ [Next]_vars => TypeOK'
<1> SUFFICES ASSUME TypeOK, [Next]_vars PROVE TypeOK'
    OBVIOUS
<1>1. ASSUME NEW o \in Orders, SendCommand(o) PROVE TypeOK'
    <2>1. scvn \in 1..CvnMax
        BY DEF TypeOK
    <2>2. Stamp(scvn, o) \in Line
        BY <2>1, ServerLines
    <2>3. scvn' \in 1..CvnMax
        BY <1>1, <2>1, HandlersAssumption DEF SendCommand
    <2> QED
        BY <1>1, <2>2, <2>3, WriteType DEF SendCommand
<1>2. ASSUME NEW o \in Orders, Rollover(o) PROVE TypeOK'
    <2>1. 1 \in 1..CvnMax /\ 2 \in 1..CvnMax
        BY HandlersAssumption
    <2>2. Stamp(1, o) \in Line
        BY <2>1, ServerLines
    <2> QED
        BY <1>2, <2>1, <2>2, ServerLines, WriteTwoType DEF Rollover
<1>3. ASSUME GatewayConnect PROVE TypeOK'
    <2>1. scvn' \in 1..CvnMax
        BY <1>3, HandlersAssumption DEF GatewayConnect
    <2> QED
        BY <1>3, <2>1, ServerLines, WriteTwoType DEF GatewayConnect
<1>4. CASE UNCHANGED vars
    BY <1>4 DEF vars, TypeOK, Id
<1> QED
    BY <1>1, <1>2, <1>3, <1>4, LoseLineType, SerialLineType, TransmitType, RebootType
    DEF Next, Operate, Receive, Renumber

(* Every behaviour of the command path is type correct.                    *)
THEOREM TypeCorrect == Spec => []TypeOK
BY InitType, NextType, PTL DEF Spec

LEMMA EpochIsNext == [EpochNext]_vars => [Next]_vars
BY DEF EpochNext, Next

----------------------------------------------------------------------------
(* Between two resets.                                                     *)

(* The versions of the lines grow and stay below the server's next one; a  *)
(* sender's version is that of the line it ran last.                       *)
Numbered ==
    /\ \A i \in Id : log[i].kind # "RESET_CVN" /\ log[i].cvn \in 1..CvnMax
    /\ \A i \in Id : log[i].cvn < scvn
    /\ \A i, j \in Id : i < j => log[i].cvn < log[j].cvn

Current ==
    \A s \in Sender : mote[s].ccvn = IF done[s] = 0 THEN 0 ELSE log[done[s]].cvn

EpochInv == TypeOK /\ Numbered /\ Current

(* A sender accepts a line exactly if it ran no later one.                 *)
LEMMA EpochAccepts ==
    ASSUME EpochInv, NEW s \in Sender, NEW i \in Id, SenderAccepts(mote[s], log[i])
    PROVE  /\ done[s] <= i
           /\ SenderAfter(mote[s], log[i]).ccvn = log[i].cvn
           /\ SenderAfter(mote[s], log[i]).set = Effect(mote[s].set, log[i])
<1>1. /\ log[i].cvn \in 0..CvnMax
      /\ log[i].kind # "RESET_CVN"
      /\ Len(log) \in Nat
      /\ done[s] \in 0..Len(log)
    BY HandlersAssumption DEF EpochInv, TypeOK, Numbered
<1>2. U16(log[i].cvn) = log[i].cvn
    BY <1>1, U16Id
<1>3. mote[s].ccvn <= log[i].cvn
    BY <1>2 DEF SenderAccepts
<1>4. done[s] <= i
    <2>1. CASE done[s] = 0
        BY <2>1 DEF Id
    <2>2. CASE done[s] # 0
        <3>1. done[s] \in Id /\ mote[s].ccvn = log[done[s]].cvn
            BY <1>1, <2>2 DEF EpochInv, Current, Id
        <3>2. i < done[s] => log[i].cvn < log[done[s]].cvn
            BY <3>1 DEF EpochInv, Numbered
        <3>3. log[done[s]].cvn \in Int
            BY <3>1 DEF EpochInv, Numbered
        <3> QED
            BY <1>1, <1>3, <3>1, <3>2, <3>3 DEF Id
    <2> QED
        BY <2>1, <2>2
<1>5. SenderAfter(mote[s], log[i]).ccvn = log[i].cvn
    BY <1>1, <1>2 DEF SenderAfter
<1>6. SenderAfter(mote[s], log[i]).set = Effect(mote[s].set, log[i])
    BY DEF SenderAfter
<1> QED
    BY <1>4, <1>5, <1>6

LEMMA EpochSend ==
    ASSUME EpochInv, NEW o \in Orders, SendCommand(o)
    PROVE  Numbered' /\ Current'
<1> DEFINE l == Stamp(scvn, o)
           n == Len(log) + 1
<1>1. /\ Len(log) \in Nat
      /\ scvn \in 1..CvnMax
      /\ scvn < CvnMax
      /\ scvn' = scvn + 1
    BY DEF EpochInv, TypeOK, SendCommand
<1>2. log' = Append(log, l) /\ UNCHANGED <<mote, done>>
    BY DEF SendCommand, Write
<1>3. l.cvn = scvn /\ l.kind # "RESET_CVN"
    BY DisseminationAssumption DEF Stamp
<1>4. log \in Seq(Line) /\ l \in Line
    BY <1>1, ServerLines DEF EpochInv, TypeOK
<1> HIDE DEF l
<1>5. Id' = Id \cup {n} /\ Id = 1..Len(log)
    BY <1>1, <1>2, <1>4 DEF Id
<1>6. log'[n] = l /\ \A i \in Id : log'[i] = log[i]
    BY <1>1, <1>2, <1>4 DEF Id
<1> HIDE DEF n
<1>7. ASSUME NEW i \in Id'
      PROVE  /\ log'[i].kind # "RESET_CVN"
             /\ log'[i].cvn \in 1..CvnMax
             /\ log'[i].cvn < scvn'
    <2>1. CASE i = n
        BY <1>1, <1>3, <1>6, <2>1
    <2>2. CASE i \in Id
        <3>1. log'[i] = log[i]
            BY <1>6, <2>2
        <3>2. /\ log[i].kind # "RESET_CVN"
              /\ log[i].cvn \in 1..CvnMax
              /\ log[i].cvn < scvn
            BY <2>2 DEF EpochInv, Numbered
        <3> QED
            BY <1>1, <3>1, <3>2
    <2> QED
        BY <1>5, <2>1, <2>2
<1>8. ASSUME NEW i \in Id', NEW j \in Id', i < j
      PROVE  log'[i].cvn < log'[j].cvn
    <2>1. i \in Id
        BY <1>1, <1>5, <1>8 DEF n
    <2>2. CASE j \in Id
        BY <1>6, <1>8, <2>1, <2>2 DEF EpochInv, Numbered
    <2>3. CASE j = n
        BY <1>3, <1>6, <2>1, <2>3 DEF EpochInv, Numbered
    <2> QED
        BY <1>5, <2>2, <2>3
<1>9. Current'
    <2> SUFFICES ASSUME NEW s \in Sender
                 PROVE  mote'[s].ccvn = IF done'[s] = 0 THEN 0 ELSE log'[done'[s]].cvn
        BY DEF Current
    <2>1. done[s] \in 0..Len(log)
        BY DEF EpochInv, TypeOK
    <2> QED
        BY <1>1, <1>2, <1>5, <1>6, <2>1 DEF EpochInv, Current
<1> QED
    BY <1>7, <1>8, <1>9 DEF Numbered

LEMMA TransmitId ==
    ASSUME TypeOK, NEW n \in Node, NEW R \in SUBSET Hearers(n), Transmit(n, R)
    PROVE  Head(outq[n]) \in Id
<1>1. outq[n] \in Seq(Id) /\ outq[n] # <<>> /\ Len(log) \in Nat
    BY DEF TypeOK, Transmit
<1> QED
    BY <1>1, TailIds DEF Id

LEMMA EpochTransmit ==
    ASSUME EpochInv, NEW n \in Node, NEW R \in SUBSET Hearers(n), Transmit(n, R)
    PROVE  Numbered' /\ Current'
<1> DEFINE i == Head(outq[n])
<1>1. i \in Id
    BY TransmitId DEF EpochInv
<1>2. UNCHANGED <<log, scvn>>
    BY DEF Transmit
<1>3. ASSUME NEW s \in Sender
      PROVE  mote'[s].ccvn = IF done'[s] = 0 THEN 0 ELSE log[done'[s]].cvn
    <2>1. CASE s \in R /\ SenderAccepts(mote[s], log[i])
        <3>1. mote'[s] = SenderAfter(mote[s], log[i]) /\ done'[s] = i
            BY <2>1 DEF Transmit
        <3> QED
            BY <1>1, <2>1, <3>1, EpochAccepts DEF Id
    <2>2. CASE ~ (s \in R /\ SenderAccepts(mote[s], log[i]))
        <3>1. done'[s] = done[s]
            BY <2>2 DEF Transmit
        <3>2. mote'[s] = mote[s]
            BY <2>2 DEF Transmit, SenderAfter
        <3> QED
            BY <3>1, <3>2 DEF EpochInv, Current
    <2> QED
        BY <2>1, <2>2
<1> QED
    BY <1>2, <1>3 DEF EpochInv, Numbered, Current, Id

LEMMA EpochReboot ==
    ASSUME EpochInv, NEW s \in Sender, RebootSender(s)
    PROVE  Numbered' /\ Current'
<1>1. UNCHANGED <<log, scvn>>
    BY DEF RebootSender
<1>2. SenderBoot.ccvn = 0
    BY DEF SenderBoot
<1>3. Current'
    BY <1>1, <1>2 DEF EpochInv, Current, RebootSender, TypeOK
<1> QED
    BY <1>1, <1>3 DEF EpochInv, Numbered, Id

LEMMA EpochStart == Init => EpochInv
<1> SUFFICES ASSUME Init PROVE Numbered /\ Current
    BY InitType DEF EpochInv
<1>1. Id = {}
    BY DEF Init, Id
<1>2. Current
    BY DEF Current, Init, SenderBoot
<1> QED
    BY <1>1, <1>2 DEF Numbered

LEMMA EpochStep == EpochInv /\ [EpochNext]_vars => EpochInv'
<1> SUFFICES ASSUME EpochInv, [EpochNext]_vars PROVE EpochInv'
    OBVIOUS
<1>1. TypeOK'
    BY EpochIsNext, NextType DEF EpochInv
<1>2. ASSUME UNCHANGED <<log, scvn, mote, done>> PROVE Numbered' /\ Current'
    BY <1>2 DEF EpochInv, Numbered, Current, Id
<1>3. ASSUME NEW k \in Sink, LoseLine(k) \/ SerialLine(k) \/ RebootSink(k)
      PROVE  UNCHANGED <<log, scvn, mote, done>>
    BY <1>3 DEF LoseLine, SerialLine, RebootSink
<1>4. UNCHANGED vars => UNCHANGED <<log, scvn, mote, done>>
    BY DEF vars
<1>5. ASSUME NEW o \in Orders, SendCommand(o) PROVE Numbered' /\ Current'
    BY <1>5, EpochSend
<1>6. ASSUME NEW n \in Node, NEW R \in SUBSET Hearers(n), Transmit(n, R)
      PROVE  Numbered' /\ Current'
    BY <1>6, EpochTransmit
<1>7. ASSUME NEW s \in Sender, RebootSender(s) PROVE Numbered' /\ Current'
    BY <1>7, EpochReboot
<1>8. \/ \E o \in Orders : SendCommand(o)
      \/ \E n \in Node : \E R \in SUBSET Hearers(n) : Transmit(n, R)
      \/ \E s \in Sender : RebootSender(s)
      \/ \E k \in Sink : LoseLine(k) \/ SerialLine(k) \/ RebootSink(k)
      \/ UNCHANGED vars
    BY DEF EpochNext, Operate, Receive
<1>9. Numbered' /\ Current'
    BY <1>2, <1>3, <1>4, <1>5, <1>6, <1>7, <1>8
<1> QED
    BY <1>1, <1>9 DEF EpochInv

(* The invariant of a behaviour without resets.                            *)
THEOREM EpochInvariant == EpochSpec => []EpochInv
BY EpochStart, EpochStep, PTL DEF EpochSpec

(* Between two resets no sender runs a line again once it ran a later one. *)
THEOREM EpochInOrder == EpochSpec => InOrder
<1> DEFINE Forward == \A s \in Sender : done'[s] >= done[s] \/ done'[s] = 0
<1>1. ASSUME EpochInv, [EpochNext]_vars PROVE [Forward]_vars
    <2>1. ASSUME NEW s \in Sender PROVE done[s] \in Nat
        BY <1>1 DEF EpochInv, TypeOK
    <2>2. ASSUME NEW n \in Node, NEW R \in SUBSET Hearers(n), Transmit(n, R)
          PROVE  Forward
        <3> SUFFICES ASSUME NEW s \in Sender
                     PROVE  done'[s] >= done[s]
            OBVIOUS
        <3>1. Head(outq[n]) \in Id
            BY <1>1, <2>2, TransmitId DEF EpochInv
        <3>2. CASE s \in R /\ SenderAccepts(mote[s], log[Head(outq[n])])
            <4>1. done'[s] = Head(outq[n])
                BY <2>2, <3>2 DEF Transmit
            <4>2. done[s] <= Head(outq[n])
                BY <1>1, <3>1, <3>2, EpochAccepts
            <4> QED
                BY <2>1, <3>1, <4>1, <4>2 DEF Id
        <3>3. CASE ~ (s \in R /\ SenderAccepts(mote[s], log[Head(outq[n])]))
            BY <2>1, <2>2, <3>3 DEF Transmit
        <3> QED
            BY <3>2, <3>3
    <2>3. ASSUME NEW s \in Sender, RebootSender(s)
          PROVE  Forward
        BY <1>1, <2>1, <2>3 DEF RebootSender, EpochInv, TypeOK
    <2>4. ASSUME UNCHANGED done
          PROVE  Forward
        BY <2>1, <2>4
    <2>5. \/ UNCHANGED done
          \/ \E n \in Node : \E R \in SUBSET Hearers(n) : Transmit(n, R)
          \/ \E s \in Sender : RebootSender(s)
        BY <1>1 DEF EpochNext, Operate, Receive, SendCommand, Write, LoseLine,
                    SerialLine, RebootSink, vars
    <2> QED
        BY <2>2, <2>3, <2>4, <2>5
<1> QED
    BY <1>1, EpochInvariant, PTL DEF EpochSpec, InOrder

----------------------------------------------------------------------------
(* The command log.                                                        *)

Position == [s \in Sender |-> mote[s].set]

LEMMA SameEffect ==
    ASSUME NEW set, NEW l
    PROVE  Log!Effect(set, l) = Effect(set, l)
BY DEF Log!Effect, Effect, Log!Named, Named

LEMMA SameLine == Log!Line = Line
BY DEF Log!Line, Line, Log!Repeated, Repeated, Log!Local, Local, Log!ModuleName,
       ModuleName, Log!Order, Order

LEMMA LogStart == Init => Log!Init
BY DEF Init, Log!Init, SenderBoot, Log!InitSettings, InitSettings

LEMMA LogIssue ==
    ASSUME TypeOK, NEW o \in Orders, SendCommand(o)
    PROVE  Log!Issue
<1>1. /\ log \in Seq(Line)
      /\ Stamp(scvn, o) \in Line
    BY ServerLines DEF TypeOK
<1>2. log' = Append(log, Stamp(scvn, o)) /\ UNCHANGED <<mote, done>>
    BY DEF SendCommand, Write
<1>3. /\ log' \in Seq(Line)
      /\ Len(log') = Len(log) + 1
      /\ \A i \in 1..Len(log) : log'[i] = log[i]
    BY <1>1, <1>2
<1> QED
    BY <1>2, <1>3, SameLine DEF Log!Issue

LEMMA LogRun ==
    ASSUME TypeOK, NEW n \in Node, NEW R \in SUBSET Hearers(n), Transmit(n, R),
           \A s \in R : SenderAccepts(mote[s], log[Head(outq[n])]) => done[s] <= Head(outq[n])
    PROVE  \E i \in 1..Len(log) : \E A \in SUBSET Sender : Log!Run(i, A)
<1>1. PICK i \in Id : i = Head(outq[n])
    BY TransmitId
<1>2. PICK A \in SUBSET Sender : A = {s \in R : SenderAccepts(mote[s], log[i])}
    BY DEF Hearers
<1>3. \A s \in A : done[s] <= i
    BY <1>1, <1>2
<1>4. done' = [s \in Sender |-> IF s \in A THEN i ELSE done[s]] /\ UNCHANGED log
    BY <1>1, <1>2 DEF Transmit
<1>5. ASSUME NEW s \in Sender
      PROVE  mote'[s].set = IF s \in A THEN Effect(mote[s].set, log[i]) ELSE mote[s].set
    <2>1. mote'[s] = IF s \in R THEN SenderAfter(mote[s], log[i]) ELSE mote[s]
        BY <1>1 DEF Transmit
    <2>2. CASE s \in A
        BY <1>2, <2>1, <2>2 DEF SenderAfter
    <2>3. CASE s \notin A
        BY <1>2, <2>1, <2>3 DEF SenderAfter
    <2> QED
        BY <2>2, <2>3
<1>6. Log!Run(i, A)
    BY <1>3, <1>4, <1>5, SameEffect DEF Log!Run
<1> QED
    BY <1>6 DEF Id

LEMMA LogRestart ==
    ASSUME TypeOK, NEW s \in Sender, RebootSender(s)
    PROVE  Log!Restart(s)
BY DEF TypeOK, RebootSender, Log!Restart, SenderBoot, Log!InitSettings, InitSettings

(* Between two resets the command path implements the command log.         *)
THEOREM EpochImplementsLog == EpochSpec => ImplementsLog
<1>1. ASSUME EpochInv, [EpochNext]_vars
      PROVE  [Log!Next]_<<log, done, Position>>
    <2>1. ASSUME NEW o \in Orders, SendCommand(o) PROVE Log!Next
        BY <1>1, <2>1, LogIssue DEF Log!Next, EpochInv
    <2>2. ASSUME NEW n \in Node, NEW R \in SUBSET Hearers(n), Transmit(n, R)
          PROVE  Log!Next
        <3>1. \A s \in R : SenderAccepts(mote[s], log[Head(outq[n])]) => done[s] <= Head(outq[n])
            BY <1>1, <2>2, TransmitId, EpochAccepts DEF EpochInv, Hearers
        <3> QED
            BY <1>1, <2>2, <3>1, LogRun DEF Log!Next, EpochInv
    <2>3. ASSUME NEW s \in Sender, RebootSender(s) PROVE Log!Next
        BY <1>1, <2>3, LogRestart DEF Log!Next, EpochInv
    <2>4. \/ UNCHANGED <<log, done, mote>>
          \/ \E o \in Orders : SendCommand(o)
          \/ \E n \in Node : \E R \in SUBSET Hearers(n) : Transmit(n, R)
          \/ \E s \in Sender : RebootSender(s)
        BY <1>1 DEF EpochNext, Operate, Receive, LoseLine, SerialLine, RebootSink, vars
    <2> QED
        BY <2>1, <2>2, <2>3, <2>4 DEF Position
<1> QED
    BY <1>1, EpochInvariant, LogStart, PTL DEF EpochSpec, ImplementsLog, Log!Spec, Position

----------------------------------------------------------------------------
(* Over resets, with one sink and resets apart from other lines.           *)

OneSink == \A k, l \in Sink : k = l

(* No line from i to j of the log L is a reset.                            *)
Plain(L, i, j) == \A m \in i..j : L[m].kind # "RESET_CVN"

(* From one reset to the next the versions grow, and the last ones stay    *)
(* below the server's next one, v.                                         *)
Sorted(L, v) ==
    /\ \A i \in 1..Len(L) : L[i].cvn \in 1..CvnMax
    /\ \A i \in 1..Len(L) : Plain(L, i, Len(L)) => L[i].cvn < v
    /\ \A i, j \in 1..Len(L) : i < j /\ Plain(L, i, j) => L[i].cvn < L[j].cvn

(* A sender's version is that of the line it ran last, 0 after a reset.    *)
Ran ==
    \A s \in Sender :
        mote[s].ccvn = IF done[s] = 0 THEN 0
                       ELSE IF log[done[s]].kind = "RESET_CVN" THEN 0
                       ELSE log[done[s]].cvn

Rising(q) == \A a, b \in 1..Len(q) : a < b => q[a] < q[b]

(* p rises, and holds lines of q and such as are younger than n.           *)
Extends(p, q, n) ==
    /\ Rising(p)
    /\ \A a \in 1..Len(p) :
          \/ p[a] \in Int /\ p[a] > n
          \/ \E b \in 1..Len(q) : p[a] = q[b]

(* What is on the air, and what was run, comes before line x.              *)
Behind(x) == (\A i \in InFlight : i < x) /\ (\A s \in Sender : done[s] < x)

(* The sink has not read what it will read next, in the order it was sent. *)
Unread ==
    \A k \in Sink : Rising(serial[k]) /\ \A a \in 1..Len(serial[k]) : Behind(serial[k][a])

(* No reset lies between two lines on the air, nor between one of them and *)
(* a later line that was run.                                              *)
OneEpoch ==
    /\ \A i, j \in InFlight : i < j => Plain(log, i, j)
    /\ \A i \in InFlight : \A s \in Sender : i < done[s] => Plain(log, i, done[s])

ApartInv == TypeOK /\ Sorted(log, scvn) /\ Ran /\ Unread /\ OneEpoch

LEMMA SortedReset ==
    ASSUME NEW L \in Seq(Line), NEW v, NEW w, Sorted(L, v)
    PROVE  Sorted(Append(L, ResetLine), w)
<1> DEFINE n == Len(L) + 1
           M == Append(L, ResetLine)
<1>1. M[n] = ResetLine /\ Len(M) = n /\ Len(L) \in Nat
    BY ServerLines
<1>2. \A i \in 1..Len(L) : M[i] = L[i]
    BY ServerLines
<1>3. ResetLine.kind = "RESET_CVN" /\ ResetLine.cvn \in 1..CvnMax
    BY HandlersAssumption DEF ResetLine, Stamp
<1> HIDE DEF M
<1>4. \A i \in 1..n : ~ Plain(M, i, n)
    BY <1>1, <1>3 DEF Plain
<1>5. ASSUME NEW i \in 1..Len(L), NEW j \in 1..Len(L), Plain(M, i, j)
      PROVE  Plain(L, i, j)
    <2>1. \A m \in i..j : M[m] = L[m]
        BY <1>1, <1>2
    <2> QED
        BY <1>5, <2>1 DEF Plain
<1>6. \A i \in 1..n : M[i].cvn \in 1..CvnMax
    BY <1>1, <1>2, <1>3 DEF Sorted
<1>7. ASSUME NEW i \in 1..n, NEW j \in 1..n, i < j, Plain(M, i, j)
      PROVE  M[i].cvn < M[j].cvn
    <2>1. i \in 1..Len(L) /\ j \in 1..Len(L)
        BY <1>1, <1>4, <1>7
    <2> QED
        BY <1>2, <1>5, <1>7, <2>1 DEF Sorted
<1> HIDE DEF n
<1>8. Sorted(M, w)
    BY <1>1, <1>4, <1>6, <1>7 DEF Sorted
<1> QED
    BY <1>8 DEF M

LEMMA SortedLine ==
    ASSUME NEW L \in Seq(Line), NEW v \in 1..CvnMax, NEW l \in Line, Sorted(L, v),
           l.kind # "RESET_CVN", l.cvn = v
    PROVE  Sorted(Append(L, l), v + 1)
<1> DEFINE n == Len(L) + 1
           M == Append(L, l)
<1>1. M[n] = l /\ Len(M) = n /\ Len(L) \in Nat
    OBVIOUS
<1>2. \A i \in 1..Len(L) : M[i] = L[i]
    OBVIOUS
<1> HIDE DEF M
<1>3. ASSUME NEW i \in 1..Len(L), NEW j \in 1..n, Plain(M, i, j)
      PROVE  j = n => Plain(L, i, Len(L))
    BY <1>1, <1>2, <1>3 DEF Plain
<1>4. ASSUME NEW i \in 1..Len(L), NEW j \in 1..Len(L), Plain(M, i, j)
      PROVE  Plain(L, i, j)
    <2>1. \A m \in i..j : M[m] = L[m]
        BY <1>1, <1>2
    <2> QED
        BY <1>4, <2>1 DEF Plain
<1>5. \A i \in 1..n : M[i].cvn \in 1..CvnMax
    BY <1>1, <1>2 DEF Sorted
<1>6. ASSUME NEW i \in 1..Len(L), Plain(M, i, n)
      PROVE  M[i].cvn < v
    BY <1>1, <1>2, <1>3, <1>6 DEF Sorted
<1>7. ASSUME NEW i \in 1..n, Plain(M, i, n)
      PROVE  M[i].cvn < v + 1
    <2>1. M[i].cvn \in Int
        BY <1>5
    <2>2. CASE i = n
        BY <1>1, <2>2
    <2>3. CASE i # n
        BY <1>1, <1>6, <1>7, <2>1, <2>3
    <2> QED
        BY <2>2, <2>3
<1>8. ASSUME NEW i \in 1..n, NEW j \in 1..n, i < j, Plain(M, i, j)
      PROVE  M[i].cvn < M[j].cvn
    <2>1. i \in 1..Len(L)
        BY <1>1, <1>8
    <2>2. CASE j = n
        BY <1>1, <1>6, <1>8, <2>1, <2>2
    <2>3. CASE j # n
        BY <1>1, <1>2, <1>4, <1>8, <2>1, <2>3 DEF Sorted
    <2> QED
        BY <2>2, <2>3
<1> HIDE DEF n
<1>9. Sorted(M, v + 1)
    BY <1>1, <1>5, <1>7, <1>8 DEF Sorted
<1> QED
    BY <1>9 DEF M

LEMMA RisingAppend ==
    ASSUME NEW n \in Nat, NEW m \in Nat, n <= m, NEW q \in Seq(1..m),
           NEW r, Extends(q, r, n)
    PROVE  /\ Append(q, m + 1) \in Seq(1..(m + 1))
           /\ Extends(Append(q, m + 1), r, n)
<1> DEFINE p == Append(q, m + 1)
<1>1. q \in Seq(1..(m + 1)) /\ m + 1 \in 1..(m + 1)
    BY SeqWiden
<1>2. p \in Seq(1..(m + 1))
    BY <1>1
<1>3. /\ Len(q) \in Nat /\ Len(p) = Len(q) + 1
      /\ p[Len(q) + 1] = m + 1
      /\ \A a \in 1..Len(q) : p[a] = q[a]
    BY <1>1
<1>4. \A a \in 1..Len(q) : q[a] \in 1..m
    BY SMTT(30)
<1> HIDE DEF p
<1>5. \A a \in 1..Len(p) : a = Len(q) + 1 \/ a \in 1..Len(q)
    BY <1>3
<1>6. ASSUME NEW a \in 1..Len(p), NEW b \in 1..Len(p), a < b
      PROVE  p[a] < p[b]
    <2>1. a \in 1..Len(q)
        BY <1>3, <1>6
    <2>2. p[a] = q[a]
        BY <1>3, <2>1
    <2>3. CASE b = Len(q) + 1
        <3>1. p[a] \in 1..m
            BY <1>4, <2>1, <2>2
        <3> QED
            BY <1>3, <2>3, <3>1
    <2>4. CASE b \in 1..Len(q)
        <3>1. p[b] = q[b]
            BY <1>3, <2>4
        <3> QED
            BY <1>6, <2>1, <2>2, <2>4, <3>1 DEF Extends, Rising
    <2> QED
        BY <1>5, <2>3, <2>4
<1>7. ASSUME NEW a \in 1..Len(p)
      PROVE  (p[a] \in Int /\ p[a] > n) \/ \E b \in 1..Len(r) : p[a] = r[b]
    <2>1. CASE a = Len(q) + 1
        BY <1>3, <2>1
    <2>2. CASE a \in 1..Len(q)
        BY <1>3, <2>2 DEF Extends
    <2> QED
        BY <1>5, <2>1, <2>2
<1>8. Extends(p, r, n)
    BY <1>6, <1>7 DEF Extends, Rising
<1> QED
    BY <1>2, <1>8 DEF p

LEMMA RisingTail ==
    ASSUME NEW n \in Nat, NEW q \in Seq(1..n), q # <<>>, Rising(q)
    PROVE  /\ Rising(Tail(q))
           /\ \A a \in 1..Len(Tail(q)) :
                 /\ Head(q) < Tail(q)[a]
                 /\ \E b \in 1..Len(q) : Tail(q)[a] = q[b]
<1>1. /\ Len(Tail(q)) = Len(q) - 1 /\ Len(q) \in Nat \ {0}
      /\ \A a \in 1..Len(Tail(q)) : Tail(q)[a] = q[a + 1]
      /\ Head(q) = q[1]
    OBVIOUS
<1>2. ASSUME NEW a \in 1..Len(Tail(q))
      PROVE  /\ Tail(q)[a] = q[a + 1]
             /\ a + 1 \in 1..Len(q) /\ 1 \in 1..Len(q) /\ 1 < a + 1
    BY <1>1
<1>3. \A a \in 1..Len(Tail(q)) :
         Head(q) < Tail(q)[a] /\ \E b \in 1..Len(q) : Tail(q)[a] = q[b]
    BY <1>1, <1>2 DEF Rising
<1>4. ASSUME NEW a \in 1..Len(Tail(q)), NEW b \in 1..Len(Tail(q)), a < b
      PROVE  Tail(q)[a] < Tail(q)[b]
    <2>1. a + 1 < b + 1
        BY <1>1, <1>4
    <2> QED
        BY <1>2, <2>1 DEF Rising
<1>5. Rising(Tail(q))
    BY <1>4 DEF Rising
<1> QED
    BY <1>3, <1>5

LEMMA AirIds ==
    ASSUME TypeOK, NEW i \in InFlight
    PROVE  i \in Id
<1>1. PICK n \in Node : \E a \in DOMAIN outq[n] : i = outq[n][a]
    BY DEF InFlight
<1>2. outq[n] \in Seq(Id)
    BY DEF TypeOK
<1> QED
    BY <1>1, <1>2

LEMMA OnAir ==
    ASSUME NEW n \in Node, NEW a \in DOMAIN outq[n]
    PROVE  outq[n][a] \in InFlight
BY DEF InFlight

(* What the server writes comes after everything else.                     *)
LEMMA ApartGrow ==
    ASSUME ApartInv, log' \in Seq(Line), Len(log) <= Len(log'),
           \A i \in 1..Len(log) : log'[i] = log[i],
           UNCHANGED <<mote, outq, done>>,
           \A k \in Sink : Extends(serial'[k], serial[k], Len(log))
    PROVE  Ran' /\ Unread' /\ OneEpoch'
<1>1. InFlight' = InFlight
    BY DEF InFlight
<1>2. /\ Len(log) \in Nat
      /\ \A i \in InFlight : i \in 1..Len(log)
      /\ \A s \in Sender : done[s] \in 0..Len(log)
    BY AirIds DEF ApartInv, TypeOK, Id
<1>3. Ran'
    <2>1. ASSUME NEW s \in Sender, done[s] # 0
          PROVE  log'[done[s]] = log[done[s]]
        BY <1>2, <2>1
    <2> QED
        BY <2>1 DEF ApartInv, Ran
<1>4. Unread'
    <2>1. ASSUME NEW k \in Sink, NEW a \in 1..Len(serial'[k])
          PROVE  /\ \A i \in InFlight : i < serial'[k][a]
                 /\ \A s \in Sender : done[s] < serial'[k][a]
        <3>1. CASE serial'[k][a] \in Int /\ serial'[k][a] > Len(log)
            BY <1>2, <3>1
        <3>2. CASE \E b \in 1..Len(serial[k]) : serial'[k][a] = serial[k][b]
            BY <3>2 DEF ApartInv, Unread, Behind
        <3> QED
            BY <3>1, <3>2 DEF Extends
    <2>2. \A k \in Sink : Rising(serial'[k])
        BY DEF Extends
    <2> QED
        BY <1>1, <2>1, <2>2 DEF Unread, Behind
<1>5. OneEpoch'
    <2>1. ASSUME NEW i \in 1..Len(log), NEW j \in 0..Len(log), Plain(log, i, j)
          PROVE  Plain(log', i, j)
        BY <1>2, <2>1 DEF Plain
    <2> QED
        BY <1>1, <1>2, <2>1 DEF ApartInv, OneEpoch
<1> QED
    BY <1>3, <1>4, <1>5

LEMMA ApartSend ==
    ASSUME ApartInv, NEW o \in Orders, SendCommand(o)
    PROVE  ApartInv'
<1> DEFINE l == Stamp(scvn, o)
<1>1. /\ Len(log) \in Nat /\ log \in Seq(Line)
      /\ scvn \in 1..CvnMax
      /\ scvn' = scvn + 1
      /\ log' = Append(log, l)
      /\ UNCHANGED <<mote, outq, done>>
    BY DEF ApartInv, TypeOK, SendCommand, Write
<1>2. l \in Line /\ l.kind # "RESET_CVN" /\ l.cvn = scvn
    BY <1>1, ServerLines, DisseminationAssumption DEF Stamp
<1>3. TypeOK'
    BY NextType DEF ApartInv, Next, Operate
<1> HIDE DEF l
<1>4. Sorted(log, scvn)'
    BY <1>1, <1>2, SortedLine DEF ApartInv
<1>5. ASSUME NEW k \in Sink
      PROVE  Extends(serial'[k], serial[k], Len(log))
    <2>1. serial[k] \in Seq(1..Len(log)) /\ Extends(serial[k], serial[k], Len(log))
        BY DEF ApartInv, TypeOK, Unread, Id, Extends
    <2>2. serial'[k] = Append(serial[k], Len(log) + 1)
        BY DEF SendCommand, Write
    <2> QED
        BY <1>1, <2>1, <2>2, RisingAppend
<1>6. log' \in Seq(Line) /\ Len(log) <= Len(log') /\ \A i \in 1..Len(log) : log'[i] = log[i]
    BY <1>1, <1>2
<1>7. Ran' /\ Unread' /\ OneEpoch'
    BY <1>1, <1>5, <1>6, ApartGrow
<1> QED
    BY <1>3, <1>4, <1>7 DEF ApartInv

(* A reset and the line that goes with it.                                 *)
LEMMA ApartWriteTwo ==
    ASSUME ApartInv, TypeOK', NEW m \in Line, m.kind # "RESET_CVN", m.cvn = 1,
           WriteTwo(ResetLine, m), scvn' = 2
    PROVE  ApartInv'
<1> DEFINE L == Append(log, ResetLine)
<1>1. /\ Len(log) \in Nat /\ log \in Seq(Line)
      /\ log' = Append(L, m)
      /\ UNCHANGED <<mote, outq, done>>
    BY DEF ApartInv, TypeOK, WriteTwo
<1>2. L \in Seq(Line) /\ Sorted(L, 1)
    BY <1>1, ServerLines, SortedReset DEF ApartInv
<1>3. log' \in Seq(Line) /\ Len(log) <= Len(log') /\ \A i \in 1..Len(log) : log'[i] = log[i]
    BY <1>1, ServerLines
<1> HIDE DEF L
<1>4. Sorted(log, scvn)'
    <2>1. 1 \in 1..CvnMax /\ scvn' = 1 + 1
        BY HandlersAssumption
    <2> QED
        BY <1>1, <1>2, <2>1, SortedLine
<1>5. ASSUME NEW k \in Sink
      PROVE  Extends(serial'[k], serial[k], Len(log))
    <2> DEFINE q == Append(serial[k], Len(log) + 1)
    <2>1. serial[k] \in Seq(1..Len(log)) /\ Extends(serial[k], serial[k], Len(log))
        BY DEF ApartInv, TypeOK, Unread, Id, Extends
    <2>2. q \in Seq(1..(Len(log) + 1)) /\ Extends(q, serial[k], Len(log))
        BY <1>1, <2>1, RisingAppend
    <2>3. serial'[k] = Append(q, (Len(log) + 1) + 1)
        BY <1>1 DEF WriteTwo
    <2>4. Len(log) + 1 \in Nat /\ Len(log) <= Len(log) + 1
        BY <1>1
    <2> HIDE DEF q
    <2> QED
        BY <1>1, <2>2, <2>3, <2>4, RisingAppend
<1>6. Ran' /\ Unread' /\ OneEpoch'
    BY <1>1, <1>3, <1>5, ApartGrow
<1> QED
    BY <1>4, <1>6 DEF ApartInv

(* A sender accepts a line exactly if it ran no later one.                 *)
LEMMA ApartAccepts ==
    ASSUME ApartInv, NEW s \in Sender, NEW i \in InFlight, SenderAccepts(mote[s], log[i])
    PROVE  done[s] <= i
<1>1. /\ Len(log) \in Nat /\ i \in 1..Len(log) /\ done[s] \in 0..Len(log)
      /\ log[i].cvn \in 1..CvnMax
    BY AirIds DEF ApartInv, TypeOK, Sorted, Id
<1>2. mote[s].ccvn <= log[i].cvn
    BY <1>1, U16Id, HandlersAssumption DEF SenderAccepts
<1> SUFFICES ASSUME i < done[s] PROVE FALSE
    BY <1>1
<1>3. Plain(log, i, done[s])
    BY DEF ApartInv, OneEpoch
<1>4. log[done[s]].kind # "RESET_CVN"
    BY <1>1, <1>3 DEF Plain
<1>5. mote[s].ccvn = log[done[s]].cvn
    BY <1>1, <1>4 DEF ApartInv, Ran
<1>6. /\ log[i].cvn < log[done[s]].cvn
      /\ log[done[s]].cvn \in 1..CvnMax
    BY <1>1, <1>3 DEF ApartInv, Sorted
<1> QED
    BY <1>1, <1>2, <1>5, <1>6

(* The queues after a step of a mote hold what they held, bar a new line.  *)
LEMMA AirEnqueue ==
    ASSUME NEW n \in Nat, NEW q \in Seq(1..n), NEW i
    PROVE  \A a \in DOMAIN Enqueue(q, i) :
              Enqueue(q, i)[a] = i \/ \E b \in DOMAIN q : Enqueue(q, i)[a] = q[b]
BY DEF Enqueue

LEMMA AirTail ==
    ASSUME NEW n \in Nat, NEW q \in Seq(1..n), q # <<>>
    PROVE  /\ \A a \in DOMAIN Tail(q) : \E b \in DOMAIN q : Tail(q)[a] = q[b]
           /\ 1 \in DOMAIN q /\ Head(q) = q[1]
<1>1. /\ Len(q) \in Nat \ {0} /\ DOMAIN q = 1..Len(q) /\ Head(q) = q[1]
      /\ DOMAIN Tail(q) = 1..(Len(q) - 1)
      /\ \A a \in 1..(Len(q) - 1) : Tail(q)[a] = q[a + 1]
    OBVIOUS
<1>2. \A a \in 1..(Len(q) - 1) : a + 1 \in 1..Len(q)
    BY <1>1
<1>3. 1 \in 1..Len(q)
    BY <1>1
<1> QED
    BY <1>1, <1>2, <1>3

LEMMA AirTransmit ==
    ASSUME TypeOK, NEW n \in Node, NEW R \in SUBSET Hearers(n), Transmit(n, R)
    PROVE  /\ Head(outq[n]) \in InFlight
           /\ InFlight' \subseteq InFlight
<1> DEFINE i == Head(outq[n])
           Forwards(s) == s \in R /\ SenderForwards(mote[s], log[i])
<1>1. /\ \A x \in Node : outq[x] \in Seq(1..Len(log))
      /\ Len(log) \in Nat
      /\ outq[n] # <<>>
    BY DEF TypeOK, Transmit, Id
<1>2. i \in InFlight
    BY <1>1, AirTail, OnAir
<1>3. outq' = [x \in Node |->
                 IF x = n THEN Tail(outq[n])
                 ELSE IF x \in Sender /\ Forwards(x) THEN Enqueue(outq[x], i)
                 ELSE outq[x]]
    BY DEF Transmit
<1> HIDE DEF i, Forwards
<1>4. ASSUME NEW x \in Node, NEW a \in DOMAIN outq'[x]
      PROVE  outq'[x][a] \in InFlight
    <2>1. CASE outq'[x] = Tail(outq[n])
        BY <1>1, <1>4, <2>1, AirTail, OnAir
    <2>2. CASE outq'[x] = Enqueue(outq[x], i)
        <3>1. outq'[x][a] = i \/ \E b \in DOMAIN outq[x] : outq'[x][a] = outq[x][b]
            BY <1>1, <2>2, AirEnqueue
        <3> QED
            BY <1>2, <3>1, OnAir
    <2>3. CASE outq'[x] = outq[x]
        BY <1>4, <2>3, OnAir
    <2> QED
        BY <1>3, <2>1, <2>2, <2>3
<1>5. InFlight' \subseteq InFlight
    BY <1>4 DEF InFlight
<1> QED
    BY <1>2, <1>5 DEF i

LEMMA ApartTransmit ==
    ASSUME ApartInv, NEW n \in Node, NEW R \in SUBSET Hearers(n), Transmit(n, R)
    PROVE  ApartInv'
<1>1. TypeOK'
    BY NextType DEF ApartInv, Next, Operate
<1>2. PICK i \in InFlight : i = Head(outq[n])
    BY AirTransmit DEF ApartInv
<1>3. /\ UNCHANGED <<log, scvn, serial>>
      /\ InFlight' \subseteq InFlight
      /\ i \in Id /\ log[i].cvn \in 1..CvnMax
    BY AirTransmit, AirIds DEF ApartInv, Transmit, Sorted, Id
<1>4. ASSUME NEW s \in Sender
      PROVE  \/ /\ SenderAccepts(mote[s], log[i])
                /\ mote'[s] = SenderAfter(mote[s], log[i])
                /\ done'[s] = i
             \/ mote'[s] = mote[s] /\ done'[s] = done[s]
    BY <1>2 DEF Transmit, SenderAfter
<1>5. Ran'
    <2> SUFFICES ASSUME NEW s \in Sender
                 PROVE  mote'[s].ccvn = IF done'[s] = 0 THEN 0
                                        ELSE IF log[done'[s]].kind = "RESET_CVN" THEN 0
                                        ELSE log[done'[s]].cvn
        BY <1>3 DEF Ran
    <2>1. CASE /\ SenderAccepts(mote[s], log[i])
               /\ mote'[s] = SenderAfter(mote[s], log[i])
               /\ done'[s] = i
        <3>1. U16(log[i].cvn) = log[i].cvn
            BY <1>3, U16Id, HandlersAssumption
        <3>2. mote'[s].ccvn = IF log[i].kind = "RESET_CVN" THEN 0 ELSE log[i].cvn
            BY <2>1, <3>1 DEF SenderAfter
        <3> QED
            BY <1>3, <2>1, <3>2 DEF Id
    <2>2. CASE mote'[s] = mote[s] /\ done'[s] = done[s]
        BY <2>2 DEF ApartInv, Ran
    <2> QED
        BY <1>4, <2>1, <2>2
<1>6. Unread'
    BY <1>3, <1>4 DEF ApartInv, Unread, Behind
<1>7. OneEpoch'
    BY <1>3, <1>4 DEF ApartInv, OneEpoch
<1> QED
    BY <1>1, <1>3, <1>5, <1>6, <1>7 DEF ApartInv

(* The sink reads, or loses, the next line.                                *)
LEMMA UnreadTail ==
    ASSUME ApartInv, NEW k \in Sink, serial[k] # <<>>,
           serial' = [serial EXCEPT ![k] = Tail(@)]
    PROVE  /\ Head(serial[k]) \in Id
           /\ Behind(Head(serial[k]))
           /\ \A l \in Sink : Rising(serial'[l])
           /\ \A l \in Sink : \A a \in 1..Len(serial'[l]) :
                 /\ Behind(serial'[l][a])
                 /\ l = k => Head(serial[k]) < serial'[l][a]
<1>1. /\ Len(log) \in Nat
      /\ serial \in [Sink -> Seq(1..Len(log))]
      /\ \A l \in Sink : Rising(serial[l])
    BY DEF ApartInv, TypeOK, Unread, Id
<1>2. /\ Head(serial[k]) \in 1..Len(log)
      /\ 1 \in 1..Len(serial[k]) /\ Head(serial[k]) = serial[k][1]
    BY <1>1
<1>3. /\ Rising(Tail(serial[k]))
      /\ \A a \in 1..Len(Tail(serial[k])) :
            /\ Head(serial[k]) < Tail(serial[k])[a]
            /\ \E b \in 1..Len(serial[k]) : Tail(serial[k])[a] = serial[k][b]
    BY <1>1, RisingTail
<1>4. /\ serial'[k] = Tail(serial[k])
      /\ \A l \in Sink : l # k => serial'[l] = serial[l]
    BY <1>1
<1>5. \A l \in Sink : Rising(serial'[l])
    BY <1>1, <1>3, <1>4
<1>6. ASSUME NEW l \in Sink, NEW a \in 1..Len(serial'[l])
      PROVE  /\ Behind(serial'[l][a])
             /\ l = k => Head(serial[k]) < serial'[l][a]
    <2>1. CASE l = k
        <3>1. serial'[l] = Tail(serial[k])
            BY <1>4, <2>1
        <3>2. PICK b \in 1..Len(serial[k]) : serial'[l][a] = serial[k][b]
            BY <1>3, <1>6, <3>1
        <3>3. Behind(serial[k][b])
            BY DEF ApartInv, Unread
        <3> QED
            BY <1>3, <1>6, <3>1, <3>2, <3>3
    <2>2. CASE l # k
        BY <1>4, <2>2 DEF ApartInv, Unread
    <2> QED
        BY <2>1, <2>2
<1> QED
    BY <1>2, <1>5, <1>6 DEF ApartInv, Unread, Id

LEMMA ApartLose ==
    ASSUME ApartInv, NEW k \in Sink, LoseLine(k)
    PROVE  ApartInv'
<1>1. TypeOK'
    BY NextType DEF ApartInv, Next, Operate
<1>2. /\ UNCHANGED <<log, scvn, mote, outq, done>>
      /\ InFlight' = InFlight
    BY DEF LoseLine, InFlight
<1>3. Unread'
    BY <1>2, UnreadTail DEF LoseLine, Unread, Behind
<1> QED
    BY <1>1, <1>2, <1>3 DEF ApartInv, Ran, OneEpoch

LEMMA ApartRead ==
    ASSUME OneSink, ApartInv, NEW k \in Sink, Apart(k), SerialLine(k)
    PROVE  ApartInv'
<1>1. TypeOK'
    BY NextType DEF ApartInv, Next, Receive
<1>2. UNCHANGED <<log, scvn, mote, done>>
    BY DEF SerialLine
<1>3. /\ serial[k] # <<>>
      /\ serial' = [serial EXCEPT ![k] = Tail(@)]
    BY DEF SerialLine
<1>4. PICK h \in Id : h = Head(serial[k])
    BY <1>3, UnreadTail
<1>5. /\ Behind(h)
      /\ \A l \in Sink : Rising(serial'[l])
      /\ \A l \in Sink : \A a \in 1..Len(serial'[l]) :
            Behind(serial'[l][a]) /\ h < serial'[l][a]
    BY <1>3, <1>4, UnreadTail DEF OneSink
<1>6. InFlight' \subseteq InFlight \cup {h}
    <2>1. outq' = [outq EXCEPT ![k] = Enqueue(@, h)] \/ outq' = outq
        BY <1>4 DEF SerialLine
    <2>2. k \in Node /\ outq \in [Node -> Seq(1..Len(log))] /\ Len(log) \in Nat
        BY DEF ApartInv, TypeOK, Node, Id
    <2>3. ASSUME NEW x \in Node, NEW a \in DOMAIN outq'[x]
          PROVE  outq'[x][a] \in InFlight \cup {h}
        <3>1. CASE outq'[x] = outq[x]
            BY <2>3, <3>1, OnAir
        <3>2. CASE outq'[x] = Enqueue(outq[x], h)
            <4>1. outq'[x][a] = h \/ \E b \in DOMAIN outq[x] : outq'[x][a] = outq[x][b]
                BY <2>2, <3>2, AirEnqueue
            <4> QED
                BY <4>1, OnAir
        <3> QED
            BY <2>1, <2>2, <3>1, <3>2
    <2> QED
        BY <2>3 DEF InFlight
<1>7. Unread'
    <2>1. ASSUME NEW l \in Sink, NEW a \in 1..Len(serial'[l])
          PROVE  /\ \A i \in InFlight' : i < serial'[l][a]
                 /\ \A s \in Sender : done'[s] < serial'[l][a]
        BY <1>2, <1>5, <1>6 DEF Behind
    <2> QED
        BY <1>5, <2>1 DEF Unread, Behind
<1>8. \A i \in InFlight : Plain(log, i, h)
    BY <1>3, <1>4 DEF Apart, Plain
<1>9. /\ \A i \in InFlight : i < h /\ i \in Int /\ h \in Int
      /\ \A s \in Sender : done[s] < h /\ done[s] \in Int
    BY <1>4, <1>5, AirIds DEF Behind, ApartInv, TypeOK, Id
<1>10. OneEpoch'
    <2>1. ASSUME NEW i \in InFlight', NEW j \in InFlight', i < j
          PROVE  Plain(log, i, j)
        <3>1. CASE i \in InFlight /\ j \in InFlight
            BY <2>1, <3>1 DEF ApartInv, OneEpoch
        <3>2. CASE i \in InFlight /\ j = h
            BY <1>8, <3>2
        <3>3. CASE i = h
            BY <1>4, <1>6, <1>9, <2>1, <3>3 DEF Id
        <3> QED
            BY <1>6, <3>1, <3>2, <3>3
    <2>2. ASSUME NEW i \in InFlight', NEW s \in Sender, i < done[s]
          PROVE  Plain(log, i, done[s])
        <3>1. i # h
            BY <1>4, <1>9, <2>2 DEF Id
        <3> QED
            BY <1>6, <2>2, <3>1 DEF ApartInv, OneEpoch
    <2> QED
        BY <1>2, <2>1, <2>2 DEF OneEpoch
<1> QED
    BY <1>1, <1>2, <1>7, <1>10 DEF ApartInv, Ran

LEMMA ApartReboot ==
    ASSUME ApartInv,
           \/ \E k \in Sink : RebootSink(k)
           \/ \E s \in Sender : RebootSender(s)
    PROVE  ApartInv'
<1>1. TypeOK'
    BY NextType DEF ApartInv, Next, Operate
<1>2. UNCHANGED <<log, scvn, serial>>
    BY DEF RebootSink, RebootSender
<1>3. PICK n \in Node : outq' = [outq EXCEPT ![n] = <<>>]
    BY DEF RebootSink, RebootSender, Node
<1>4. InFlight' \subseteq InFlight
    <2>1. ASSUME NEW x \in Node, NEW a \in DOMAIN outq'[x]
          PROVE  outq'[x] = outq[x]
        BY <1>3, <2>1 DEF ApartInv, TypeOK
    <2> QED
        BY <2>1 DEF InFlight
<1>5. ASSUME NEW s \in Sender
      PROVE  \/ done'[s] = done[s] /\ mote'[s] = mote[s]
             \/ done'[s] = 0 /\ mote'[s] = SenderBoot
    BY DEF ApartInv, TypeOK, RebootSink, RebootSender
<1>6. Ran'
    BY <1>2, <1>5 DEF ApartInv, Ran, SenderBoot
<1>7. \A i \in Id : 0 < i
    BY DEF ApartInv, TypeOK, Id
<1>8. Unread'
    <2>1. ASSUME NEW l \in Sink, NEW a \in 1..Len(serial[l])
          PROVE  serial[l][a] \in Id
        BY <2>1 DEF ApartInv, TypeOK
    <2> QED
        BY <1>2, <1>4, <1>5, <1>7, <2>1 DEF ApartInv, Unread, Behind
<1>9. OneEpoch'
    <2>1. ASSUME NEW i \in InFlight', NEW s \in Sender, i < done'[s]
          PROVE  done'[s] = done[s]
        <3>1. i \in Id
            BY <1>4, AirIds DEF ApartInv
        <3>2. i \in Nat /\ 0 < i
            BY <1>7, <3>1 DEF ApartInv, TypeOK, Id
        <3> QED
            BY <1>5, <2>1, <3>2
    <2> QED
        BY <1>2, <1>4, <2>1 DEF ApartInv, OneEpoch
<1> QED
    BY <1>1, <1>2, <1>6, <1>8, <1>9 DEF ApartInv

LEMMA LogRenumber == ASSUME TypeOK, Renumber PROVE Log!Issue
<1>1. PICK m \in Line : WriteTwo(ResetLine, m)
    BY ServerLines, HandlersAssumption DEF Renumber, Rollover, GatewayConnect
<1>2. log \in Seq(Line) /\ ResetLine \in Line
    BY ServerLines DEF TypeOK
<1>3. log' = Append(Append(log, ResetLine), m) /\ UNCHANGED <<mote, done>>
    BY <1>1 DEF WriteTwo
<1>4. /\ log' \in Seq(Line)
      /\ Len(log') = Len(log) + 2
      /\ \A i \in 1..Len(log) : log'[i] = log[i]
    BY <1>2, <1>3
<1> QED
    BY <1>3, <1>4, SameLine DEF Log!Issue

LEMMA ApartStart == Init => ApartInv
<1> SUFFICES ASSUME Init PROVE Sorted(log, scvn) /\ Ran /\ Unread /\ OneEpoch
    BY InitType DEF ApartInv
<1>1. Sorted(log, scvn) /\ Ran /\ Unread
    BY DEF Init, Sorted, Ran, Unread, Rising, SenderBoot
<1>2. InFlight = {}
    BY DEF Init, InFlight
<1> QED
    BY <1>1, <1>2 DEF OneEpoch

LEMMA ApartRenumber == ASSUME ApartInv, Renumber PROVE ApartInv'
<1>1. TypeOK'
    BY NextType DEF ApartInv, Next
<1>2. ASSUME NEW o \in Orders, Rollover(o) PROVE ApartInv'
    <2>1. Stamp(1, o) \in Line /\ Stamp(1, o).kind # "RESET_CVN" /\ Stamp(1, o).cvn = 1
        BY ServerLines, HandlersAssumption, DisseminationAssumption DEF Stamp
    <2> QED
        BY <1>1, <1>2, <2>1, ApartWriteTwo DEF Rollover
<1>3. ASSUME GatewayConnect PROVE ApartInv'
    <2>1. SinkInfoLine.kind # "RESET_CVN" /\ SinkInfoLine.cvn = 1
        BY DEF SinkInfoLine, Stamp
    <2> QED
        BY <1>1, <1>3, <2>1, ServerLines, ApartWriteTwo DEF GatewayConnect
<1> QED
    BY <1>2, <1>3 DEF Renumber

LEMMA ApartStep ==
    ASSUME OneSink, ApartInv, [ApartNext]_vars
    PROVE  ApartInv'
<1>1. CASE UNCHANGED vars
    <2>1. TypeOK'
        BY <1>1, NextType DEF ApartInv
    <2>2. UNCHANGED <<scvn, log, serial, mote, outq, done>> /\ InFlight' = InFlight
        BY <1>1 DEF vars, InFlight
    <2>3. Ran' /\ Unread'
        BY <2>2 DEF ApartInv, Ran, Unread, Behind
    <2>4. OneEpoch'
        BY <2>2 DEF ApartInv, OneEpoch
    <2> QED
        BY <2>1, <2>2, <2>3, <2>4 DEF ApartInv
<1> QED
    BY <1>1, ApartSend, ApartRenumber, ApartLose, ApartRead, ApartTransmit, ApartReboot
    DEF ApartNext, Operate, ReceiveApart

(* With one sink, the invariant of a behaviour with resets apart.          *)
THEOREM ApartInvariant ==
    ASSUME OneSink
    PROVE  ApartSpec => []ApartInv
BY ApartStart, ApartStep, PTL DEF ApartSpec

LEMMA ApartLogStep ==
    ASSUME ApartInv, [ApartNext]_vars
    PROVE  [Log!Next]_<<log, done, Position>>
<1>1. TypeOK
    BY DEF ApartInv
<1>2. ASSUME NEW o \in Orders, SendCommand(o) PROVE Log!Next
    BY <1>1, <1>2, LogIssue DEF Log!Next
<1>3. ASSUME Renumber PROVE Log!Next
    BY <1>1, <1>3, LogRenumber DEF Log!Next
<1>4. ASSUME NEW n \in Node, NEW R \in SUBSET Hearers(n), Transmit(n, R)
      PROVE  Log!Next
    <2>1. \A s \in R : SenderAccepts(mote[s], log[Head(outq[n])]) => done[s] <= Head(outq[n])
        BY <1>1, <1>4, AirTransmit, ApartAccepts DEF Hearers
    <2> QED
        BY <1>1, <1>4, <2>1, LogRun DEF Log!Next
<1>5. ASSUME NEW s \in Sender, RebootSender(s) PROVE Log!Next
    BY <1>1, <1>5, LogRestart DEF Log!Next
<1>6. \/ UNCHANGED <<log, done, mote>>
      \/ \E o \in Orders : SendCommand(o)
      \/ Renumber
      \/ \E n \in Node : \E R \in SUBSET Hearers(n) : Transmit(n, R)
      \/ \E s \in Sender : RebootSender(s)
    BY DEF ApartNext, Operate, ReceiveApart, LoseLine, SerialLine, RebootSink, vars
<1> QED
    BY <1>2, <1>3, <1>4, <1>5, <1>6 DEF Position

(* Over resets, with one sink and resets apart from other lines, the       *)
(* command path implements the command log.                                *)
THEOREM ApartImplementsLog ==
    ASSUME OneSink
    PROVE  ApartSpec => ImplementsLog
<1>1. ApartInv /\ [ApartNext]_vars => [Log!Next]_<<log, done, Position>>
    BY ApartLogStep
<1> QED
    BY <1>1, ApartInvariant, LogStart, PTL DEF ApartSpec, ImplementsLog, Log!Spec, Position

(* Over resets, with one sink and resets apart from other lines, no sender *)
(* runs a line again once it ran a later one.                              *)
THEOREM ApartInOrder ==
    ASSUME OneSink
    PROVE  ApartSpec => InOrder
<1> DEFINE Forward == \A s \in Sender : done'[s] >= done[s] \/ done'[s] = 0
<1>1. ASSUME ApartInv, [ApartNext]_vars PROVE [Forward]_vars
    <2>1. [Log!Next]_<<log, done, Position>>
        BY <1>1, ApartLogStep
    <2>2. \A s \in Sender : done[s] \in Nat
        BY <1>1 DEF ApartInv, TypeOK
    <2>3. ASSUME NEW i \in 1..Len(log), NEW R \in SUBSET Sender, Log!Run(i, R)
          PROVE  Forward
        BY <1>1, <2>2, <2>3 DEF Log!Run, ApartInv, TypeOK
    <2>4. ASSUME NEW s \in Sender, Log!Restart(s)
          PROVE  Forward
        BY <1>1, <2>2, <2>4 DEF Log!Restart, ApartInv, TypeOK
    <2>5. ASSUME UNCHANGED done
          PROVE  Forward
        BY <2>2, <2>5
    <2> QED
        BY <2>1, <2>3, <2>4, <2>5 DEF Log!Next, Log!Issue
<1> QED
    BY <1>1, ApartInvariant, PTL DEF ApartSpec, InOrder

----------------------------------------------------------------------------
(* The versions of resets and of other lines.                              *)

(* Version CvnMax is that of the resets.                                   *)
Ends(L) ==
    \A i \in 1..Len(L) :
        IF L[i].kind = "RESET_CVN" THEN L[i].cvn = CvnMax ELSE L[i].cvn < CvnMax

LEMMA EndsAppend ==
    ASSUME NEW L \in Seq(Line), Ends(L), NEW l \in Line,
           IF l.kind = "RESET_CVN" THEN l.cvn = CvnMax ELSE l.cvn < CvnMax
    PROVE  Append(L, l) \in Seq(Line) /\ Ends(Append(L, l))
<1> DEFINE M == Append(L, l)
<1>1. /\ M \in Seq(Line) /\ Len(M) = Len(L) + 1 /\ Len(L) \in Nat
      /\ M[Len(L) + 1] = l /\ \A i \in 1..Len(L) : M[i] = L[i]
    OBVIOUS
<1> HIDE DEF M
<1>2. \A i \in 1..Len(M) : i = Len(L) + 1 \/ i \in 1..Len(L)
    BY <1>1
<1>3. Ends(M)
    BY <1>1, <1>2 DEF Ends
<1> QED
    BY <1>1, <1>3 DEF M

LEMMA EndsStep == TypeOK /\ Ends(log) /\ [Next]_vars => Ends(log')
<1> SUFFICES ASSUME TypeOK, Ends(log), [Next]_vars PROVE Ends(log')
    OBVIOUS
<1>0. log \in Seq(Line) /\ scvn \in 1..CvnMax
    BY DEF TypeOK
<1>1. /\ ResetLine \in Line /\ ResetLine.kind = "RESET_CVN" /\ ResetLine.cvn = CvnMax
      /\ SinkInfoLine \in Line /\ SinkInfoLine.kind # "RESET_CVN" /\ SinkInfoLine.cvn < CvnMax
    BY ServerLines, HandlersAssumption DEF ResetLine, SinkInfoLine, Stamp
<1>2. ASSUME NEW o \in Orders, NEW v \in 1..CvnMax, v < CvnMax
      PROVE  Stamp(v, o) \in Line /\ Stamp(v, o).kind # "RESET_CVN" /\ Stamp(v, o).cvn < CvnMax
    BY <1>2, ServerLines, DisseminationAssumption DEF Stamp
<1>3. ASSUME NEW o \in Orders, SendCommand(o) PROVE Ends(log')
    <2>1. log' = Append(log, Stamp(scvn, o)) /\ scvn < CvnMax
        BY <1>3 DEF SendCommand, Write
    <2> QED
        BY <1>0, <1>2, <2>1, EndsAppend
<1>4. ASSUME NEW m \in Line, m.kind # "RESET_CVN", m.cvn < CvnMax, WriteTwo(ResetLine, m)
      PROVE  Ends(log')
    <2>1. log' = Append(Append(log, ResetLine), m)
        BY <1>4 DEF WriteTwo
    <2>2. Append(log, ResetLine) \in Seq(Line) /\ Ends(Append(log, ResetLine))
        BY <1>0, <1>1, EndsAppend
    <2> QED
        BY <1>4, <2>1, <2>2, EndsAppend
<1>5. ASSUME Renumber PROVE Ends(log')
    <2>1. 1 \in 1..CvnMax /\ 1 < CvnMax
        BY HandlersAssumption
    <2> QED
        BY <1>1, <1>2, <1>4, <1>5, <2>1 DEF Renumber, GatewayConnect, Rollover
<1>6. UNCHANGED log \/ Renumber \/ \E o \in Orders : SendCommand(o)
    BY DEF Next, Operate, Receive, LoseLine, SerialLine, Transmit, RebootSink, RebootSender, vars
<1> QED
    BY <1>3, <1>5, <1>6

----------------------------------------------------------------------------
(* How often a command is multicast.                                       *)

(* No counter is about to wrap: fewer than CounterMax repetitions of one   *)
(* command are heard.                                                      *)
NoWrap == \A s \in Sender : \A c \in Repeated : mote[s].counter[c] < CounterMax

(* A sender accepts what it could hear now only if it ran no later line.   *)
Forward ==
    \A n \in Node : outq[n] # <<>> =>
        \A s \in Sender :
            SenderAccepts(mote[s], log[Head(outq[n])]) => done[s] <= Head(outq[n])

(* The counter of the line a sender ran last counts the multicasts of it,  *)
(* those of earlier lines stay as they are, later lines have none.         *)
Repeating ==
    \A s \in Sender :
        /\ \A c \in Repeated : mote[s].counter[c] >= 0
        /\ \A i \in 1..MaxLines :
              /\ i > done[s] => repeats[s][i] = 0
              /\ repeats[s][i] < MaxRepeat
              /\ i = done[s] => repeats[s][i] <= IF Runs(log[i]) THEN mote[s].counter[log[i].kind] ELSE 0

(* What a sender does with a line that is not older than the one it ran.   *)
LEMMA CounterStep ==
    ASSUME NEW m \in Senders, NEW l \in Line, SenderAccepts(m, l),
           \A c \in Repeated : m.counter[c] >= 0 /\ m.counter[c] < CounterMax
    PROVE  /\ \A c \in Repeated : SenderAfter(m, l).counter[c] >= 0
           /\ Runs(l) => /\ l.kind \in Repeated
                         /\ Counted(m, l) \in Nat
                         /\ Counted(m, l) >= 1
                         /\ SenderAfter(m, l).counter[l.kind] = Counted(m, l)
           /\ Runs(l) /\ (m.ccvn = U16(l.cvn) \/ (l.kind = "RESET_CVN" /\ U16(l.cvn) = CvnMax))
                 => Counted(m, l) = m.counter[l.kind] + 1
<1>1. Cleared(m, l) \in [Repeated -> Counter]
    BY ClearedType
<1>2. \A c \in Repeated : m.counter[c] \in Int
    BY DEF Senders, Counter
<1>3. \A c \in Repeated : Cleared(m, l)[c] \in 0..(CounterMax - 1) \/ (Cleared(m, l)[c] = 0 /\ CounterMax >= 1)
    BY <1>2, HandlersAssumption DEF Cleared
<1>4. Runs(l) => l.kind \in Repeated
    BY DEF Runs, Repeated
<1>5. Runs(l) => Counted(m, l) = Cleared(m, l)[l.kind] + 1
    BY <1>3, <1>4, HandlersAssumption DEF Counted, Int8
<1>6. SenderAfter(m, l).counter = IF Runs(l) THEN [Cleared(m, l) EXCEPT ![l.kind] = Counted(m, l)]
                                  ELSE Cleared(m, l)
    BY DEF SenderAfter
<1>7. Runs(l) /\ (m.ccvn = U16(l.cvn) \/ (l.kind = "RESET_CVN" /\ U16(l.cvn) = CvnMax))
        => Cleared(m, l)[l.kind] = m.counter[l.kind]
    <2>1. m.ccvn \in Int /\ (m.ccvn = U16(l.cvn) => ~ (m.ccvn < U16(l.cvn)))
        BY DEF Senders
    <2> QED
        BY <1>4, <2>1 DEF Cleared
<1> QED
    BY <1>1, <1>3, <1>4, <1>5, <1>6, <1>7

LEMMA RepeatTransmit ==
    ASSUME TypeOK, Ends(log), Sorted(log, scvn), Ran, Forward, NoWrap, Repeating,
           NEW n \in Node, NEW R \in SUBSET Hearers(n), Transmit(n, R)
    PROVE  Repeating'
<1>1. PICK i \in Id : i = Head(outq[n])
    BY TransmitId
<1>2. /\ UNCHANGED log /\ outq[n] # <<>> /\ i \in 1..MaxLines /\ log[i] \in Line
      /\ log[i].cvn \in 1..CvnMax /\ U16(log[i].cvn) = log[i].cvn
      /\ log[i].kind = "RESET_CVN" => log[i].cvn = CvnMax
    <2>1. Len(log) \in Nat /\ Len(log) <= MaxLines /\ MaxLines \in Nat
        BY DisseminationAssumption DEF TypeOK
    <2>2. log[i].cvn \in 1..CvnMax
        BY DEF Sorted, Id
    <2>3. log[i].cvn \in 0..CvnMax
        BY <2>2, HandlersAssumption
    <2> QED
        BY <1>1, <2>1, <2>2, <2>3, U16Id, LineOf DEF Transmit, Ends, Id
<1> DEFINE Accepts(s) == s \in R /\ SenderAccepts(mote[s], log[i])
           Forwards(s) == s \in R /\ SenderForwards(mote[s], log[i])
<1>3. ASSUME NEW s \in Sender
      PROVE  /\ mote'[s] = IF Accepts(s) THEN SenderAfter(mote[s], log[i]) ELSE mote[s]
             /\ done'[s] = IF Accepts(s) THEN i ELSE done[s]
             /\ repeats'[s] = IF Forwards(s) THEN Count(repeats[s], i) ELSE repeats[s]
    BY <1>1 DEF Transmit, SenderAfter
<1> SUFFICES ASSUME NEW s \in Sender
             PROVE  /\ \A c \in Repeated : mote'[s].counter[c] >= 0
                    /\ \A j \in 1..MaxLines :
                          /\ j > done'[s] => repeats'[s][j] = 0
                          /\ repeats'[s][j] < MaxRepeat
                          /\ j = done'[s] => repeats'[s][j] <= IF Runs(log[j]) THEN mote'[s].counter[log[j].kind] ELSE 0
    BY <1>2 DEF Repeating
<1>4. /\ mote[s] \in Senders
      /\ repeats[s] \in [1..MaxLines -> Nat]
      /\ done[s] \in Nat /\ i \in Nat
    BY <1>2, HandlersAssumption DEF TypeOK, Id
<1>5. repeats[s][i] \in Nat
    <2>1. i \in 1..MaxLines
        BY <1>2
    <2> QED
        BY <1>4, <2>1
<1>6. CASE ~ Accepts(s)
    <2>1. ~ Forwards(s)
        BY <1>6 DEF SenderForwards
    <2> HIDE DEF Accepts, Forwards
    <2> QED
        BY <1>3, <1>6, <2>1 DEF Repeating
<1>7. CASE Accepts(s)
    <2>1. done[s] <= i /\ SenderAccepts(mote[s], log[i])
        BY <1>1, <1>2, <1>7 DEF Forward
    <2>2. /\ mote'[s] = SenderAfter(mote[s], log[i]) /\ done'[s] = i
          /\ repeats'[s] = IF Forwards(s) THEN Count(repeats[s], i) ELSE repeats[s]
        BY <1>3, <1>7
    <2>3. \A c \in Repeated : mote[s].counter[c] >= 0 /\ mote[s].counter[c] < CounterMax
        BY DEF NoWrap, Repeating
    <2> DEFINE k == Counted(mote[s], log[i])
    <2>4. /\ \A c \in Repeated : mote'[s].counter[c] >= 0
          /\ Runs(log[i]) => k \in Nat /\ k >= 1 /\ mote'[s].counter[log[i].kind] = k
          /\ Runs(log[i]) /\ (mote[s].ccvn = U16(log[i].cvn)
                                \/ (log[i].kind = "RESET_CVN" /\ U16(log[i].cvn) = CvnMax))
                => k = mote[s].counter[log[i].kind] + 1
        BY <1>2, <1>4, <2>1, <2>2, <2>3, CounterStep
    <2>5. Forwards(s) => Runs(log[i]) /\ k < MaxRepeat
        BY DEF SenderForwards
    <2> HIDE DEF k, Accepts, Forwards
    <2>6. repeats[s][i] < (IF Runs(log[i]) THEN k ELSE 1)
        <3>1. CASE i > done[s]
            <4>1. repeats[s][i] = 0
                BY <1>2, <3>1 DEF Repeating
            <4> QED
                BY <2>4, <4>1
        <3>2. CASE i = done[s]
            <4>1. mote[s].ccvn = log[i].cvn \/ log[i].kind = "RESET_CVN"
                BY <1>2, <3>2 DEF Ran, Id
            <4>2. Runs(log[i]) => k = mote[s].counter[log[i].kind] + 1
                BY <1>2, <2>4, <4>1
            <4>3. repeats[s][i] <= IF Runs(log[i]) THEN mote[s].counter[log[i].kind] ELSE 0
                BY <1>2, <3>2 DEF Repeating
            <4>4. Runs(log[i]) => mote[s].counter[log[i].kind] \in Int
                <5>1. Runs(log[i]) => log[i].kind \in Repeated
                    BY DEF Runs, Repeated
                <5> QED
                    BY <1>4, <5>1 DEF Senders, Counter
            <4> QED
                BY <1>5, <4>2, <4>3, <4>4
        <3> QED
            BY <1>4, <2>1, <3>1, <3>2
    <2>7. repeats[s][i] < MaxRepeat /\ MaxRepeat \in Nat /\ repeats[s][i] \in Nat
        BY <1>2, <1>5, HandlersAssumption DEF Repeating
    <2>8. /\ \A j \in 1..MaxLines : j # i => repeats'[s][j] = repeats[s][j]
          /\ repeats'[s][i] \in Nat /\ repeats'[s][i] < MaxRepeat
          /\ repeats'[s][i] <= IF Runs(log[i]) THEN k ELSE 0
        <3>1. CASE Forwards(s)
            <4>1. repeats'[s] = [repeats[s] EXCEPT ![i] = repeats[s][i] + 1]
                BY <2>2, <2>7, <3>1 DEF Count
            <4>2. /\ repeats'[s][i] = repeats[s][i] + 1
                  /\ \A j \in 1..MaxLines : j # i => repeats'[s][j] = repeats[s][j]
                BY <1>2, <1>4, <4>1
            <4>3. Runs(log[i]) /\ k < MaxRepeat /\ k \in Nat
                BY <2>4, <2>5, <3>1
            <4> QED
                BY <2>6, <2>7, <4>2, <4>3
        <3>2. CASE ~ Forwards(s)
            <4>1. repeats'[s] = repeats[s]
                BY <2>2, <3>2
            <4>2. Runs(log[i]) => k \in Nat
                BY <2>4
            <4> QED
                BY <2>6, <2>7, <4>1, <4>2
        <3> QED
            BY <3>1, <3>2
    <2>11. ASSUME NEW j \in 1..MaxLines
           PROVE  /\ j > i => repeats'[s][j] = 0
                  /\ repeats'[s][j] < MaxRepeat
        BY <1>4, <2>1, <2>8 DEF Repeating
    <2> QED
        BY <2>2, <2>4, <2>8, <2>11
<1> QED
    BY <1>6, <1>7

LEMMA RepeatStep ==
    ASSUME TypeOK, Ends(log), Sorted(log, scvn), Ran, Forward, NoWrap, Repeating, [Next]_vars
    PROVE  Repeating'
<1>1. ASSUME NEW n \in Node, NEW R \in SUBSET Hearers(n), Transmit(n, R)
      PROVE  Repeating'
    BY <1>1, RepeatTransmit
<1>2. ASSUME NEW s \in Sender, RebootSender(s) PROVE Repeating'
    <2>1. /\ UNCHANGED log
          /\ mote' = [mote EXCEPT ![s] = SenderBoot]
          /\ done' = [done EXCEPT ![s] = 0]
          /\ repeats' = [repeats EXCEPT ![s] = NoRepeats]
        BY <1>2 DEF RebootSender
    <2>2. \A c \in Repeated : SenderBoot.counter[c] = 0
        BY DEF SenderBoot
    <2>3. \A i \in 1..MaxLines : NoRepeats[i] = 0 /\ i # 0 /\ 0 < MaxRepeat
        BY HandlersAssumption DEF NoRepeats
    <2>4. mote'[s] = SenderBoot /\ done'[s] = 0 /\ repeats'[s] = NoRepeats
        BY <2>1 DEF TypeOK
    <2>5. \A u \in Sender \ {s} :
             mote'[u] = mote[u] /\ done'[u] = done[u] /\ repeats'[u] = repeats[u]
        BY <2>1 DEF TypeOK
    <2>6. ASSUME NEW u \in Sender
          PROVE  /\ \A c \in Repeated : mote'[u].counter[c] >= 0
                 /\ \A i \in 1..MaxLines :
                       /\ i > done'[u] => repeats'[u][i] = 0
                       /\ repeats'[u][i] < MaxRepeat
                       /\ i = done'[u] => repeats'[u][i] <= IF Runs(log[i]) THEN mote'[u].counter[log[i].kind] ELSE 0
        <3>1. CASE u = s
            BY <2>2, <2>3, <2>4, <3>1
        <3>2. CASE u # s
            BY <2>5, <3>2 DEF Repeating
        <3> QED
            BY <3>1, <3>2
    <2> QED
        BY <2>1, <2>6 DEF Repeating
<1>3. ASSUME UNCHANGED <<mote, done, repeats>>,
             \A i \in 1..Len(log) : log'[i] = log[i]
      PROVE  Repeating'
    <2>1. ASSUME NEW s \in Sender, NEW i \in 1..MaxLines, i = done[s]
          PROVE  log'[i] = log[i]
        BY <1>3, <2>1 DEF TypeOK
    <2> QED
        BY <1>3, <2>1 DEF Repeating
<1>4. ASSUME NEW o \in Orders, SendCommand(o)
      PROVE  \A i \in 1..Len(log) : log'[i] = log[i]
    <2>1. log \in Seq(Line) /\ log' = Append(log, Stamp(scvn, o))
        BY <1>4 DEF TypeOK, SendCommand, Write
    <2> QED
        BY <2>1
<1>5. ASSUME Renumber
      PROVE  \A i \in 1..Len(log) : log'[i] = log[i]
    BY <1>5, LogRenumber DEF Log!Issue
<1>6. \/ UNCHANGED <<mote, done, repeats>> /\ (\/ UNCHANGED log
                                              \/ Renumber
                                              \/ \E o \in Orders : SendCommand(o))
      \/ \E n \in Node : \E R \in SUBSET Hearers(n) : Transmit(n, R)
      \/ \E s \in Sender : RebootSender(s)
    BY DEF Next, Operate, Receive, Renumber, SendCommand, Rollover, GatewayConnect, Write,
           WriteTwo, LoseLine, SerialLine, RebootSink, vars
<1> QED
    BY <1>1, <1>2, <1>3, <1>4, <1>5, <1>6

LEMMA RepeatStart == Init => Ends(log) /\ Repeating
<1> SUFFICES ASSUME Init PROVE Ends(log) /\ Repeating
    OBVIOUS
<1>1. Len(log) = 0
    BY DEF Init
<1>2. \A s \in Sender : /\ \A c \in Repeated : mote[s].counter[c] = 0
                        /\ done[s] = 0
                        /\ \A i \in 1..MaxLines : repeats[s][i] = 0
    BY DEF Init, SenderBoot, NoRepeats
<1> QED
    BY <1>1, <1>2, HandlersAssumption DEF Ends, Repeating

LEMMA ApartForward == ApartInv => Forward
<1> SUFFICES ASSUME ApartInv, NEW n \in Node, outq[n] # <<>>, NEW s \in Sender,
                    SenderAccepts(mote[s], log[Head(outq[n])])
             PROVE  done[s] <= Head(outq[n])
    BY DEF Forward
<1>1. outq[n] \in Seq(1..Len(log)) /\ Len(log) \in Nat
    BY DEF ApartInv, TypeOK, Id
<1>2. Head(outq[n]) \in InFlight
    BY <1>1, AirTail, OnAir
<1> QED
    BY <1>2, ApartAccepts

LEMMA ApartIsNext == [ApartNext]_vars => [Next]_vars
BY DEF ApartNext, ReceiveApart, Next, Receive

LEMMA RepeatHolds == Repeating => RepeatTwice
BY DEF Repeating, RepeatTwice

(* MAX_REPEAT: with one sink and resets apart from other lines, and as     *)
(* long as no counter wraps, no sender multicasts a command MAX_REPEAT     *)
(* times between two of its reboots, whatever it hears and in which order. *)
THEOREM ApartRepeatTwice ==
    ASSUME OneSink
    PROVE  ApartSpec /\ []NoWrap => []RepeatTwice
<1> DEFINE Inv == ApartInv /\ Ends(log) /\ Repeating
<1>1. Init => Inv
    BY ApartStart, RepeatStart
<1>2. Inv /\ NoWrap /\ [ApartNext]_vars => Inv'
    BY ApartStep, ApartIsNext, ApartForward, EndsStep, RepeatStep DEF ApartInv
<1>3. Inv => RepeatTwice
    BY RepeatHolds
<1> QED
    BY <1>1, <1>2, <1>3, PTL DEF ApartSpec

LEMMA EpochForward == EpochInv => Sorted(log, scvn) /\ Ran /\ Forward
<1> SUFFICES ASSUME EpochInv PROVE Sorted(log, scvn) /\ Ran /\ Forward
    OBVIOUS
<1>1. Sorted(log, scvn)
    BY DEF EpochInv, Numbered, Sorted, Id
<1>2. Ran
    <2> SUFFICES ASSUME NEW s \in Sender, done[s] # 0
                 PROVE  log[done[s]].kind # "RESET_CVN"
        BY DEF EpochInv, Current, Ran
    <2>1. done[s] \in Id
        BY DEF EpochInv, TypeOK, Id
    <2> QED
        BY <2>1 DEF EpochInv, Numbered
<1>3. Forward
    <2> SUFFICES ASSUME NEW n \in Node, outq[n] # <<>>, NEW s \in Sender,
                        SenderAccepts(mote[s], log[Head(outq[n])])
                 PROVE  done[s] <= Head(outq[n])
        BY DEF Forward
    <2>1. outq[n] \in Seq(1..Len(log)) /\ Len(log) \in Nat
        BY DEF EpochInv, TypeOK, Id
    <2>2. Head(outq[n]) \in Id
        BY <2>1, TailIds DEF Id
    <2> QED
        BY <2>2, EpochAccepts
<1> QED
    BY <1>1, <1>2, <1>3

(* MAX_REPEAT: between two resets, with any number of sinks, and as long   *)
(* as no counter wraps, no sender multicasts a command MAX_REPEAT times    *)
(* between two of its reboots.                                             *)
THEOREM EpochRepeatTwice == EpochSpec /\ []NoWrap => []RepeatTwice
<1> DEFINE Inv == EpochInv /\ Ends(log) /\ Repeating
<1>1. Init => Inv
    BY EpochStart, RepeatStart
<1>2. Inv /\ NoWrap /\ [EpochNext]_vars => Inv'
    BY EpochStep, EpochIsNext, EpochForward, EndsStep, RepeatStep DEF EpochInv
<1>3. Inv => RepeatTwice
    BY RepeatHolds
<1> QED
    BY <1>1, <1>2, <1>3, PTL DEF EpochSpec
----------------------------------------------------------------------------
(* Which senders the server has lost, whatever happens.                    *)

LEMMA VersionSend ==
    ASSUME TypeOK, Sorted(log, scvn), NEW o \in Orders, SendCommand(o)
    PROVE  Sorted(log, scvn)'
<1>1. log \in Seq(Line) /\ scvn \in 1..CvnMax /\ scvn' = scvn + 1 /\ log' = Append(log, Stamp(scvn, o))
    BY DEF TypeOK, SendCommand, Write
<1>2. /\ Stamp(scvn, o) \in Line /\ Stamp(scvn, o).kind # "RESET_CVN"
      /\ Stamp(scvn, o).cvn = scvn
    BY <1>1, ServerLines, DisseminationAssumption DEF Stamp
<1> QED
    BY <1>1, <1>2, SortedLine

LEMMA VersionRenumber ==
    ASSUME TypeOK, Sorted(log, scvn), Renumber
    PROVE  Sorted(log, scvn)'
<1>1. 1 \in 1..CvnMax /\ log \in Seq(Line) /\ ResetLine \in Line
    BY ServerLines, HandlersAssumption DEF TypeOK
<1>2. PICK m \in Line : m.kind # "RESET_CVN" /\ m.cvn = 1 /\ WriteTwo(ResetLine, m) /\ scvn' = 2
    <2>1. SinkInfoLine \in Line /\ SinkInfoLine.kind # "RESET_CVN" /\ SinkInfoLine.cvn = 1
        BY ServerLines DEF SinkInfoLine, Stamp
    <2>2. \A o \in Orders : Stamp(1, o) \in Line /\ Stamp(1, o).kind # "RESET_CVN" /\ Stamp(1, o).cvn = 1
        BY <1>1, ServerLines, DisseminationAssumption DEF Stamp
    <2> QED
        BY <2>1, <2>2 DEF Renumber, Rollover, GatewayConnect
<1>3. log' = Append(Append(log, ResetLine), m)
    BY <1>2 DEF WriteTwo
<1>4. Append(log, ResetLine) \in Seq(Line) /\ Sorted(Append(log, ResetLine), 1)
    BY <1>1, SortedReset
<1>5. Sorted(log', 1 + 1)
    BY <1>1, <1>2, <1>3, <1>4, SortedLine
<1> QED
    BY <1>2, <1>5

LEMMA RanTransmit ==
    ASSUME TypeOK, Sorted(log, scvn), Ran,
           NEW n \in Node, NEW R \in SUBSET Hearers(n), Transmit(n, R)
    PROVE  Ran'
<1> DEFINE i == Head(outq[n])
<1>1. i \in Id /\ i # 0
    BY TransmitId DEF Id
<1>2. log[i].cvn \in 0..CvnMax
    BY <1>1, HandlersAssumption DEF Sorted, Id
<1>3. U16(log[i].cvn) = log[i].cvn /\ UNCHANGED log
    BY <1>2, U16Id DEF Transmit
<1>4. ASSUME NEW s \in Sender
      PROVE  mote'[s].ccvn = IF done'[s] = 0 THEN 0
                             ELSE IF log[done'[s]].kind = "RESET_CVN" THEN 0
                             ELSE log[done'[s]].cvn
    <2>1. CASE s \in R /\ SenderAccepts(mote[s], log[i])
        <3>1. mote'[s] = SenderAfter(mote[s], log[i]) /\ done'[s] = i
            BY <2>1 DEF Transmit
        <3> HIDE DEF i
        <3> QED
            BY <1>1, <1>3, <2>1, <3>1 DEF SenderAfter
    <2>2. CASE ~ (s \in R /\ SenderAccepts(mote[s], log[i]))
        <3>1. done'[s] = done[s] /\ mote'[s] = mote[s]
            BY <2>2 DEF Transmit, SenderAfter
        <3> QED
            BY <3>1 DEF Ran
    <2> QED
        BY <2>1, <2>2
<1> QED
    BY <1>3, <1>4 DEF Ran

LEMMA VersionStep ==
    ASSUME TypeOK, Sorted(log, scvn), Ran, [Next]_vars
    PROVE  Sorted(log, scvn)' /\ Ran'
<1>1. ASSUME UNCHANGED <<mote, done>>, \A i \in 1..Len(log) : log'[i] = log[i]
      PROVE  Ran'
    <2>1. ASSUME NEW s \in Sender, done[s] # 0 PROVE log'[done[s]] = log[done[s]]
        BY <1>1, <2>1 DEF TypeOK
    <2> QED
        BY <1>1, <2>1 DEF Ran
<1>2. ASSUME NEW o \in Orders, SendCommand(o) PROVE Sorted(log, scvn)' /\ Ran'
    <2>1. log \in Seq(Line) /\ log' = Append(log, Stamp(scvn, o)) /\ UNCHANGED <<mote, done>>
        BY <1>2 DEF TypeOK, SendCommand, Write
    <2>2. \A i \in 1..Len(log) : log'[i] = log[i]
        BY <2>1
    <2> QED
        BY <1>1, <1>2, <2>1, <2>2, VersionSend
<1>3. ASSUME Renumber PROVE Sorted(log, scvn)' /\ Ran'
    <2>1. UNCHANGED <<mote, done>>
        BY <1>3 DEF Renumber, Rollover, GatewayConnect, WriteTwo
    <2>2. \A i \in 1..Len(log) : log'[i] = log[i]
        BY <1>3, LogRenumber DEF Log!Issue
    <2> QED
        BY <1>1, <1>3, <2>1, <2>2, VersionRenumber
<1>4. ASSUME NEW n \in Node, NEW R \in SUBSET Hearers(n), Transmit(n, R)
      PROVE  Sorted(log, scvn)' /\ Ran'
    BY <1>4, RanTransmit DEF Transmit
<1>5. ASSUME NEW s \in Sender, RebootSender(s) PROVE Sorted(log, scvn)' /\ Ran'
    <2>1. UNCHANGED <<log, scvn>> /\ SenderBoot.ccvn = 0
        BY <1>5 DEF RebootSender, SenderBoot
    <2>2. Ran'
        BY <1>5, <2>1 DEF RebootSender, TypeOK, Ran
    <2> QED
        BY <2>1, <2>2
<1>6. ASSUME UNCHANGED <<scvn, log, mote, done>> PROVE Sorted(log, scvn)' /\ Ran'
    BY <1>6 DEF Ran
<1>7. \/ \E o \in Orders : SendCommand(o)
      \/ Renumber
      \/ \E n \in Node : \E R \in SUBSET Hearers(n) : Transmit(n, R)
      \/ \E s \in Sender : RebootSender(s)
      \/ UNCHANGED <<scvn, log, mote, done>>
    BY DEF Next, Operate, Receive, LoseLine, SerialLine, RebootSink, vars
<1> QED
    BY <1>2, <1>3, <1>4, <1>5, <1>6, <1>7

LEMMA BehindReset ==
    ASSUME TypeOK, Sorted(log, scvn), Ran
    PROVE  MissedReset
<1> SUFFICES ASSUME NEW s \in Sender, mote[s].ccvn >= scvn,
                    \A i \in Id : done[s] < i => log[i].kind # "RESET_CVN"
             PROVE  FALSE
    BY DEF MissedReset
<1>1. scvn \in 1..CvnMax /\ CvnMax \in Nat /\ done[s] \in 0..Len(log) /\ Len(log) \in Nat
    BY HandlersAssumption DEF TypeOK
<1>2. mote[s].ccvn # 0
    BY <1>1
<1>3. done[s] \in Id /\ log[done[s]].kind # "RESET_CVN" /\ mote[s].ccvn = log[done[s]].cvn
    BY <1>1, <1>2 DEF Ran, Id
<1>4. \A m \in done[s]..Len(log) : m \in Id /\ (m = done[s] \/ done[s] < m)
    BY <1>1, <1>3 DEF Id
<1>5. Plain(log, done[s], Len(log))
    BY <1>3, <1>4 DEF Plain
<1>6. log[done[s]].cvn < scvn /\ log[done[s]].cvn \in Int
    BY <1>3, <1>5 DEF Sorted, Id
<1> QED
    BY <1>1, <1>3, <1>6

(* In every behaviour, however many sinks there are and whatever is lost,  *)
(* delayed, duplicated or rebooted: a sender finds the server's next       *)
(* command obsolete only if a reset was sent after the line it ran last.   *)
THEOREM BehindOnlyByReset == Spec => []MissedReset
<1> DEFINE Inv == TypeOK /\ Sorted(log, scvn) /\ Ran
<1>1. Init => Inv
    <2>1. Init => Sorted(log, scvn) /\ Ran
        BY DEF Init, Sorted, Ran, SenderBoot
    <2> QED
        BY <2>1, InitType
<1>2. Inv /\ [Next]_vars => Inv'
    BY NextType, VersionStep
<1>3. Inv => MissedReset
    BY BehindReset
<1> QED
    BY <1>1, <1>2, <1>3, PTL DEF Spec
=============================================================================
