--------------------------- MODULE NodeGeolocProofs ---------------------------
(***************************************************************************)
(* Proofs about NodeGeoloc, for any motes, topology and buffer sizes: the  *)
(* conservation of pairs.  The inductive invariant is the conjunction of   *)
(* TypeOK, Conserved and AnswersKept.  A step of a mote changes what it    *)
(* holds and what it owes by the same amount; the lemmas say so of the     *)
(* handlers, one mote at a time.                                           *)
(***************************************************************************)
EXTENDS NodeGeoloc, FiniteSetTheorems, TLAPS

GeolocInv == TypeOK /\ Conserved /\ AnswersKept

(* The pairs of source n in the two buffers of a mote.                     *)
Held(m, n) == Count(m.own, n) + Count(m.resp, n)

(* AnswersKept of one mote.                                                *)
Kept(m) == m.resp # <<>> => m.waiting

----------------------------------------------------------------------------

LEMMA CountType ==
  ASSUME NEW b \in Seq(Sender), NEW n
  PROVE  Count(b, n) \in Nat
<1>1. IsFiniteSet(1..Len(b))
  BY FS_Interval
<1>2. IsFiniteSet({i \in 1..Len(b) : b[i] = n})
  BY <1>1, FS_Subset
<1> QED BY <1>2, FS_CardinalityType DEF Count

LEMMA CountEmpty ==
  ASSUME NEW n
  PROVE  Count(<<>>, n) = 0
<1>1. {i \in 1..Len(<<>>) : <<>>[i] = n} = {}
  OBVIOUS
<1> QED BY <1>1, FS_EmptySet DEF Count

(* Appending x adds one to the count of x.                                 *)
LEMMA CountAppend ==
  ASSUME NEW b \in Seq(Sender), NEW x \in Sender, NEW n
  PROVE  Count(Append(b, x), n) = Count(b, n) + (IF x = n THEN 1 ELSE 0)
<1> DEFINE S == {i \in 1..Len(b) : b[i] = n}
           T == {i \in 1..Len(Append(b, x)) : Append(b, x)[i] = n}
<1>1. IsFiniteSet(S)
  BY FS_Interval, FS_Subset
<1>2. Cardinality(S) \in Nat
  BY <1>1, FS_CardinalityType
<1>3. CASE x = n
  <2>1. T = S \cup {Len(b) + 1}
    BY <1>3
  <2>2. Len(b) + 1 \notin S
    OBVIOUS
  <2>3. Cardinality(T) = Cardinality(S) + 1
    BY <1>1, <2>1, <2>2, FS_AddElement
  <2> QED BY <1>3, <2>3 DEF Count
<1>4. CASE x # n
  <2>1. Append(b, x)[Len(b) + 1] = x /\ Len(Append(b, x)) = Len(b) + 1
    OBVIOUS
  <2>2. \A i \in 1..Len(b) : Append(b, x)[i] = b[i]
    OBVIOUS
  <2>3. \A i \in 1..(Len(b) + 1) : i \in 1..Len(b) \/ i = Len(b) + 1
    OBVIOUS
  <2>4. T \subseteq S
    BY <1>4, <2>1, <2>2, <2>3
  <2>5. S \subseteq T
    BY <2>1, <2>2
  <2>6. T = S
    BY <2>4, <2>5
  <2>7. Count(Append(b, x), n) = Cardinality(S) /\ Count(b, n) = Cardinality(S)
    BY <2>6, Zenon DEF Count
  <2> HIDE DEF S
  <2> QED BY <1>2, <1>4, <2>7
<1> QED BY <1>3, <1>4

LEMMA PutType ==
  ASSUME NEW b \in Buffer, NEW n \in Sender
  PROVE  Put(b, n) \in Buffer /\ Full(b, n) \in Seq(Sender)
BY GeolocAssumption DEF Buffer, Put, Full

(* What a buffer gains with a pair and what is reported add up.            *)
LEMMA PutCount ==
  ASSUME NEW b \in Buffer, NEW x \in Sender, NEW n
  PROVE  Count(Put(b, x), n)
           = Count(b, n) + (IF x = n THEN 1 ELSE 0) - Count(Full(b, x), n)
<1>1. b \in Seq(Sender)
  BY DEF Buffer
<1>2. Count(b, n) \in Nat
  BY <1>1, CountType
<1>3. Count(Append(b, x), n) = Count(b, n) + (IF x = n THEN 1 ELSE 0)
  BY <1>1, CountAppend
<1>4. Count(<<>>, n) = 0
  BY CountEmpty
<1> QED BY <1>2, <1>3, <1>4 DEF Put, Full

----------------------------------------------------------------------------
(* geoloc_check().                                                         *)

LEMMA MoteUpdate ==
  ASSUME NEW m \in Motes, NEW w \in BOOLEAN, NEW r \in Buffer, NEW l \in BOOLEAN,
         NEW o \in Buffer, NEW t \in Type
  PROVE  [m EXCEPT !.waiting = w, !.resp = r, !.late = l, !.own = o, !.type = t] \in Motes
BY DEF Motes

LEMMA CheckMote ==
  ASSUME NEW m \in Motes, NEW E \in SUBSET Timer
  PROVE  AfterCheck(m, E) \in Motes
<1>1. /\ m.own \in Buffer /\ m.resp \in Buffer /\ <<>> \in Buffer
      /\ m.waiting \in BOOLEAN /\ m.late \in BOOLEAN /\ m.type \in Type
      /\ m.started \in BOOLEAN
  BY GeolocAssumption DEF Motes, Buffer
<1>2. Over(m, E) \in BOOLEAN /\ Timeout(m, E) \in BOOLEAN
  BY <1>1 DEF Over, Timeout
<1>4. (IF "beacon" \in E THEN SIMPLE ELSE m.type) \in Type
  BY <1>1 DEF Type
<1>5. (IF "report" \in E THEN <<>> ELSE m.own) \in Buffer
  BY <1>1
<1>6. (IF Timeout(m, E) THEN <<>> ELSE m.resp) \in Buffer
  BY <1>1
<1>7. (m.waiting /\ ~ Timeout(m, E)) \in BOOLEAN
  BY <1>1, <1>2
<1> QED BY <1>2, <1>4, <1>5, <1>6, <1>7, MoteUpdate, Zenon DEF AfterCheck

LEMMA CheckHeld ==
  ASSUME NEW m \in Motes, NEW E \in SUBSET Timer, NEW n
  PROVE  /\ PaidAt(m, E, n) \in Int
         /\ Held(AfterCheck(m, E), n) = Held(m, n) - PaidAt(m, E, n)
<1>1. Count(m.own, n) \in Nat /\ Count(m.resp, n) \in Nat
  BY CountType DEF Motes, Buffer
<1>2. Count(<<>>, n) = 0
  BY CountEmpty
<1>3. /\ AfterCheck(m, E).own = IF "report" \in E THEN <<>> ELSE m.own
      /\ AfterCheck(m, E).resp = IF Timeout(m, E) THEN <<>> ELSE m.resp
  BY DEF AfterCheck, Motes
<1> QED BY <1>1, <1>2, <1>3 DEF Held, PaidAt

LEMMA CheckKept ==
  ASSUME NEW m \in Motes, NEW E \in SUBSET Timer, Kept(m)
  PROVE  Kept(AfterCheck(m, E))
<1>1. /\ AfterCheck(m, E).resp = IF Timeout(m, E) THEN <<>> ELSE m.resp
      /\ AfterCheck(m, E).waiting = (m.waiting /\ ~ Timeout(m, E))
  BY DEF AfterCheck, Motes
<1> QED BY <1>1 DEF Kept

(* The button opens a request and touches no buffer.                       *)
LEMMA PressMote ==
  ASSUME NEW m \in Motes, NEW n
  PROVE  /\ AfterPress(m) \in Motes
         /\ Held(AfterPress(m), n) = Held(m, n)
         /\ Kept(AfterPress(m))
BY DEF AfterPress, Motes, Held, Kept, Type

(* Starting or stopping the module touches no buffer.                      *)
LEMMA SwitchMote ==
  ASSUME NEW m \in Motes, NEW b \in BOOLEAN, NEW n
  PROVE  /\ [m EXCEPT !.started = b] \in Motes
         /\ Held([m EXCEPT !.started = b], n) = Held(m, n)
         /\ Kept(m) => Kept([m EXCEPT !.started = b])
BY DEF Motes, Held, Kept

----------------------------------------------------------------------------
(* handle_reception().                                                     *)

LEMMA ReceptionMote ==
  ASSUME NEW m \in Motes, NEW x \in Sender, NEW ty \in Type
  PROVE  /\ AfterReception(m, x, ty) \in Motes
         /\ Kept(m) => Kept(AfterReception(m, x, ty))
<1>1. m.own \in Buffer /\ m.resp \in Buffer
  BY DEF Motes
<1>2. Put(m.own, x) \in Buffer /\ Put(m.resp, x) \in Buffer
  BY <1>1, PutType
<1> QED BY <1>1, <1>2 DEF AfterReception, Motes, Kept, IsOwn, IsAnswer, Type

LEMMA ReceptionHeld ==
  ASSUME NEW m \in Motes, NEW x \in Sender, NEW ty \in Type, NEW n
  PROVE  /\ Count(ReportedBy(m, x, ty), n) \in Int
         /\ Held(AfterReception(m, x, ty), n)
              = Held(m, n) + (IF m.started /\ ty # REQUEST /\ x = n THEN 1 ELSE 0)
                - Count(ReportedBy(m, x, ty), n)
<1>1. m.own \in Buffer /\ m.resp \in Buffer
  BY DEF Motes
<1>2. Count(m.own, n) \in Nat /\ Count(m.resp, n) \in Nat
  BY <1>1, CountType DEF Buffer
<1>3. Count(<<>>, n) = 0
  BY CountEmpty
<1>4. CASE ~ m.started
  BY <1>2, <1>3, <1>4 DEF AfterReception, ReportedBy, Held
<1>5. CASE m.started /\ IsOwn(m, ty)
  <2>1. ty # REQUEST
    BY <1>5 DEF IsOwn, SIMPLE, REQUEST, RESPONSE
  <2>2. /\ AfterReception(m, x, ty).own = Put(m.own, x)
        /\ AfterReception(m, x, ty).resp = m.resp
        /\ ReportedBy(m, x, ty) = Full(m.own, x)
    BY <1>5 DEF AfterReception, ReportedBy, Motes
  <2>3. Count(Full(m.own, x), n) \in Nat
    BY <1>1, PutType, CountType
  <2>4. Count(Put(m.own, x), n)
          = Count(m.own, n) + (IF x = n THEN 1 ELSE 0) - Count(Full(m.own, x), n)
    BY <1>1, PutCount
  <2> QED BY <1>2, <1>5, <2>1, <2>2, <2>3, <2>4 DEF Held
<1>6. CASE m.started /\ ~ IsOwn(m, ty) /\ IsAnswer(m, ty)
  <2>1. ty # REQUEST
    BY <1>6 DEF IsAnswer, REQUEST, RESPONSE
  <2>2. /\ AfterReception(m, x, ty).own = m.own
        /\ AfterReception(m, x, ty).resp = Put(m.resp, x)
        /\ ReportedBy(m, x, ty) = Full(m.resp, x)
    BY <1>6 DEF AfterReception, ReportedBy, Motes
  <2>3. Count(Full(m.resp, x), n) \in Nat
    BY <1>1, PutType, CountType
  <2>4. Count(Put(m.resp, x), n)
          = Count(m.resp, n) + (IF x = n THEN 1 ELSE 0) - Count(Full(m.resp, x), n)
    BY <1>1, PutCount
  <2> QED BY <1>2, <1>6, <2>1, <2>2, <2>3, <2>4 DEF Held
<1>7. CASE m.started /\ ~ IsOwn(m, ty) /\ ~ IsAnswer(m, ty)
  <2>1. ty = REQUEST
    BY <1>7 DEF IsOwn, IsAnswer, Type, Motes
  <2>2. /\ AfterReception(m, x, ty).own = m.own
        /\ AfterReception(m, x, ty).resp = m.resp
        /\ ReportedBy(m, x, ty) = <<>>
    BY <1>7 DEF AfterReception, ReportedBy, Motes
  <2> QED BY <1>2, <1>3, <2>1, <2>2 DEF Held
<1> QED BY <1>4, <1>5, <1>6, <1>7

----------------------------------------------------------------------------
(* The packets.                                                            *)

LEMMA QueueType ==
  ASSUME NEW q \in Seq(Type), Len(q) <= OutCap, NEW p \in Type
  PROVE  Enqueue(q, p) \in Seq(Type) /\ Len(Enqueue(q, p)) <= OutCap
BY GeolocAssumption DEF Enqueue

LEMMA BeaconQueue ==
  ASSUME NEW q \in Seq(Type), Len(q) <= OutCap, NEW m \in Motes, NEW E \in SUBSET Timer
  PROVE  /\ EnqueueAll(q, Beacons(m, E)) \in Seq(Type)
         /\ Len(EnqueueAll(q, Beacons(m, E))) <= OutCap
<1>1. m.type \in Type
  BY DEF Motes
<1>2. EnqueueAll(q, Beacons(m, E)) \in {q, Enqueue(q, m.type)}
  BY DEF EnqueueAll, Beacons
<1> QED BY <1>1, <1>2, QueueType

----------------------------------------------------------------------------
(* The steps.                                                              *)

(* A step of one mote that leaves it m1, with q queued, having reported    *)
(* what it no longer holds.                                                *)
LEMMA LocalStep ==
  ASSUME GeolocInv, NEW s \in Sender, NEW E \in SUBSET Timer,
         NEW m1 \in Motes, Kept(m1),
         \A n \in Sender : Held(m1, n) = Held(mote[s], n) - PaidAt(mote[s], E, n),
         mote' = [mote EXCEPT ![s] = m1],
         NEW q \in Seq(Type), Len(q) <= OutCap,
         outq' = [outq EXCEPT ![s] = q],
         Pay(s, mote[s], E),
         presses' \in 0..MaxPresses
  PROVE  GeolocInv'
<1>1. mote' \in [Sender -> Motes]
  BY DEF GeolocInv, TypeOK
<1>2. outq' \in [Sender -> Seq(Type)] /\ \A t \in Sender : Len(outq'[t]) <= OutCap
  BY DEF GeolocInv, TypeOK
<1>3. \A n \in Sender : PaidAt(mote[s], E, n) \in Int
  BY CheckHeld DEF GeolocInv, TypeOK
<1>4. owed' \in [Sender -> [Sender -> Int]]
  BY <1>3 DEF GeolocInv, TypeOK, Pay
<1>5. TypeOK'
  BY <1>1, <1>2, <1>4 DEF TypeOK
<1>6. ASSUME NEW t \in Sender, NEW n \in Sender
      PROVE  owed'[t][n] = Held(mote'[t], n)
  <2>1. owed[t][n] = Held(mote[t], n)
    BY DEF GeolocInv, Conserved, Held
  <2>2. CASE t = s
    <3>1. owed'[s][n] = owed[s][n] - PaidAt(mote[s], E, n)
      BY DEF Pay, GeolocInv, TypeOK
    <3>2. mote'[s] = m1
      BY DEF GeolocInv, TypeOK
    <3> QED BY <2>1, <2>2, <3>1, <3>2
  <2>3. CASE t # s
    <3>1. owed'[t] = owed[t] /\ mote'[t] = mote[t]
      BY <2>3 DEF Pay, GeolocInv, TypeOK
    <3> QED BY <2>1, <3>1
  <2> QED BY <2>2, <2>3
<1>7. Conserved'
  BY <1>6 DEF Conserved, Held
<1>8. \A t \in Sender : Kept(mote'[t])
  BY DEF GeolocInv, TypeOK, AnswersKept, Kept
<1>9. AnswersKept'
  BY <1>8 DEF AnswersKept, Kept
<1> QED BY <1>5, <1>7, <1>9 DEF GeolocInv

LEMMA TransmitStep ==
  ASSUME GeolocInv, NEW n \in Sender, NEW R \in SUBSET Hearers(n), Transmit(n, R)
  PROVE  GeolocInv'
<1> DEFINE ty == Head(outq[n])
           After(s) == IF s \in R THEN AfterReception(mote[s], n, ty) ELSE mote[s]
           Gain(s, x) == IF s \in R /\ mote[s].started /\ ty # REQUEST /\ x = n THEN 1 ELSE 0
           Paid(s, x) == IF s \in R THEN Count(ReportedBy(mote[s], n, ty), x) ELSE 0
<1>1. ty \in Type /\ outq[n] \in Seq(Type) /\ outq[n] # <<>>
  BY DEF GeolocInv, TypeOK, Transmit
<1>2. R \subseteq Sender /\ \A s \in Sender : mote[s] \in Motes
  BY DEF Hearers, GeolocInv, TypeOK
<1>3. mote' = [s \in Sender |-> After(s)]
  BY DEF Transmit
<1>4. ASSUME NEW s \in Sender
      PROVE  After(s) \in Motes /\ Kept(After(s))
  BY <1>1, <1>2, ReceptionMote DEF GeolocInv, AnswersKept, Kept
<1>5. ASSUME NEW s \in Sender, NEW x \in Sender
      PROVE  /\ Paid(s, x) \in Int
             /\ Held(mote[s], x) \in Int
             /\ Held(After(s), x) = Held(mote[s], x) + Gain(s, x) - Paid(s, x)
  <2>1. mote[s].own \in Seq(Sender) /\ mote[s].resp \in Seq(Sender)
    BY <1>2 DEF Motes, Buffer
  <2>2. Held(mote[s], x) \in Int
    BY <2>1, CountType DEF Held
  <2>3. CASE s \in R
    <3>1. /\ Count(ReportedBy(mote[s], n, ty), x) \in Int
          /\ Held(AfterReception(mote[s], n, ty), x)
               = Held(mote[s], x)
                 + (IF mote[s].started /\ ty # REQUEST /\ n = x THEN 1 ELSE 0)
                 - Count(ReportedBy(mote[s], n, ty), x)
      BY <1>1, <1>2, ReceptionHeld
    <3> QED BY <2>2, <2>3, <3>1
  <2>4. CASE s \notin R
    BY <2>2, <2>4
  <2> QED BY <2>3, <2>4
<1>6. owed' = [s \in Sender |-> [x \in Sender |-> owed[s][x] + Gain(s, x) - Paid(s, x)]]
  BY DEF Transmit
<1>7. mote' \in [Sender -> Motes]
  BY <1>3, <1>4
<1>8. ASSUME NEW s \in Sender
      PROVE  outq'[s] \in Seq(Type) /\ Len(outq'[s]) <= OutCap
  <2>1. outq[s] \in Seq(Type) /\ Len(outq[s]) <= OutCap
    BY DEF GeolocInv, TypeOK
  <2>2. Enqueue(outq[s], RESPONSE) \in Seq(Type) /\ Len(Enqueue(outq[s], RESPONSE)) <= OutCap
    BY <2>1, QueueType DEF Type
  <2>3. Tail(outq[n]) \in Seq(Type) /\ (s = n => Len(Tail(outq[n])) <= OutCap)
    BY <1>1, <2>1, GeolocAssumption
  <2>4. outq'[s] = IF s = n THEN Tail(outq[n])
                   ELSE IF s \in R /\ Answers(mote[s], ty) THEN Enqueue(outq[s], RESPONSE)
                   ELSE outq[s]
    BY DEF Transmit
  <2> QED BY <2>1, <2>2, <2>3, <2>4
<1>9. outq' \in [Sender -> Seq(Type)]
  <2> DEFINE Queue(s) == IF s = n THEN Tail(outq[n])
                         ELSE IF s \in R /\ Answers(mote[s], ty) THEN Enqueue(outq[s], RESPONSE)
                         ELSE outq[s]
  <2>1. outq' = [s \in Sender |-> Queue(s)]
    BY DEF Transmit
  <2>2. \A s \in Sender : outq'[s] = Queue(s)
    BY <2>1
  <2>3. \A s \in Sender : Queue(s) \in Seq(Type)
    BY <1>8, <2>2
  <2> HIDE DEF Queue
  <2> QED BY <2>1, <2>3
<1>10. \A s \in Sender : \A x \in Sender : owed[s][x] + Gain(s, x) - Paid(s, x) \in Int
  <2>1. \A s, x \in Sender : owed[s][x] \in Int
    BY DEF GeolocInv, TypeOK
  <2>2. \A s, x \in Sender : Gain(s, x) \in Int /\ Paid(s, x) \in Int
    BY <1>5
  <2> HIDE DEF Gain, Paid
  <2> QED BY <2>1, <2>2
<1>11. owed' \in [Sender -> [Sender -> Int]]
  BY <1>6, <1>10
<1>12. TypeOK'
  BY <1>7, <1>8, <1>9, <1>11 DEF TypeOK, GeolocInv, Transmit
<1>13. ASSUME NEW s \in Sender, NEW x \in Sender
       PROVE  owed'[s][x] = Held(mote'[s], x)
  <2>1. owed[s][x] = Held(mote[s], x)
    BY DEF GeolocInv, Conserved, Held
  <2>2. owed'[s][x] = owed[s][x] + Gain(s, x) - Paid(s, x)
    BY <1>6
  <2>3. mote'[s] = After(s)
    BY <1>3
  <2> HIDE DEF After, Gain, Paid
  <2> QED BY <1>5, <2>1, <2>2, <2>3
<1>14. Conserved'
  BY <1>13 DEF Conserved, Held
<1>15. AnswersKept'
  BY <1>3, <1>4 DEF AnswersKept, Kept
<1> QED BY <1>12, <1>14, <1>15 DEF GeolocInv

LEMMA GeolocStep ==
  ASSUME GeolocInv, [Next]_vars
  PROVE  GeolocInv'
<1>1. ASSUME NEW s \in Sender
      PROVE  mote[s] \in Motes /\ Kept(mote[s]) /\ outq[s] \in Seq(Type) /\ Len(outq[s]) <= OutCap
  BY DEF GeolocInv, TypeOK, AnswersKept, Kept
<1>2. ASSUME NEW s \in Sender, NEW E \in SUBSET Timer
      PROVE  /\ AfterCheck(mote[s], E) \in Motes
             /\ Kept(AfterCheck(mote[s], E))
             /\ \A n \in Sender :
                  Held(AfterCheck(mote[s], E), n) = Held(mote[s], n) - PaidAt(mote[s], E, n)
  BY <1>1, CheckMote, CheckHeld, CheckKept
<1>3. ASSUME NEW s \in Sender, NEW E \in SUBSET Timer
      PROVE  /\ EnqueueAll(outq[s], Beacons(mote[s], E)) \in Seq(Type)
             /\ Len(EnqueueAll(outq[s], Beacons(mote[s], E))) <= OutCap
  BY <1>1, BeaconQueue
<1>4. ASSUME NEW s \in Sender, NEW E \in SUBSET Timer, Check(s, E)
      PROVE  GeolocInv'
  <2>1. PICK m1, q : /\ m1 = AfterCheck(mote[s], E)
                     /\ q = EnqueueAll(outq[s], Beacons(mote[s], E))
    OBVIOUS
  <2>2. mote' = [mote EXCEPT ![s] = m1] /\ outq' = [outq EXCEPT ![s] = q]
    BY <1>4, <2>1 DEF Check
  <2>3. m1 \in Motes /\ Kept(m1) /\ q \in Seq(Type) /\ Len(q) <= OutCap
    BY <1>2, <1>3, <2>1
  <2>4. \A n \in Sender : Held(m1, n) = Held(mote[s], n) - PaidAt(mote[s], E, n)
    BY <1>2, <2>1
  <2>5. Pay(s, mote[s], E) /\ presses' \in 0..MaxPresses
    BY <1>4 DEF Check, GeolocInv, TypeOK
  <2> QED BY <2>2, <2>3, <2>4, <2>5, LocalStep
<1>5. ASSUME NEW s \in Sender, NEW E \in SUBSET Timer, Press(s, E)
      PROVE  GeolocInv'
  <2>1. PICK m1, q : /\ m1 = AfterPress(AfterCheck(mote[s], E))
                     /\ q = Enqueue(EnqueueAll(outq[s], Beacons(mote[s], E)), REQUEST)
    OBVIOUS
  <2>2. mote' = [mote EXCEPT ![s] = m1] /\ outq' = [outq EXCEPT ![s] = q]
    BY <1>5, <2>1 DEF Press
  <2>3. m1 \in Motes /\ Kept(m1)
    BY <1>2, <2>1, PressMote
  <2>4. q \in Seq(Type) /\ Len(q) <= OutCap
    BY <1>3, <2>1, QueueType DEF Type
  <2>5. \A n \in Sender : Held(m1, n) = Held(mote[s], n) - PaidAt(mote[s], E, n)
    BY <1>2, <2>1, PressMote
  <2>6. Pay(s, mote[s], E) /\ presses' \in 0..MaxPresses
    BY <1>5, GeolocAssumption DEF Press, GeolocInv, TypeOK
  <2> QED BY <2>2, <2>3, <2>4, <2>5, <2>6, LocalStep
<1>6. ASSUME NEW s \in Sender, NEW E \in SUBSET Timer, StartModule(s, E)
      PROVE  GeolocInv'
  <2>1. PICK m1, q : /\ m1 = [AfterCheck(mote[s], E) EXCEPT !.started = TRUE]
                     /\ q = EnqueueAll(outq[s], Beacons(mote[s], E))
    OBVIOUS
  <2>2. mote' = [mote EXCEPT ![s] = m1] /\ outq' = [outq EXCEPT ![s] = q]
    BY <1>6, <2>1 DEF StartModule
  <2>3. m1 \in Motes /\ Kept(m1) /\ q \in Seq(Type) /\ Len(q) <= OutCap
    BY <1>2, <1>3, <2>1, SwitchMote
  <2>4. ASSUME NEW n \in Sender
        PROVE  Held(m1, n) = Held(mote[s], n) - PaidAt(mote[s], E, n)
    <3>1. Held(m1, n) = Held(AfterCheck(mote[s], E), n)
      BY <1>2, <2>1, SwitchMote
    <3> QED BY <1>2, <3>1
  <2>5. Pay(s, mote[s], E) /\ presses' \in 0..MaxPresses
    BY <1>6 DEF StartModule, GeolocInv, TypeOK
  <2> QED BY <2>2, <2>3, <2>4, <2>5, LocalStep
<1>7. ASSUME NEW s \in Sender, StopModule(s)
      PROVE  GeolocInv'
  <2>1. PICK m1 : m1 = [mote[s] EXCEPT !.started = FALSE]
    OBVIOUS
  <2>2. mote' = [mote EXCEPT ![s] = m1]
    BY <1>7, <2>1 DEF StopModule
  <2>3. m1 \in Motes /\ Kept(m1) /\ \A n \in Sender : Held(m1, n) = Held(mote[s], n)
    BY <1>1, <2>1, SwitchMote
  <2>4. \A t \in Sender : mote'[t] = IF t = s THEN m1 ELSE mote[t]
    BY <2>2 DEF GeolocInv, TypeOK
  <2>5. \A t, n \in Sender : owed'[t][n] = Held(mote'[t], n)
    BY <1>7, <2>3, <2>4 DEF StopModule, GeolocInv, Conserved, Held
  <2>6. Conserved'
    BY <2>5 DEF Conserved, Held
  <2>7. AnswersKept'
    BY <1>1, <2>3, <2>4 DEF AnswersKept, Kept
  <2>8. mote' \in [Sender -> Motes]
    BY <2>2, <2>3 DEF GeolocInv, TypeOK
  <2>9. TypeOK'
    BY <1>7, <2>8 DEF StopModule, GeolocInv, TypeOK
  <2> QED BY <2>6, <2>7, <2>9 DEF GeolocInv
<1>8. CASE UNCHANGED vars
  BY <1>8 DEF vars, GeolocInv, TypeOK, Conserved, AnswersKept
<1> QED BY <1>4, <1>5, <1>6, <1>7, <1>8, TransmitStep DEF Next

LEMMA GeolocStart ==
  ASSUME Init
  PROVE  GeolocInv
<1>1. MoteBoot \in Motes
  BY GeolocAssumption DEF MoteBoot, Motes, Buffer, Type
<1>2. mote \in [Sender -> Motes]
  BY <1>1 DEF Init
<1>3. TypeOK
  BY <1>2, GeolocAssumption DEF Init, TypeOK
<1>4. \A n \in Sender : Count(<<>>, n) = 0
  BY CountEmpty
<1>5. Conserved
  BY <1>4 DEF Init, Conserved, MoteBoot
<1>6. AnswersKept
  BY DEF Init, AnswersKept, MoteBoot
<1> QED BY <1>3, <1>5, <1>6 DEF GeolocInv

THEOREM GeolocInvariant == Spec => []GeolocInv
<1>1. Init => GeolocInv
  BY GeolocStart
<1>2. GeolocInv /\ [Next]_vars => GeolocInv'
  BY GeolocStep
<1> QED BY <1>1, <1>2, PTL DEF Spec

(* The buffers of geolocation.c never overflow, and every variable keeps   *)
(* its type, for any motes, topology and buffer sizes.                     *)
THEOREM GeolocTypeCorrect == Spec => []TypeOK
<1>1. GeolocInv => TypeOK
  BY DEF GeolocInv
<1> QED BY <1>1, GeolocInvariant, PTL

(* Every pair a mote hears while the module runs is reported once or still *)
(* in one of its two buffers.                                              *)
THEOREM GeolocConserved == Spec => []Conserved
<1>1. GeolocInv => Conserved
  BY DEF GeolocInv
<1> QED BY <1>1, GeolocInvariant, PTL

(* No answer outlives the request it answers.                              *)
THEOREM GeolocAnswersKept == Spec => []AnswersKept
<1>1. GeolocInv => AnswersKept
  BY DEF GeolocInv
<1> QED BY <1>1, GeolocInvariant, PTL
=============================================================================
