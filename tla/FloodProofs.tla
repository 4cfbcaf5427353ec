----------------------------- MODULE FloodProofs -----------------------------
(***************************************************************************)
(* The flooding of commands when nothing is lost: it reaches everyone, in  *)
(* the same order and with the same effect, over resets, for every set of  *)
(* senders, every topology that connects them and every number of lines.   *)
(***************************************************************************)
EXTENDS DisseminationProofs, FiniteSetTheorems

----------------------------------------------------------------------------
(* What is assumed of the network, and the invariant.                      *)

(* Every sender can be reached from a sink, over one hop or several.       *)
Reached ==
    \A C \in SUBSET Node :
        Sink \subseteq C /\ (\A n \in C : Hearers(n) \subseteq C) => Sender \subseteq C

(* The lines in a queue, in the order of the log.                          *)
Lines(q) == {q[a] : a \in DOMAIN q}
Climbs(q) == \A a, b \in DOMAIN q : a < b => q[a] <= q[b]

Waiting(n) == Lines(outq[n])

(* The sink has read r lines, the last reset of which is line e.           *)
Era(r, e) ==
    /\ r \in 0..Len(log) /\ e \in 0..r
    /\ e # 0 => log[e].kind = "RESET_CVN"
    /\ Plain(log, e + 1, r)

VersionAt(r) ==
    IF r = 0 THEN 0 ELSE IF log[r].kind = "RESET_CVN" THEN 0 ELSE log[r].cvn

Reading(r) ==
    \A k \in Sink :
        /\ Len(serial[k]) = Len(log) - r
        /\ \A a \in 1..Len(serial[k]) : serial[k][a] = r + a
        /\ sink[k].ccvn = VersionAt(r)

(* What is on the air; what a sender repeats, it has run.                  *)
Queued(r, e) ==
    /\ \A n \in Node : Climbs(outq[n])
    /\ \A n \in Node : \A i \in Waiting(n) : i \in e..r /\ log[i].kind \in Repeated
    /\ \A s \in Sender : \A i \in Waiting(s) : i <= done[s] /\ Runs(log[i])

(* A command without its argument comes from a sink.                       *)
Heard(r) ==
    \A s \in Sender :
        /\ done[s] <= r
        /\ \/ done[s] = 0
           \/ Runs(log[done[s]])
           \/ log[done[s]].kind \in Repeated /\ \E k \in Sink : s \in Hearers(k)

(* A sender with a version repeats the next reset.                         *)
Unrepeated == \A s \in Sender : mote[s].ccvn > 0 => mote[s].counter["RESET_CVN"] = 0

(* What a mote multicasts, those who hear it run, or will hear.            *)
Spread(r, e) ==
    \A n \in Node : \A s \in Hearers(n) : \A i \in (e + 1)..r :
        Runs(log[i]) /\ (n \in Sender => i <= done[n]) => i <= done[s] \/ i \in Waiting(n)

(* The sender has seen reset e, or had no use for it.                      *)
Fresh(s, e) == mote[s].ccvn = 0 \/ done[s] > e

Coming(e, n, s) ==
    e \in Waiting(n) \/ \E k \in Sink : s \in Hearers(k) /\ e \in Waiting(k)

Resets(r, e) ==
    /\ r > e => \A s \in Sender : Fresh(s, e)
    /\ e > 0 => \A n \in Node : \A s \in Hearers(n) :
                   (n \in Sender => Fresh(n, e)) => Fresh(s, e) \/ Coming(e, n, s)

(* Before the last reset everyone had run what there was.                  *)
Past(e) == \A s \in Sender : \A i \in 1..(e - 1) : i <= done[s] \/ Useless(s, i)

Flood(r, e) ==
    /\ Era(r, e) /\ Reading(r) /\ Queued(r, e) /\ Heard(r) /\ Unrepeated
    /\ Spread(r, e) /\ Resets(r, e) /\ Past(e)

FloodInv == ApartInv /\ Ends(log) /\ \E r, e \in Nat : Flood(r, e)

----------------------------------------------------------------------------
(* Queues.                                                                 *)

LEMMA LinesAppend ==
    ASSUME NEW n \in Nat, NEW q \in Seq(1..n), NEW i \in 1..n,
           Climbs(q), \A j \in Lines(q) : j <= i
    PROVE  /\ Climbs(Append(q, i))
           /\ Lines(Append(q, i)) = Lines(q) \cup {i}
<1> DEFINE p == Append(q, i)
<1>1. /\ Len(q) \in Nat /\ DOMAIN q = 1..Len(q) /\ DOMAIN p = 1..(Len(q) + 1)
      /\ p[Len(q) + 1] = i /\ \A a \in 1..Len(q) : p[a] = q[a]
    OBVIOUS
<1>2. \A a \in 1..Len(q) : q[a] \in Lines(q)
    BY <1>1 DEF Lines
<1> HIDE DEF p
<1>3. \A a \in DOMAIN p : a = Len(q) + 1 \/ a \in 1..Len(q)
    BY <1>1
<1>4. Climbs(p)
    <2> SUFFICES ASSUME NEW a \in DOMAIN p, NEW b \in DOMAIN p, a < b
                 PROVE  p[a] <= p[b]
        BY DEF Climbs
    <2>1. a \in 1..Len(q)
        BY <1>1
    <2>2. CASE b = Len(q) + 1
        BY <1>1, <1>2, <2>1, <2>2
    <2>3. CASE b \in 1..Len(q)
        BY <1>1, <2>1, <2>3 DEF Climbs
    <2> QED
        BY <1>3, <2>2, <2>3
<1>5. Lines(p) = Lines(q) \cup {i}
    <2>1. \A j \in Lines(p) : j \in Lines(q) \cup {i}
        BY <1>1, <1>2, <1>3 DEF Lines
    <2>2. \A j \in Lines(q) : j \in Lines(p)
        BY <1>1 DEF Lines
    <2>3. i \in Lines(p)
        BY <1>1 DEF Lines
    <2> QED
        BY <2>1, <2>2, <2>3
<1> QED
    BY <1>4, <1>5 DEF p

LEMMA LinesTail ==
    ASSUME NEW n \in Nat, NEW q \in Seq(1..n), q # <<>>, Climbs(q)
    PROVE  /\ Climbs(Tail(q))
           /\ Head(q) \in 1..n
           /\ Lines(q) = Lines(Tail(q)) \cup {Head(q)}
           /\ \A j \in Lines(q) : Head(q) <= j
<1> DEFINE p == Tail(q)
<1>1. /\ Len(q) \in Nat \ {0} /\ DOMAIN q = 1..Len(q) /\ Head(q) = q[1]
      /\ DOMAIN p = 1..(Len(q) - 1)
      /\ \A a \in 1..(Len(q) - 1) : p[a] = q[a + 1]
      /\ Head(q) \in 1..n
    OBVIOUS
<1> HIDE DEF p
<1>2. Climbs(p)
    <2> SUFFICES ASSUME NEW a \in DOMAIN p, NEW b \in DOMAIN p, a < b
                 PROVE  p[a] <= p[b]
        BY DEF Climbs
    <2>1. a + 1 \in DOMAIN q /\ b + 1 \in DOMAIN q /\ a + 1 < b + 1
        BY <1>1
    <2>2. q[a + 1] <= q[b + 1]
        BY <2>1 DEF Climbs
    <2> QED
        BY <1>1, <2>2
<1>3. ASSUME NEW a \in DOMAIN q
      PROVE  Head(q) <= q[a] /\ (q[a] = Head(q) \/ q[a] \in Lines(p))
    <2>1. CASE a = 1
        BY <1>1, <2>1
    <2>2. CASE a # 1
        <3>1. a - 1 \in DOMAIN p /\ p[a - 1] = q[a] /\ 1 < a /\ 1 \in DOMAIN q
            BY <1>1, <2>2
        <3>2. Head(q) <= q[a]
            BY <1>1, <3>1 DEF Climbs
        <3>3. q[a] \in Lines(p)
            BY <3>1 DEF Lines
        <3> QED
            BY <3>2, <3>3
    <2> QED
        BY <2>1, <2>2
<1>4. \A a \in DOMAIN p : p[a] \in Lines(q)
    <2> SUFFICES ASSUME NEW a \in DOMAIN p PROVE p[a] \in Lines(q)
        OBVIOUS
    <2>1. a + 1 \in DOMAIN q /\ p[a] = q[a + 1]
        BY <1>1
    <2> QED
        BY <2>1 DEF Lines
<1>5. Head(q) \in Lines(q)
    <2>1. 1 \in DOMAIN q /\ Head(q) = q[1]
        BY <1>1
    <2> QED
        BY <2>1 DEF Lines
<1>6. Lines(q) = Lines(p) \cup {Head(q)}
    <2>1. \A j \in Lines(q) : j \in Lines(p) \cup {Head(q)}
        BY <1>3 DEF Lines
    <2>2. \A j \in Lines(p) : j \in Lines(q)
        BY <1>4 DEF Lines
    <2> QED
        BY <1>5, <2>1, <2>2
<1>7. \A j \in Lines(q) : Head(q) <= j
    BY <1>3 DEF Lines
<1> QED
    BY <1>1, <1>2, <1>6, <1>7 DEF p

LEMMA WaitingIds ==
    ASSUME TypeOK, NEW n \in Node, NEW i \in Waiting(n)
    PROVE  i \in Id /\ i \in InFlight
<1>1. PICK a \in DOMAIN outq[n] : i = outq[n][a]
    BY DEF Waiting, Lines
<1>2. i \in InFlight
    BY <1>1, OnAir
<1> QED
    BY <1>2, AirIds

(* What a mote without buffer shortage does with the first of its queue.   *)
Delivers(n, i) ==
    /\ i = Head(outq[n])
    /\ \A s \in Sender :
          /\ mote'[s] = IF s \in Hearers(n) THEN SenderAfter(mote[s], log[i]) ELSE mote[s]
          /\ done'[s] = IF s \in Hearers(n) /\ SenderAccepts(mote[s], log[i]) THEN i ELSE done[s]
    /\ \A x \in Node \ {n} :
          outq'[x] = IF x \in Hearers(n) /\ SenderForwards(mote[x], log[i])
                     THEN Append(outq[x], i) ELSE outq[x]
    /\ outq'[n] = Tail(outq[n])
    /\ outq[n] # <<>>
    /\ UNCHANGED <<log, scvn, serial, sink>>

LEMMA Delivery ==
    ASSUME TypeOK, Room, NEW n \in Node, Transmit(n, Hearers(n))
    PROVE  \E i \in Id : Delivers(n, i) /\ n \notin Hearers(n)
<1>0. Hearers(n) \in SUBSET Hearers(n) /\ Hearers(n) \subseteq Sender
    BY DEF Hearers
<1>1. PICK i \in Id : i = Head(outq[n])
    BY <1>0, TransmitId
<1>2. n \notin Hearers(n)
    BY DisseminationAssumption DEF Hearers
<1>3. \A s \in Sender :
          /\ mote'[s] = IF s \in Hearers(n) THEN SenderAfter(mote[s], log[i]) ELSE mote[s]
          /\ done'[s] = IF s \in Hearers(n) /\ SenderAccepts(mote[s], log[i]) THEN i ELSE done[s]
    BY <1>1 DEF Transmit
<1>4. \A x \in Node : outq'[x] = IF x = n THEN Tail(outq[n])
                      ELSE IF x \in Sender /\ x \in Hearers(n) /\ SenderForwards(mote[x], log[i])
                           THEN Enqueue(outq[x], i)
                      ELSE outq[x]
    BY <1>1 DEF Transmit
<1>5. \A x \in Node : Enqueue(outq[x], i) = Append(outq[x], i)
    BY DEF Room, Enqueue
<1>6. outq[n] # <<>> /\ UNCHANGED <<log, scvn, serial, sink>>
    BY DEF Transmit
<1>7. Delivers(n, i)
    BY <1>0, <1>1, <1>3, <1>4, <1>5, <1>6 DEF Delivers
<1> QED
    BY <1>2, <1>7

----------------------------------------------------------------------------
(* What a sender does with a line of the log.                              *)

LEMMA LineFacts ==
    ASSUME ApartInv, Ends(log), NEW i \in Id
    PROVE  /\ log[i] \in Line
           /\ log[i].cvn \in 1..CvnMax
           /\ U16(log[i].cvn) = log[i].cvn
           /\ IF log[i].kind = "RESET_CVN" THEN log[i].cvn = CvnMax ELSE log[i].cvn < CvnMax
<1>1. log[i].cvn \in 1..CvnMax
    BY DEF ApartInv, Sorted, Id
<1>2. log[i].cvn \in 0..CvnMax
    BY <1>1, HandlersAssumption
<1> QED
    BY <1>1, <1>2, U16Id, LineOf DEF ApartInv, Ends, Id

LEMMA VersionBefore ==
    ASSUME ApartInv, Ends(log), NEW r \in Nat, NEW e \in Nat, Era(r, e),
           NEW s \in Sender, NEW i \in Id, i \in e..r, done[s] <= i,
           i > e => Fresh(s, e)
    PROVE  /\ SenderAccepts(mote[s], log[i])
           /\ done[s] < i => mote[s].ccvn < U16(log[i].cvn)
<1>1. /\ log[i].cvn \in 1..CvnMax /\ U16(log[i].cvn) = log[i].cvn /\ CvnMax \in Nat
      /\ log[i].kind = "RESET_CVN" => log[i].cvn = CvnMax
      /\ done[s] \in Nat /\ i \in Nat /\ i <= Len(log) /\ Len(log) \in Nat /\ i # 0
      /\ \A j \in Id : log[j].kind # "RESET_CVN" => log[j].cvn \in 1..CvnMax /\ log[j].cvn < CvnMax
    BY LineFacts, HandlersAssumption DEF ApartInv, TypeOK, Id
<1>2. done[s] # 0 => done[s] \in Id
    BY <1>1 DEF Id
<1>3. mote[s].ccvn = 0 \/ (/\ done[s] \in Id /\ log[done[s]].kind # "RESET_CVN"
                           /\ mote[s].ccvn = log[done[s]].cvn)
    BY <1>2 DEF ApartInv, Ran
<1>4. CASE i = e
    <2>1. log[i].cvn = CvnMax
        BY <1>1, <1>4 DEF Era
    <2>2. mote[s].ccvn \in Nat /\ mote[s].ccvn < CvnMax
        BY <1>1, <1>3, HandlersAssumption
    <2> QED
        BY <1>1, <2>1, <2>2 DEF SenderAccepts
<1>5. CASE i > e /\ mote[s].ccvn = 0
    BY <1>1, <1>5 DEF SenderAccepts
<1>6. CASE i > e /\ mote[s].ccvn # 0
    <2>1. done[s] > e /\ done[s] \in Id /\ mote[s].ccvn = log[done[s]].cvn
        BY <1>3, <1>6 DEF Fresh
    <2>2. done[s] < i => Plain(log, done[s], i)
        BY <1>1, <2>1 DEF Era, Plain
    <2>3. done[s] < i => log[done[s]].cvn < log[i].cvn
        BY <2>1, <2>2 DEF ApartInv, Sorted, Id
    <2>4. log[done[s]].cvn \in Int
        BY <1>1, <2>1, LineFacts
    <2> QED
        BY <1>1, <2>1, <2>3, <2>4 DEF SenderAccepts
<1> QED
    BY <1>1, <1>4, <1>5, <1>6

LEMMA FirstForward ==
    ASSUME MaxRepeat >= 2, NEW m \in Senders, NEW l \in Line,
           SenderAccepts(m, l), m.ccvn < U16(l.cvn), Runs(l),
           l.kind = "RESET_CVN" => m.counter["RESET_CVN"] = 0
    PROVE  SenderForwards(m, l)
<1>1. l.kind \in Repeated
    BY DEF Runs, Repeated
<1>2. Cleared(m, l)[l.kind] = 0
    BY <1>1 DEF Cleared
<1>3. Counted(m, l) = 1
    BY <1>2, HandlersAssumption DEF Counted, Int8
<1> QED
    BY <1>3, HandlersAssumption DEF SenderForwards

LEMMA UnrepeatedAfter ==
    ASSUME NEW m \in Senders, NEW l \in Line, SenderAccepts(m, l),
           U16(l.cvn) = l.cvn, l.cvn \in 1..CvnMax,
           l.kind # "RESET_CVN" => l.cvn < CvnMax,
           m.ccvn > 0 => m.counter["RESET_CVN"] = 0,
           SenderAfter(m, l).ccvn > 0
    PROVE  SenderAfter(m, l).counter["RESET_CVN"] = 0
<1>1. CvnMax \in Nat /\ m.ccvn \in Nat /\ "RESET_CVN" \in Repeated
    BY HandlersAssumption DEF Senders, Repeated
<1>2. l.kind # "RESET_CVN"
    BY DEF SenderAfter
<1>3. Cleared(m, l)["RESET_CVN"] = 0
    <2>1. CASE m.ccvn < l.cvn
        BY <1>1, <1>2, <2>1 DEF Cleared
    <2>2. CASE ~ (m.ccvn < l.cvn)
        BY <1>1, <2>2 DEF Cleared
    <2> QED
        BY <2>1, <2>2
<1>4. Cleared(m, l) \in [Repeated -> Counter]
    BY ClearedType
<1>5. [Cleared(m, l) EXCEPT ![l.kind] = Counted(m, l)]["RESET_CVN"] = 0
    BY <1>1, <1>2, <1>3, <1>4
<1> QED
    BY <1>3, <1>5 DEF SenderAfter

----------------------------------------------------------------------------
(* When the air is empty.                                                  *)

LEMMA Arrived ==
    ASSUME Reached, ApartInv, NEW r \in Nat, NEW e \in Nat, Flood(r, e),
           \A n \in Node : Waiting(n) = {}
    PROVE  /\ \A s \in Sender : Fresh(s, e)
           /\ \A s \in Sender : \A i \in (e + 1)..r : Runs(log[i]) => i <= done[s]
<1>1. Sink \subseteq Node /\ Sink \cap Sender = {} /\ \A n \in Node : Hearers(n) \subseteq Node /\ Hearers(n) \subseteq Sender
    BY DisseminationAssumption DEF Node, Hearers
<1>2. ASSUME NEW i \in (e + 1)..r, Runs(log[i]) PROVE \A s \in Sender : i <= done[s]
    <2> DEFINE C == {n \in Node : n \in Sender => i <= done[n]}
    <2>1. Sink \subseteq C
        BY <1>1
    <2>2. \A n \in C : Hearers(n) \subseteq C
        BY <1>1, <1>2 DEF Flood, Spread
    <2>3. C \in SUBSET Node
        OBVIOUS
    <2> HIDE DEF C
    <2>4. Sender \subseteq C
        BY <2>1, <2>2, <2>3 DEF Reached
    <2> QED
        BY <2>4 DEF C
<1>3. CASE e > 0
    <2> DEFINE C == {n \in Node : n \in Sender => Fresh(n, e)}
    <2>1. Sink \subseteq C
        BY <1>1
    <2>2. \A n \in C : Hearers(n) \subseteq C
        BY <1>1, <1>3 DEF Flood, Resets, Coming
    <2>3. C \in SUBSET Node
        OBVIOUS
    <2> HIDE DEF C
    <2>4. Sender \subseteq C
        BY <2>1, <2>2, <2>3 DEF Reached
    <2>5. \A s \in Sender : Fresh(s, e)
        BY <2>4 DEF C
    <2> QED
        BY <1>2, <2>5
<1>4. CASE e = 0
    <2>1. \A s \in Sender : done[s] \in Nat
        BY DEF ApartInv, TypeOK
    <2>2. \A s \in Sender : Fresh(s, e)
        BY <1>4, <2>1 DEF ApartInv, Ran, Fresh
    <2> QED
        BY <1>2, <2>2
<1> QED
    BY <1>3, <1>4

(* Then everyone has run all it has a use for.                             *)
LEMMA Informed ==
    ASSUME Reached, ApartInv, NEW r \in Nat, NEW e \in Nat, Flood(r, e),
           \A n \in Node : Waiting(n) = {}, NEW s \in Sender, NEW i \in 1..r
    PROVE  i <= done[s] \/ Useless(s, i)
<1>1. done[s] \in Nat
    BY DEF ApartInv, TypeOK
<1>2. Fresh(s, e) /\ (\A j \in (e + 1)..r : Runs(log[j]) => j <= done[s])
    BY Arrived
<1>3. CASE i < e
    BY <1>3 DEF Flood, Past
<1>4. CASE i = e
    <2>1. log[i].kind = "RESET_CVN"
        BY <1>4 DEF Flood, Era
    <2> QED
        BY <1>1, <1>2, <1>4, <2>1 DEF Fresh, Useless
<1>5. CASE i > e
    BY <1>2, <1>5 DEF Useless
<1> QED
    BY <1>3, <1>4, <1>5

----------------------------------------------------------------------------
(* A packet reaches all who hear it.                                       *)

LEMMA HearLine ==
    ASSUME MaxRepeat >= 2, ApartInv, Ends(log), NEW r \in Nat, NEW e \in Nat, Flood(r, e),
           NEW n \in Node, NEW i \in Id, Delivers(n, i)
    PROVE  /\ i \in e..r /\ i \in Waiting(n)
           /\ n \in Sender => i <= done[n] /\ Runs(log[i])
           /\ \A j \in Waiting(n) : i <= j
           /\ \A s \in Hearers(n) :
                 /\ s \in Sender
                 /\ SenderAccepts(mote[s], log[i]) => done[s] <= i
                 /\ done[s] <= i => SenderAccepts(mote[s], log[i])
                 /\ Runs(log[i]) /\ done[s] <= i /\ ((i > e /\ done[s] < i) \/ (i = e /\ mote[s].ccvn > 0))
                      => SenderForwards(mote[s], log[i])
                 /\ \A j \in (e + 1)..r : done[s] < j /\ j < i => ~ Runs(log[j])
<1>1. outq[n] \in Seq(1..Len(log)) /\ Len(log) \in Nat /\ outq[n] # <<>> /\ i = Head(outq[n])
    BY DEF ApartInv, TypeOK, Id, Delivers
<1>2. i \in Waiting(n) /\ \A j \in Waiting(n) : i <= j
    BY <1>1, LinesTail DEF Waiting, Flood, Queued
<1>3. i \in e..r /\ (n \in Sender => i <= done[n] /\ Runs(log[i]))
    BY <1>2 DEF Flood, Queued
<1>4. i \in InFlight
    BY <1>2, WaitingIds DEF ApartInv
<1>5. Era(r, e)
    BY DEF Flood
<1>6. i > e => \A s \in Sender : Fresh(s, e)
    BY <1>3 DEF Flood, Resets
<1>7. ASSUME NEW s \in Hearers(n)
      PROVE  /\ s \in Sender
             /\ SenderAccepts(mote[s], log[i]) => done[s] <= i
             /\ done[s] <= i => SenderAccepts(mote[s], log[i])
             /\ Runs(log[i]) /\ done[s] <= i /\ ((i > e /\ done[s] < i) \/ (i = e /\ mote[s].ccvn > 0))
                  => SenderForwards(mote[s], log[i])
             /\ \A j \in (e + 1)..r : done[s] < j /\ j < i => ~ Runs(log[j])
    <2>1. s \in Sender
        BY DEF Hearers
    <2>2. SenderAccepts(mote[s], log[i]) => done[s] <= i
        BY <1>4, <2>1, ApartAccepts
    <2>3. done[s] <= i => /\ SenderAccepts(mote[s], log[i])
                          /\ done[s] < i => mote[s].ccvn < U16(log[i].cvn)
        BY <1>3, <1>5, <1>6, <2>1, VersionBefore
    <2>4. ASSUME Runs(log[i]), done[s] <= i,
                 (i > e /\ done[s] < i) \/ (i = e /\ mote[s].ccvn > 0)
          PROVE  SenderForwards(mote[s], log[i])
        <3>1. mote[s] \in Senders /\ mote[s].ccvn \in Nat /\ log[i] \in Line /\ done[s] \in Nat
            BY <2>1, LineFacts, HandlersAssumption DEF ApartInv, TypeOK, Senders
        <3>2. done[s] < i
            <4>1. i = e /\ done[s] = e => mote[s].ccvn = 0
                BY <1>5, <2>1 DEF ApartInv, Ran, Era
            <4> QED
                BY <2>4, <3>1, <4>1 DEF Id
        <3>3. log[i].kind = "RESET_CVN" => mote[s].counter["RESET_CVN"] = 0
            <4>1. i > e => log[i].kind # "RESET_CVN"
                BY <1>3, <1>5 DEF Era, Plain
            <4>2. mote[s].ccvn > 0 => mote[s].counter["RESET_CVN"] = 0
                BY <2>1 DEF Flood, Unrepeated
            <4> QED
                BY <2>4, <4>1, <4>2
        <3> QED
            BY <2>3, <2>4, <3>1, <3>2, <3>3, FirstForward
    <2>5. \A j \in (e + 1)..r : done[s] < j /\ j < i => ~ Runs(log[j])
        <3> SUFFICES ASSUME NEW j \in (e + 1)..r, done[s] < j, j < i, Runs(log[j])
                     PROVE  FALSE
            OBVIOUS
        <3>1. n \in Sender => j <= done[n]
            BY <1>3 DEF ApartInv, TypeOK, Id
        <3>2. j <= done[s] \/ j \in Waiting(n)
            BY <3>1 DEF Flood, Spread
        <3>3. done[s] \in Nat
            BY <2>1 DEF ApartInv, TypeOK
        <3> QED
            BY <1>2, <3>2, <3>3 DEF Id
    <2> QED
        BY <2>1, <2>2, <2>3, <2>4, <2>5
<1> QED
    BY <1>2, <1>3, <1>7

LEMMA QueueAfter ==
    ASSUME ApartInv, NEW r \in Nat, NEW e \in Nat, Flood(r, e),
           NEW n \in Node, NEW i \in Id, Delivers(n, i), NEW x \in Node, x # n
    PROVE  /\ x \in Hearers(n) /\ SenderForwards(mote[x], log[i])
                => Climbs(outq'[x]) /\ Lines(outq'[x]) = Waiting(x) \cup {i}
           /\ ~ (x \in Hearers(n) /\ SenderForwards(mote[x], log[i]))
                => Climbs(outq'[x]) /\ Lines(outq'[x]) = Waiting(x)
<1>1. outq[x] \in Seq(1..Len(log)) /\ Len(log) \in Nat /\ i \in 1..Len(log) /\ Climbs(outq[x])
    BY DEF ApartInv, TypeOK, Id, Flood, Queued
<1>2. CASE x \in Hearers(n) /\ SenderForwards(mote[x], log[i])
    <2>1. outq'[x] = Append(outq[x], i)
        BY <1>2 DEF Delivers
    <2>2. x \in Sender
        BY <1>2 DEF Hearers
    <2>3. i = Head(outq[n]) /\ outq[n] # <<>> /\ outq[n] \in Seq(1..Len(log))
        BY DEF Delivers, ApartInv, TypeOK, Id
    <2>4. i \in InFlight
        <3>1. 1 \in DOMAIN outq[n] /\ i = outq[n][1]
            BY <1>1, <2>3, AirTail
        <3> QED
            BY <3>1, OnAir
    <2>5. done[x] <= i
        BY <1>2, <2>2, <2>4, ApartAccepts DEF SenderForwards
    <2>6. \A j \in Lines(outq[x]) : j <= i
        <3> SUFFICES ASSUME NEW j \in Waiting(x) PROVE j <= i
            BY DEF Waiting
        <3>1. j \in Id /\ j <= done[x]
            BY <2>2, WaitingIds DEF ApartInv, Flood, Queued
        <3>2. done[x] \in Nat /\ i \in Nat /\ j \in Nat
            BY <2>2, <3>1 DEF ApartInv, TypeOK, Id
        <3> QED
            BY <2>5, <3>1, <3>2
    <2> QED
        BY <1>1, <1>2, <2>1, <2>6, LinesAppend DEF Waiting
<1>3. CASE ~ (x \in Hearers(n) /\ SenderForwards(mote[x], log[i]))
    BY <1>1, <1>3 DEF Delivers, Waiting
<1> QED
    BY <1>2, <1>3

LEMMA QueueSent ==
    ASSUME ApartInv, NEW r \in Nat, NEW e \in Nat, Flood(r, e),
           NEW n \in Node, NEW i \in Id, Delivers(n, i)
    PROVE  Climbs(outq'[n]) /\ Waiting(n) = Lines(outq'[n]) \cup {i}
<1>1. outq[n] \in Seq(1..Len(log)) /\ Len(log) \in Nat /\ Climbs(outq[n]) /\ outq[n] # <<>>
    BY DEF ApartInv, TypeOK, Id, Flood, Queued, Delivers
<1>2. i = Head(outq[n]) /\ outq'[n] = Tail(outq[n])
    BY DEF Delivers
<1> QED
    BY <1>1, <1>2, LinesTail DEF Waiting

(* The senders after the packet.                                           *)
LEMMA HeardBy ==
    ASSUME MaxRepeat >= 2, ApartInv, Ends(log), NEW r \in Nat, NEW e \in Nat, Flood(r, e),
           NEW n \in Node, NEW i \in Id, Delivers(n, i), NEW s \in Sender
    PROVE  /\ done[s] \in Nat /\ done'[s] \in Nat /\ done'[s] >= done[s]
           /\ \/ /\ s \in Hearers(n) /\ done[s] <= i /\ done'[s] = i
                 /\ SenderAccepts(mote[s], log[i])
                 /\ mote'[s] = SenderAfter(mote[s], log[i])
                 /\ mote'[s].ccvn = IF log[i].kind = "RESET_CVN" THEN 0 ELSE log[i].cvn
              \/ /\ done'[s] = done[s] /\ mote'[s] = mote[s]
                 /\ ~ (s \in Hearers(n) /\ SenderAccepts(mote[s], log[i]))
                 /\ s \in Hearers(n) => done[s] > i
<1>1. done[s] \in Nat /\ i \in Nat
    BY DEF ApartInv, TypeOK, Id
<1>2. /\ mote'[s] = IF s \in Hearers(n) THEN SenderAfter(mote[s], log[i]) ELSE mote[s]
      /\ done'[s] = IF s \in Hearers(n) /\ SenderAccepts(mote[s], log[i]) THEN i ELSE done[s]
    BY DEF Delivers
<1>3. s \in Hearers(n) => /\ SenderAccepts(mote[s], log[i]) => done[s] <= i
                          /\ done[s] <= i => SenderAccepts(mote[s], log[i])
    BY HearLine
<1>4. U16(log[i].cvn) = log[i].cvn
    BY LineFacts
<1>5. CASE s \in Hearers(n) /\ SenderAccepts(mote[s], log[i])
    <2>1. SenderAfter(mote[s], log[i]).ccvn = IF log[i].kind = "RESET_CVN" THEN 0 ELSE log[i].cvn
        BY <1>4, <1>5 DEF SenderAfter
    <2> QED
        BY <1>1, <1>2, <1>3, <1>5, <2>1
<1>6. CASE ~ (s \in Hearers(n) /\ SenderAccepts(mote[s], log[i]))
    <2>1. mote'[s] = mote[s]
        BY <1>2, <1>6 DEF SenderAfter
    <2> QED
        BY <1>1, <1>2, <1>3, <1>6, <2>1
<1> QED
    BY <1>5, <1>6

LEMMA QueuedAfter ==
    ASSUME MaxRepeat >= 2, ApartInv, Ends(log), NEW r \in Nat, NEW e \in Nat, Flood(r, e),
           NEW n \in Node, NEW i \in Id, Delivers(n, i)
    PROVE  Queued(r, e)'
<1>a. UNCHANGED log
    BY DEF Delivers
<1>0. UNCHANGED log /\ i \in e..r /\ i \in Waiting(n)
    BY <1>a, HearLine
<1>1. \A x \in Node : Climbs(outq'[x])
    BY QueueAfter, QueueSent
<1>2. ASSUME NEW x \in Node, NEW j \in Lines(outq'[x])
      PROVE  j \in Waiting(x) \/ (j = i /\ x \in Hearers(n) /\ SenderForwards(mote[x], log[i]))
    BY QueueAfter, QueueSent
<1>3. \A x \in Node : \A j \in Lines(outq'[x]) : j \in e..r /\ log[j].kind \in Repeated
    BY <1>0, <1>2 DEF Flood, Queued
<1>4. ASSUME NEW s \in Sender, NEW j \in Lines(outq'[s])
      PROVE  j <= done'[s] /\ Runs(log[j])
    <2>0. s \in Node
        BY DEF Node
    <2>1. CASE j \in Waiting(s)
        <3>1. j \in Id /\ j <= done[s] /\ Runs(log[j])
            BY <2>0, <2>1, WaitingIds DEF ApartInv, Flood, Queued
        <3>2. done[s] \in Nat /\ done'[s] \in Nat /\ done'[s] >= done[s] /\ j \in Nat
            BY <3>1, HeardBy DEF Id
        <3> QED
            BY <3>1, <3>2
    <2>2. CASE j = i /\ s \in Hearers(n) /\ SenderForwards(mote[s], log[i])
        <3>1. SenderAccepts(mote[s], log[i]) /\ Runs(log[i])
            BY <2>2 DEF SenderForwards
        <3>2. done'[s] = i
            BY <2>2, <3>1, HeardBy
        <3> QED
            BY <2>2, <3>1, <3>2 DEF Id
    <2> QED
        BY <1>2, <2>0, <2>1, <2>2
<1> QED
    BY <1>0, <1>1, <1>3, <1>4 DEF Queued, Waiting

LEMMA SpreadAfter ==
    ASSUME MaxRepeat >= 2, ApartInv, Ends(log), NEW r \in Nat, NEW e \in Nat, Flood(r, e),
           NEW n \in Node, NEW i \in Id, Delivers(n, i), n \notin Hearers(n)
    PROVE  Spread(r, e)'
<1>a. UNCHANGED log /\ i \in Nat
    BY DEF Delivers, Id
<1>0. UNCHANGED log /\ i \in e..r /\ i \in Nat
    BY <1>a, HearLine
<1> SUFFICES ASSUME NEW m \in Node, NEW s \in Hearers(m), NEW j \in (e + 1)..r, Runs(log[j]),
                    m \in Sender => j <= done'[m], ~ (j <= done'[s])
             PROVE  j \in Lines(outq'[m])
    BY <1>0, Zenon DEF Spread, Waiting
<1>1. s \in Sender /\ done[s] \in Nat /\ done'[s] \in Nat /\ done'[s] >= done[s] /\ ~ (j <= done[s])
    <2>1. s \in Sender
        BY DEF Hearers
    <2>2. done[s] \in Nat /\ done'[s] \in Nat /\ done'[s] >= done[s]
        BY <2>1, HeardBy
    <2> QED
        BY <2>1, <2>2
<1>2. CASE m \in Sender => j <= done[m]
    <2>1. j \in Waiting(m)
        BY <1>1, <1>2 DEF Flood, Spread
    <2>2. CASE m = n
        <3>1. Waiting(m) = Lines(outq'[m]) \cup {i}
            BY <2>2, QueueSent
        <3>2. s \in Hearers(n) /\ ~ (done[s] > i) => done'[s] = i
            BY <1>0, <1>1, HeardBy
        <3>3. j # i
            BY <1>0, <1>1, <2>2, <3>2
        <3> QED
            BY <2>1, <3>1, <3>3
    <2>3. CASE m # n
        BY <2>1, <2>3, QueueAfter
    <2> QED
        BY <2>2, <2>3
<1>3. CASE m \in Sender /\ ~ (j <= done[m])
    <2>1. m \in Hearers(n) /\ done'[m] = i /\ done[m] <= i /\ done[m] \in Nat
        BY <1>3, HeardBy
    <2>2. j <= i /\ done[m] < j
        BY <1>0, <1>3, <2>1
    <2>3. j = i
        <3>1. ~ (j < i)
            BY <2>1, <2>2, HearLine
        <3> QED
            BY <1>0, <2>2, <3>1
    <2>4. i > e /\ done[m] < i
        BY <1>0, <2>2, <2>3
    <2>5. SenderForwards(mote[m], log[i])
        BY <2>1, <2>3, <2>4, HearLine
    <2>6. m # n
        BY <2>1
    <2> QED
        BY <2>1, <2>3, <2>5, <2>6, QueueAfter
<1> QED
    BY <1>2, <1>3

LEMMA ResetsAfter ==
    ASSUME MaxRepeat >= 2, ApartInv, Ends(log), NEW r \in Nat, NEW e \in Nat, Flood(r, e),
           NEW n \in Node, NEW i \in Id, Delivers(n, i), n \notin Hearers(n)
    PROVE  Resets(r, e)'
<1>a. UNCHANGED log /\ i \in Nat
    BY DEF Delivers, Id
<1>0. i \in e..r
    BY HearLine
<1>1. ASSUME NEW s \in Sender, Fresh(s, e) PROVE Fresh(s, e)'
    <2>1. CASE /\ done'[s] = i
               /\ mote'[s].ccvn = IF log[i].kind = "RESET_CVN" THEN 0 ELSE log[i].cvn
        <3>1. i = e => log[i].kind = "RESET_CVN"
            BY <1>a DEF Flood, Era, Id
        <3> QED
            BY <1>0, <1>a, <2>1, <3>1 DEF Fresh
    <2>2. CASE done'[s] = done[s] /\ mote'[s] = mote[s]
        BY <1>1, <2>2 DEF Fresh
    <2> QED
        BY <2>1, <2>2, HeardBy
<1>2. r > e => \A s \in Sender : Fresh(s, e)'
    BY <1>1 DEF Flood, Resets
<1>3. ASSUME e > 0, NEW m \in Node, NEW s \in Hearers(m), m \in Sender => Fresh(m, e)',
             ~ Fresh(s, e)'
      PROVE  Coming(e, m, s)'
    <2>0. s \in Sender
        BY DEF Hearers
    <2>1. i = e /\ r = e /\ log[i].kind = "RESET_CVN"
        <3>1. ~ (r > e)
            BY <1>2, <1>3, <2>0
        <3>2. log[e].kind = "RESET_CVN"
            BY <1>3 DEF Flood, Era
        <3> QED
            BY <1>0, <1>a, <3>1, <3>2
    <2>2. \A u \in Sender : done[u] \in Nat /\ done[u] <= i
        <3>1. \A u \in Sender : done[u] \in Nat
            BY DEF ApartInv, TypeOK
        <3> QED
            BY <2>1, <3>1 DEF Flood, Heard
    <2>3. s \notin Hearers(n)
        <3>1. s \in Hearers(n) => mote'[s].ccvn = 0
            BY <1>a, <2>0, <2>1, <2>2, HeardBy
        <3> QED
            BY <1>3, <3>1 DEF Fresh
    <2>4. m # n
        BY <2>3
    <2>5. ~ Fresh(s, e)
        BY <1>1, <1>3, <2>0
    <2>6. \A x \in Node : x # n => Waiting(x) \subseteq Lines(outq'[x])
        BY QueueAfter
    <2>7. CASE m \in Sender => Fresh(m, e)
        <3>1. Coming(e, m, s)
            BY <1>3, <2>5, <2>7 DEF Flood, Resets
        <3>2. \A k \in Sink : s \in Hearers(k) => k # n /\ k \in Node
            BY <2>3 DEF Node
        <3> QED
            BY <2>4, <2>6, <3>1, <3>2 DEF Coming, Waiting
    <2>8. CASE m \in Sender /\ ~ Fresh(m, e)
        <3>1. mote'[m] # mote[m] \/ done'[m] # done[m]
            BY <1>3, <2>8 DEF Fresh
        <3>2. m \in Hearers(n)
            BY <2>8, <3>1, HeardBy
        <3>3. mote[m].ccvn > 0
            <4>1. mote[m].ccvn \in Nat
                BY <2>8, HandlersAssumption DEF ApartInv, TypeOK, Senders
            <4> QED
                BY <2>8, <4>1 DEF Fresh
        <3>4. Runs(log[i]) /\ done[m] <= i
            BY <2>1, <2>2, <2>8 DEF Runs
        <3>5. SenderForwards(mote[m], log[i])
            BY <2>1, <3>2, <3>3, <3>4, HearLine
        <3>6. i \in Lines(outq'[m])
            BY <2>4, <3>2, <3>5, QueueAfter
        <3> QED
            BY <2>1, <3>6 DEF Coming, Waiting
    <2> QED
        BY <2>7, <2>8
<1> QED
    BY <1>2, <1>3 DEF Resets

LEMMA FloodTransmit ==
    ASSUME MaxRepeat >= 2, ApartInv, Ends(log), NEW r \in Nat, NEW e \in Nat, Flood(r, e),
           NEW n \in Node, NEW i \in Id, Delivers(n, i), n \notin Hearers(n)
    PROVE  Flood(r, e)'
<1>a. UNCHANGED <<log, serial, sink>> /\ i \in Nat
    BY DEF Delivers, Id
<1>0. i \in e..r /\ i \in Waiting(n)
    BY HearLine
<1>1. Era(r, e)' /\ Reading(r)'
    BY <1>a DEF Flood, Era, Reading, VersionAt
<1>2. Heard(r)'
    <2> SUFFICES ASSUME NEW s \in Sender
                 PROVE  /\ done'[s] <= r
                        /\ \/ done'[s] = 0
                           \/ Runs(log[done'[s]])
                           \/ log[done'[s]].kind \in Repeated /\ \E k \in Sink : s \in Hearers(k)
        BY <1>a DEF Heard
    <2>1. CASE s \in Hearers(n) /\ done'[s] = i
        <3>1. log[i].kind \in Repeated
            BY <1>0 DEF Flood, Queued
        <3>2. n \in Sender => Runs(log[i])
            BY HearLine
        <3> QED
            BY <1>0, <2>1, <3>1, <3>2 DEF Node
    <2>2. CASE done'[s] = done[s]
        BY <2>2 DEF Flood, Heard
    <2> QED
        BY <2>1, <2>2, HeardBy
<1>3. Unrepeated'
    <2> SUFFICES ASSUME NEW s \in Sender, mote'[s].ccvn > 0
                 PROVE  mote'[s].counter["RESET_CVN"] = 0
        BY DEF Unrepeated
    <2>1. CASE SenderAccepts(mote[s], log[i]) /\ mote'[s] = SenderAfter(mote[s], log[i])
        <3>1. mote[s] \in Senders /\ (mote[s].ccvn > 0 => mote[s].counter["RESET_CVN"] = 0)
            BY DEF ApartInv, TypeOK, Flood, Unrepeated
        <3> QED
            BY <2>1, <3>1, LineFacts, UnrepeatedAfter
    <2>2. CASE mote'[s] = mote[s]
        BY <2>2 DEF Flood, Unrepeated
    <2> QED
        BY <2>1, <2>2, HeardBy
<1>4. Past(e)'
    <2> SUFFICES ASSUME NEW s \in Sender, NEW j \in 1..(e - 1), ~ (j <= done'[s])
                 PROVE  Useless(s, j)'
        BY DEF Past
    <2>0. done'[s] # i
        BY <1>0, <1>a
    <2>1. done'[s] = done[s] /\ mote'[s] = mote[s]
        BY <2>0, HeardBy
    <2> QED
        BY <1>a, <2>1 DEF Flood, Past, Useless
<1>5. Queued(r, e)'
    BY QueuedAfter
<1>6. Spread(r, e)'
    BY SpreadAfter
<1>7. Resets(r, e)'
    BY ResetsAfter
<1> QED
    BY <1>1, <1>2, <1>3, <1>4, <1>5, <1>6, <1>7 DEF Flood

----------------------------------------------------------------------------
(* The server writes, and the sink reads.                                  *)

LEMMA FloodGrow ==
    ASSUME ApartInv, NEW r \in Nat, NEW e \in Nat, Flood(r, e),
           log' \in Seq(Line), Len(log') >= Len(log),
           \A i \in 1..Len(log) : log'[i] = log[i],
           \A k \in Sink : /\ Len(serial'[k]) = Len(log') - r
                           /\ \A a \in 1..Len(serial'[k]) : serial'[k][a] = r + a,
           UNCHANGED <<sink, mote, outq, done>>
    PROVE  Flood(r, e)'
<1>1. /\ r \in 0..Len(log) /\ e \in 0..r /\ Len(log) \in Nat /\ Len(log') \in Nat
      /\ \A s \in Sender : done[s] \in 0..Len(log)
    BY DEF Flood, Era, ApartInv, TypeOK
<1>2. \A i \in 1..r : log'[i] = log[i]
    BY <1>1
<1>3. Era(r, e)'
    BY <1>1, <1>2 DEF Flood, Era, Plain
<1>4. Reading(r)'
    BY <1>1, <1>2 DEF Flood, Reading, VersionAt
<1>5. \A n \in Node : \A i \in Waiting(n) : i \in 1..r
    <2> SUFFICES ASSUME NEW n \in Node, NEW i \in Waiting(n) PROVE i \in 1..r
        OBVIOUS
    <2>1. i \in Id /\ i \in e..r
        BY WaitingIds DEF ApartInv, Flood, Queued
    <2> QED
        BY <1>1, <2>1 DEF Id
<1>6. Queued(r, e)'
    <2>1. \A s \in Sender : s \in Node
        BY DEF Node
    <2>2. \A n \in Node : \A i \in Lines(outq[n]) : log'[i] = log[i]
        BY <1>2, <1>5 DEF Waiting
    <2> QED
        BY <2>1, <2>2 DEF Flood, Queued, Waiting
<1>7. Heard(r)'
    <2> SUFFICES ASSUME NEW s \in Sender
                 PROVE  /\ done[s] <= r
                        /\ \/ done[s] = 0
                           \/ Runs(log'[done[s]])
                           \/ log'[done[s]].kind \in Repeated /\ \E k \in Sink : s \in Hearers(k)
        BY DEF Heard
    <2>1. done[s] <= r
        BY DEF Flood, Heard
    <2>2. done[s] # 0 => log'[done[s]] = log[done[s]]
        BY <1>1, <1>2, <2>1
    <2> QED
        BY <2>1, <2>2 DEF Flood, Heard
<1>8. Unrepeated'
    BY DEF Flood, Unrepeated
<1>9. Spread(r, e)'
    <2>1. \A i \in (e + 1)..r : log'[i] = log[i]
        BY <1>1, <1>2
    <2> QED
        BY <2>1 DEF Flood, Spread, Waiting
<1>10. Resets(r, e)'
    BY DEF Flood, Resets, Fresh, Coming, Waiting
<1>11. Past(e)'
    <2>1. \A i \in 1..(e - 1) : log'[i] = log[i]
        BY <1>1, <1>2
    <2> QED
        BY <2>1 DEF Flood, Past, Useless
<1> QED
    BY <1>3, <1>4, <1>6, <1>7, <1>8, <1>9, <1>10, <1>11 DEF Flood

LEMMA NextLine ==
    ASSUME NEW n \in Nat, NEW r \in 0..n, NEW q \in Seq(1..n),
           Len(q) = n - r, \A a \in 1..Len(q) : q[a] = r + a
    PROVE  /\ Append(q, n + 1) \in Seq(1..(n + 1))
           /\ Len(Append(q, n + 1)) = (n + 1) - r
           /\ \A a \in 1..Len(Append(q, n + 1)) : Append(q, n + 1)[a] = r + a
<1> DEFINE p == Append(q, n + 1)
<1>1. q \in Seq(1..(n + 1)) /\ n + 1 \in 1..(n + 1)
    BY SeqWiden
<1>2. /\ p \in Seq(1..(n + 1)) /\ Len(p) = Len(q) + 1 /\ Len(q) \in Nat
      /\ p[Len(q) + 1] = n + 1 /\ \A a \in 1..Len(q) : p[a] = q[a]
    BY <1>1
<1> HIDE DEF p
<1>3. Len(p) = (n + 1) - r
    BY <1>2
<1>4. ASSUME NEW a \in 1..Len(p) PROVE p[a] = r + a
    <2>1. CASE a = Len(q) + 1
        BY <1>2, <2>1
    <2>2. CASE a \in 1..Len(q)
        BY <1>2, <2>2
    <2> QED
        BY <1>2, <2>1, <2>2
<1> QED
    BY <1>2, <1>3, <1>4 DEF p

LEMMA FloodSend ==
    ASSUME ApartInv, NEW r \in Nat, NEW e \in Nat, Flood(r, e), NEW l \in Line, Write(l)
    PROVE  Flood(r, e)'
<1>1. /\ log \in Seq(Line) /\ Len(log) \in Nat /\ r \in 0..Len(log)
      /\ log' = Append(log, l) /\ UNCHANGED <<sink, mote, outq, done>>
    BY DEF ApartInv, TypeOK, Write, Flood, Era
<1>2. log' \in Seq(Line) /\ Len(log') = Len(log) + 1 /\ \A i \in 1..Len(log) : log'[i] = log[i]
    BY <1>1
<1>3. ASSUME NEW k \in Sink
      PROVE  /\ Len(serial'[k]) = Len(log') - r
             /\ \A a \in 1..Len(serial'[k]) : serial'[k][a] = r + a
    <2> DEFINE q == Append(serial[k], Len(log) + 1)
    <2>1. serial[k] \in Seq(1..Len(log)) /\ serial'[k] = q
        BY DEF ApartInv, TypeOK, Id, Write
    <2>2. Len(serial[k]) = Len(log) - r /\ \A a \in 1..Len(serial[k]) : serial[k][a] = r + a
        BY DEF Flood, Reading
    <2>3. Len(q) = (Len(log) + 1) - r /\ \A a \in 1..Len(q) : q[a] = r + a
        BY <1>1, <2>1, <2>2, NextLine
    <2> HIDE DEF q
    <2> QED
        BY <1>2, <2>1, <2>3
<1> QED
    BY <1>1, <1>2, <1>3, FloodGrow

LEMMA FloodSendTwo ==
    ASSUME ApartInv, NEW r \in Nat, NEW e \in Nat, Flood(r, e),
           NEW l \in Line, NEW m \in Line, WriteTwo(l, m)
    PROVE  Flood(r, e)'
<1>1. /\ log \in Seq(Line) /\ Len(log) \in Nat /\ r \in 0..Len(log)
      /\ log' = Append(Append(log, l), m) /\ UNCHANGED <<sink, mote, outq, done>>
    BY DEF ApartInv, TypeOK, WriteTwo, Flood, Era
<1>2. log' \in Seq(Line) /\ Len(log') = Len(log) + 2 /\ \A i \in 1..Len(log) : log'[i] = log[i]
    BY <1>1
<1>3. ASSUME NEW k \in Sink
      PROVE  /\ Len(serial'[k]) = Len(log') - r
             /\ \A a \in 1..Len(serial'[k]) : serial'[k][a] = r + a
    <2> DEFINE n == Len(log) + 1
               q == Append(serial[k], Len(log) + 1)
    <2>0. serial[k] \in Seq(1..Len(log)) /\ serial'[k] = Append(q, Len(log) + 2)
        BY DEF ApartInv, TypeOK, Id, WriteTwo
    <2>1. serial[k] \in Seq(1..Len(log)) /\ serial'[k] = Append(q, n + 1)
        BY <1>1, <2>0
    <2>2. Len(serial[k]) = Len(log) - r /\ \A a \in 1..Len(serial[k]) : serial[k][a] = r + a
        BY DEF Flood, Reading
    <2>3. q \in Seq(1..n) /\ Len(q) = n - r /\ \A a \in 1..Len(q) : q[a] = r + a
        BY <1>1, <2>1, <2>2, NextLine
    <2>4. n \in Nat /\ r \in 0..n /\ Len(log') = n + 1
        BY <1>1, <1>2
    <2> DEFINE p == Append(q, n + 1)
    <2> HIDE DEF n, q
    <2>5. Len(p) = (n + 1) - r /\ \A a \in 1..Len(p) : p[a] = r + a
        BY <2>3, <2>4, NextLine
    <2> HIDE DEF p
    <2>6. serial'[k] = p
        BY <2>1 DEF p
    <2> QED
        BY <2>4, <2>5, <2>6
<1> QED
    BY <1>1, <1>2, <1>3, FloodGrow
LEMMA NextRead ==
    ASSUME NEW n \in Nat, NEW r \in 0..n, NEW q \in Seq(1..n), q # <<>>,
           Len(q) = n - r, \A a \in 1..Len(q) : q[a] = r + a
    PROVE  /\ Head(q) = r + 1 /\ r + 1 \in 1..n
           /\ Len(Tail(q)) = n - (r + 1)
           /\ \A a \in 1..Len(Tail(q)) : Tail(q)[a] = (r + 1) + a
<1>1. /\ Len(q) \in Nat \ {0} /\ Head(q) = q[1]
      /\ Len(Tail(q)) = Len(q) - 1
      /\ \A a \in 1..(Len(q) - 1) : Tail(q)[a] = q[a + 1]
    OBVIOUS
<1>2. Head(q) = r + 1 /\ r + 1 \in 1..n /\ Len(Tail(q)) = n - (r + 1)
    BY <1>1
<1>3. ASSUME NEW a \in 1..Len(Tail(q)) PROVE Tail(q)[a] = (r + 1) + a
    <2>1. a + 1 \in 1..Len(q) /\ Tail(q)[a] = q[a + 1] /\ a \in Nat
        BY <1>1
    <2> QED
        BY <2>1
<1> QED
    BY <1>2, <1>3

(* The sink takes every line, the version fits.                            *)
LEMMA SinkTakes ==
    ASSUME ApartInv, Ends(log), NEW r \in Nat, r + 1 \in Id,
           NEW m, m.ccvn = VersionAt(r)
    PROVE  /\ SinkAccepts(m, log[r + 1])
           /\ SinkAfter(m, log[r + 1]).ccvn = VersionAt(r + 1)
<1> DEFINE h == r + 1
<1>1. h \in Id /\ h # 0 /\ Len(log) \in Nat /\ r < h
    BY DEF ApartInv, TypeOK
<1>2. log[h].cvn \in Nat \ {0} /\ U16(log[h].cvn) = log[h].cvn
    BY <1>1, LineFacts, HandlersAssumption
<1> HIDE DEF h
<1>3. VersionAt(r) < log[h].cvn
    <2>1. CASE r = 0
        BY <1>2, <2>1 DEF VersionAt
    <2>2. CASE r # 0
        <3>1. r \in Id
            BY <1>1, <2>2 DEF Id, h
        <3>2. log[r].cvn \in Nat \ {0}
            BY <3>1, LineFacts, HandlersAssumption
        <3>3. CASE log[r].kind = "RESET_CVN"
            BY <1>2, <2>2, <3>3 DEF VersionAt
        <3>4. CASE log[r].kind # "RESET_CVN" /\ log[h].kind = "RESET_CVN"
            <4>1. log[h].cvn = CvnMax /\ log[r].cvn < CvnMax
                BY <1>1, <3>1, <3>4, LineFacts
            <4> QED
                BY <2>2, <3>4, <4>1 DEF VersionAt
        <3>5. CASE log[r].kind # "RESET_CVN" /\ log[h].kind # "RESET_CVN"
            <4>1. \A a \in r..h : a = r \/ a = h
                BY DEF h
            <4>2. Plain(log, r, h)
                BY <3>5, <4>1 DEF Plain
            <4>3. log[r].cvn < log[h].cvn
                BY <1>1, <3>1, <4>2 DEF ApartInv, Sorted, Id
            <4> QED
                BY <2>2, <3>5, <4>3 DEF VersionAt
        <3> QED
            BY <3>3, <3>4, <3>5
    <2> QED
        BY <2>1, <2>2
<1>4. SinkAccepts(m, log[h])
    BY <1>2, <1>3 DEF SinkAccepts
<1>5. SinkAfter(m, log[h]).ccvn = VersionAt(h)
    BY <1>1, <1>2, <1>4 DEF SinkAfter, VersionAt
<1> QED
    BY <1>4, <1>5 DEF h

(* What the one sink does with the next line.                              *)
Reads(k, h) ==
    /\ h \in Id /\ Head(serial[k]) = h
    /\ Behind(h)
    /\ Reading(h)'
    /\ UNCHANGED <<log, mote, done>>
    /\ \A x \in Node : Climbs(outq'[x]) /\ Waiting(x) \subseteq Lines(outq'[x])
    /\ \A x \in Node \ {k} : Lines(outq'[x]) = Waiting(x)
    /\ \A j \in Lines(outq'[k]) : j \in Waiting(k) \/ (j = h /\ log[h].kind \in Repeated)
    /\ Runs(log[h]) => h \in Lines(outq'[k])

LEMMA ReadNext ==
    ASSUME OneSink, Room, ApartInv, Ends(log), NEW r \in Nat, NEW e \in Nat, Flood(r, e),
           NEW k \in Sink, SerialLine(k)
    PROVE  Reads(k, r + 1)
<1> DEFINE h == r + 1
           q == serial[k]
<1>1. /\ Len(log) \in Nat /\ r \in 0..Len(log) /\ q \in Seq(1..Len(log)) /\ q # <<>>
      /\ serial \in [Sink -> Seq(Id)] /\ sink \in [Sink -> Sinks] /\ outq \in [Node -> Seq(Id)]
    BY DEF ApartInv, TypeOK, Flood, Era, SerialLine, Id
<1>2. Len(q) = Len(log) - r /\ \A a \in 1..Len(q) : q[a] = r + a
    BY DEF Flood, Reading
<1>3. /\ Head(q) = h /\ h \in Id /\ Len(Tail(q)) = Len(log) - h
      /\ \A a \in 1..Len(Tail(q)) : Tail(q)[a] = h + a
    <2> HIDE DEF q
    <2> QED
        BY <1>1, <1>2, NextRead DEF Id
<1>4. Behind(h)
    <2>1. 1 \in 1..Len(q) /\ q[1] = Head(q)
        BY <1>1
    <2>2. Behind(q[1])
        BY <2>1 DEF ApartInv, Unread
    <2> QED
        BY <1>3, <2>1, <2>2
<1>5. sink[k].ccvn = VersionAt(r)
    BY DEF Flood, Reading
<1>6. SinkAccepts(sink[k], log[h]) /\ SinkAfter(sink[k], log[h]).ccvn = VersionAt(h)
    BY <1>3, <1>5, SinkTakes
<1>7. /\ serial'[k] = Tail(q) /\ sink'[k] = SinkAfter(sink[k], log[h])
      /\ UNCHANGED <<log, mote, done>>
      /\ outq' = IF SinkMulticasts(sink[k], log[h]) THEN [outq EXCEPT ![k] = Enqueue(@, h)] ELSE outq
    <2> HIDE DEF h
    <2> QED
        BY <1>1, <1>3 DEF SerialLine
<1> HIDE DEF h, q
<1>8. Reading(h)'
    <2>1. \A l \in Sink : l = k
        BY DEF OneSink
    <2>2. VersionAt(h)' = VersionAt(h)
        BY <1>7 DEF VersionAt
    <2> QED
        BY <1>3, <1>6, <1>7, <2>1, <2>2 DEF Reading
<1>9. \A x \in Node : Climbs(outq[x]) /\ outq[x] \in Seq(1..Len(log))
    BY <1>1 DEF Flood, Queued, Id
<1>10. \A x \in Node \ {k} : outq'[x] = outq[x]
    BY <1>1, <1>7
<1>11. k \in Node /\ Runs(log[h]) => SinkMulticasts(sink[k], log[h])
    BY <1>6 DEF SinkMulticasts, Runs, Repeated
<1>12. CASE SinkMulticasts(sink[k], log[h])
    <2>0. k \in Node
        BY DEF Node
    <2>1. outq'[k] = Append(outq[k], h)
        BY <1>1, <1>7, <1>12, <2>0 DEF Room, Enqueue
    <2>2. \A j \in Lines(outq[k]) : j <= h
        <3> SUFFICES ASSUME NEW j \in Waiting(k) PROVE j <= h
            BY DEF Waiting
        <3>1. j \in Id /\ j < h
            BY <1>4, <2>0, WaitingIds DEF ApartInv, Behind
        <3> QED
            BY <1>3, <3>1 DEF Id
    <2>3. Climbs(outq'[k]) /\ Lines(outq'[k]) = Waiting(k) \cup {h}
        BY <1>1, <1>3, <1>9, <2>0, <2>1, <2>2, LinesAppend DEF Waiting, Id
    <2>4. log[h].kind \in Repeated
        BY <1>12 DEF SinkMulticasts
    <2> QED
        BY <1>3, <1>4, <1>7, <1>8, <1>9, <1>10, <2>3, <2>4 DEF Reads, Waiting, h, q
<1>13. CASE ~ SinkMulticasts(sink[k], log[h])
    <2>0. k \in Node
        BY DEF Node
    <2>1. outq' = outq /\ ~ Runs(log[h])
        BY <1>7, <1>11, <1>13, <2>0
    <2> QED
        BY <1>3, <1>4, <1>7, <1>8, <1>9, <2>1 DEF Reads, Waiting, h, q
<1> QED
    BY <1>12, <1>13

(* What both kinds of lines have in common.                                *)
LEMMA ReadAir ==
    ASSUME ApartInv, NEW r \in Nat, NEW e \in Nat, Flood(r, e), NEW k \in Sink, Reads(k, r + 1)
    PROVE  /\ \A n \in Node : Climbs(outq'[n])
           /\ \A n \in Node : \A j \in Lines(outq'[n]) :
                 j \in Waiting(n) \/ (n = k /\ j = r + 1 /\ log[j].kind \in Repeated)
           /\ \A s \in Sender : Lines(outq'[s]) = Waiting(s)
           /\ Heard(r + 1)'
           /\ Unrepeated'
           /\ \A s \in Sender : done'[s] = done[s] /\ done[s] \in Nat /\ done[s] <= r
<1> DEFINE h == r + 1
<1>1. UNCHANGED <<log, mote, done>> /\ (\A s \in Sender : s \in Node /\ s # k) /\ h \in Id
    BY DisseminationAssumption DEF Reads, Node
<1>2. \A s \in Sender : done'[s] = done[s] /\ done[s] \in Nat /\ done[s] <= r /\ done[s] <= h
    BY <1>1 DEF ApartInv, TypeOK, Flood, Heard
<1>3. Heard(h)'
    BY <1>1, <1>2 DEF Flood, Heard
<1>4. Unrepeated'
    BY <1>1 DEF Flood, Unrepeated
<1>5. \A s \in Sender : Lines(outq'[s]) = Waiting(s)
    BY <1>1 DEF Reads
<1> HIDE DEF h
<1>6. ASSUME NEW n \in Node, NEW j \in Lines(outq'[n])
      PROVE  j \in Waiting(n) \/ (n = k /\ j = h /\ log[j].kind \in Repeated)
    BY <1>6 DEF Reads, h
<1>7. \A n \in Node : Climbs(outq'[n])
    BY DEF Reads
<1> QED
    BY <1>2, <1>3, <1>4, <1>5, <1>6, <1>7 DEF h

(* When the sink has read no line since the last reset, the air is empty.  *)
LEMMA StillAir ==
    ASSUME ApartInv, NEW r \in Nat, NEW e \in Nat, Flood(r, e), NEW k \in Sink,
           serial[k] # <<>>, Head(serial[k]) = r + 1, r + 1 \in Id, Apart(k),
           r = e \/ log[r + 1].kind = "RESET_CVN", NEW n \in Node
    PROVE  Waiting(n) = {}
<1> SUFFICES ASSUME NEW i \in Waiting(n) PROVE FALSE
    OBVIOUS
<1>1. i \in Id /\ i \in InFlight /\ i \in e..r /\ i \in Nat /\ i # 0
    BY WaitingIds DEF ApartInv, Flood, Queued, Id
<1>2. \A j \in i..(r + 1) : log[j].kind # "RESET_CVN"
    BY <1>1 DEF Apart
<1>3. i <= r + 1 /\ r + 1 \in Nat
    BY <1>1
<1>4. log[r + 1].kind # "RESET_CVN" /\ log[i].kind # "RESET_CVN"
    BY <1>1, <1>2, <1>3
<1>5. i = e /\ e # 0
    BY <1>1, <1>4
<1> QED
    BY <1>4, <1>5 DEF Flood, Era

LEMMA FloodReadPlain ==
    ASSUME OneSink, Reached, ApartInv, Ends(log), NEW r \in Nat, NEW e \in Nat, Flood(r, e),
           NEW k \in Sink, Apart(k), serial[k] # <<>>, Reads(k, r + 1),
           log[r + 1].kind # "RESET_CVN"
    PROVE  Flood(r + 1, e)'
<1> DEFINE h == r + 1
<1>1. /\ UNCHANGED <<log, mote, done>> /\ h \in Id /\ Head(serial[k]) = h /\ Len(log) \in Nat
      /\ Reading(h)' /\ (\A n \in Node : Waiting(n) \subseteq Lines(outq'[n]))
      /\ Runs(log[h]) => h \in Lines(outq'[k])
    BY DEF Reads, ApartInv, TypeOK
<1>2. r \in 0..Len(log) /\ e \in 0..r /\ h \in 0..Len(log) /\ e \in 0..h
    BY <1>1 DEF Flood, Era, Id
<1>3. Era(h, e)'
    <2>1. Plain(log, e + 1, h)
        BY <1>2 DEF Flood, Era, Plain
    <2> QED
        BY <1>1, <1>2, <2>1 DEF Flood, Era
<1>4. Queued(h, e)'
    <2>1. ASSUME NEW n \in Node, NEW j \in Lines(outq'[n])
          PROVE  j \in e..h /\ log[j].kind \in Repeated
        <3>1. CASE j \in Waiting(n)
            BY <1>2, <3>1 DEF Flood, Queued
        <3>2. CASE j = h /\ log[j].kind \in Repeated
            BY <1>2, <3>2
        <3> QED
            BY <3>1, <3>2, ReadAir
    <2>2. \A s \in Sender : \A j \in Lines(outq'[s]) : j <= done[s] /\ Runs(log[j])
        BY ReadAir DEF Flood, Queued
    <2>3. \A n \in Node : Climbs(outq'[n])
        BY ReadAir
    <2> QED
        BY <1>1, <2>1, <2>2, <2>3 DEF Queued, Waiting
<1>5. Heard(h)' /\ Unrepeated' /\ Past(e)'
    <2>1. Past(e)'
        BY <1>1 DEF Flood, Past, Useless
    <2> QED
        BY <2>1, ReadAir
<1>6. Spread(h, e)'
    <2> SUFFICES ASSUME NEW n \in Node, NEW s \in Hearers(n), NEW i \in (e + 1)..h, Runs(log[i]),
                        n \in Sender => i <= done[n]
                 PROVE  i <= done[s] \/ i \in Lines(outq'[n])
        BY <1>1 DEF Spread, Waiting
    <2>1. CASE i <= r
        <3>1. i \in (e + 1)..r
            BY <2>1
        <3> QED
            BY <1>1, <3>1 DEF Flood, Spread
    <2>2. CASE i = h
        <3>1. n \notin Sender
            <4>1. n \in Sender => done[n] \in Nat /\ done[n] <= r
                BY ReadAir
            <4> QED
                BY <2>2, <4>1
        <3>2. n = k
            BY <3>1 DEF OneSink, Node
        <3> QED
            BY <1>1, <2>2, <3>2
    <2> QED
        BY <2>1, <2>2
<1>7. \A s \in Sender : Fresh(s, e)
    <2>1. CASE r > e
        BY <2>1 DEF Flood, Resets
    <2>2. CASE r = e
        <3>1. \A n \in Node : Waiting(n) = {}
            BY <1>1, <2>2, StillAir
        <3> QED
            BY <3>1, Arrived
    <2> QED
        BY <1>2, <2>1, <2>2
<1>8. Resets(h, e)'
    <2>1. \A s \in Sender : Fresh(s, e)'
        BY <1>1, <1>7 DEF Fresh
    <2>2. \A n \in Node : \A s \in Hearers(n) : s \in Sender
        BY DEF Hearers
    <2> QED
        BY <2>1, <2>2 DEF Resets
<1> QED
    BY <1>1, <1>3, <1>4, <1>5, <1>6, <1>8 DEF Flood

LEMMA FloodReadReset ==
    ASSUME OneSink, Reached, ApartInv, Ends(log), NEW r \in Nat, NEW e \in Nat, Flood(r, e),
           NEW k \in Sink, Apart(k), serial[k] # <<>>, Reads(k, r + 1),
           log[r + 1].kind = "RESET_CVN"
    PROVE  Flood(r + 1, r + 1)'
<1> DEFINE h == r + 1
<1>1. /\ UNCHANGED <<log, mote, done>> /\ h \in Id /\ Head(serial[k]) = h /\ Len(log) \in Nat
      /\ Reading(h)'
      /\ Runs(log[h]) => h \in Lines(outq'[k])
    BY DEF Reads, ApartInv, TypeOK
<1>2. r \in 0..Len(log) /\ e \in 0..r /\ h \in 0..Len(log) /\ h \in h..h /\ h \in 0..h
    BY <1>1 DEF Flood, Era, Id
<1>3. Era(h, h)'
    <2>1. Plain(log, h + 1, h)
        BY <1>2 DEF Plain
    <2> QED
        BY <1>1, <1>2, <2>1 DEF Era
<1>4. h \in Lines(outq'[k])
    BY <1>1 DEF Runs
<1>5. \A n \in Node : Waiting(n) = {}
    BY <1>1, StillAir
<1>6. Queued(h, h)'
    <2>1. ASSUME NEW n \in Node, NEW j \in Lines(outq'[n])
          PROVE  j \in h..h /\ log[j].kind \in Repeated
        BY <1>2, <1>5, ReadAir
    <2>2. \A s \in Sender : Lines(outq'[s]) = {}
        BY <1>5, ReadAir DEF Node
    <2>3. \A n \in Node : Climbs(outq'[n])
        BY ReadAir
    <2> QED
        BY <1>1, <2>1, <2>2, <2>3 DEF Queued, Waiting
<1>7. Heard(h)' /\ Unrepeated'
    BY ReadAir
<1>8. Past(h)'
    <2>1. \A s \in Sender : \A i \in 1..r : i <= done[s] \/ Useless(s, i)
        BY <1>5, Informed
    <2>2. h - 1 = r
        OBVIOUS
    <2> QED
        BY <1>1, <2>1, <2>2 DEF Past, Useless
<1>9. Spread(h, h)'
    <2>1. (h + 1)..h = {}
        BY <1>2
    <2> QED
        BY <2>1 DEF Spread
<1>10. ASSUME NEW n \in Node, NEW s \in Hearers(n), n \in Sender => mote[n].ccvn = 0,
              mote[s].ccvn # 0
       PROVE  n = k \/ s \in Hearers(k)
    <2>0. s \in Sender /\ Len(log) \in Nat
        BY DEF Hearers, ApartInv, TypeOK
    <2>1. CASE n \in Sink
        BY <2>1 DEF OneSink
    <2>2. CASE n \in Sender
        <3> DEFINE i == done[s]
        <3>1. i > e /\ i \in 1..r /\ i \in (e + 1)..r
            <4>1. i \in Nat /\ i <= r
                BY <2>0, ReadAir
            <4>2. Fresh(s, e)
                BY <1>5, <2>0, Arrived
            <4> QED
                BY <1>2, <1>10, <4>1, <4>2 DEF Fresh
        <3>2. CASE Runs(log[i])
            <4>1. done[n] \in Nat /\ i <= done[n] /\ done[n] <= r
                BY <1>5, <2>2, <3>1, <3>2, Arrived, ReadAir
            <4>2. done[n] \in (e + 1)..r /\ done[n] \in Id /\ done[n] # 0
                BY <1>2, <3>1, <4>1 DEF Id
            <4>3. log[done[n]].kind # "RESET_CVN"
                BY <4>2 DEF Flood, Era, Plain
            <4>4. log[done[n]].cvn \in 1..CvnMax
                BY <4>2, LineFacts
            <4>5. mote[n].ccvn = log[done[n]].cvn
                BY <2>2, <4>2, <4>3 DEF ApartInv, Ran
            <4> QED
                BY <1>10, <2>2, <4>4, <4>5, HandlersAssumption
        <3>3. CASE ~ Runs(log[i])
            <4>1. \E l \in Sink : s \in Hearers(l)
                BY <2>0, <3>1, <3>3 DEF Flood, Heard
            <4> QED
                BY <4>1 DEF OneSink
        <3> QED
            BY <3>2, <3>3
    <2> QED
        BY <2>1, <2>2 DEF Node
<1>11. Resets(h, h)'
    <2> SUFFICES ASSUME NEW n \in Node, NEW s \in Hearers(n), n \in Sender => Fresh(n, h)',
                        ~ Fresh(s, h)'
                 PROVE  Coming(h, n, s)'
        BY <1>2 DEF Resets
    <2>1. n \in Sender => mote[n].ccvn = 0
        <3>1. n \in Sender => ~ (done[n] > h)
            BY ReadAir
        <3> QED
            BY <1>1, <3>1 DEF Fresh
    <2>2. mote[s].ccvn # 0
        BY <1>1 DEF Fresh
    <2>3. n = k \/ s \in Hearers(k)
        BY <1>10, <2>1, <2>2
    <2> QED
        BY <1>4, <2>3 DEF Coming, Waiting
<1> QED
    BY <1>1, <1>3, <1>6, <1>7, <1>8, <1>9, <1>11 DEF Flood

----------------------------------------------------------------------------
(* The invariant.                                                          *)

LEMMA LosslessIsApart == [LosslessNext]_vars => [ApartNext]_vars /\ [Next]_vars
<1>1. \A n \in Node : Hearers(n) \in SUBSET Hearers(n)
    OBVIOUS
<1> QED
    BY <1>1 DEF LosslessNext, Broadcast, ReceiveApart, ApartNext, Next, Operate, Receive

LEMMA FloodStart == Init => FloodInv
<1> SUFFICES ASSUME Init PROVE Flood(0, 0) /\ Ends(log)
    BY ApartStart DEF FloodInv
<1>0. Len(log) = 0 /\ log = <<>>
    BY DEF Init
<1>1. Ends(log)
    BY <1>0 DEF Ends
<1>2. Era(0, 0)
    BY <1>0 DEF Era, Plain
<1>3. Reading(0)
    BY <1>0 DEF Reading, VersionAt, Init, SinkBoot
<1>4. \A n \in Node : Waiting(n) = {} /\ Climbs(outq[n])
    BY DEF Init, Waiting, Lines, Climbs
<1>5. Queued(0, 0)
    BY <1>4 DEF Queued, Node
<1>6. Heard(0) /\ Unrepeated
    BY DEF Heard, Unrepeated, Init, SenderBoot
<1>7. Spread(0, 0) /\ Resets(0, 0) /\ Past(0)
    BY DEF Spread, Resets, Past
<1> QED
    BY <1>1, <1>2, <1>3, <1>5, <1>6, <1>7 DEF Flood

LEMMA FloodStay ==
    ASSUME NEW r \in Nat, NEW e \in Nat, Flood(r, e), UNCHANGED vars
    PROVE  Flood(r, e)'
<1>1. UNCHANGED <<scvn, log, serial, sink, mote, outq, done>>
    BY DEF vars
<1>2. Era(r, e)' /\ Reading(r)' /\ Queued(r, e)' /\ Heard(r)' /\ Unrepeated'
    BY <1>1 DEF Flood, Era, Reading, VersionAt, Queued, Waiting, Heard, Unrepeated
<1>3. Spread(r, e)' /\ Resets(r, e)' /\ Past(e)'
    BY <1>1 DEF Flood, Spread, Waiting, Resets, Fresh, Coming, Past, Useless
<1> QED
    BY <1>2, <1>3 DEF Flood

LEMMA FloodStep ==
    ASSUME OneSink, Reached, MaxRepeat >= 2, Room, FloodInv, [LosslessNext]_vars
    PROVE  FloodInv'
<1>0. ApartInv /\ Ends(log) /\ TypeOK
    BY DEF FloodInv, ApartInv
<1>1. ApartInv' /\ Ends(log)'
    BY <1>0, LosslessIsApart, ApartStep, EndsStep
<1> SUFFICES \E r, e \in Nat : Flood(r, e)'
    BY <1>1 DEF FloodInv
<1>2. PICK r \in Nat : \E e \in Nat : Flood(r, e)
    BY DEF FloodInv
<1>3. PICK e \in Nat : Flood(r, e)
    BY <1>2
<1>4. ASSUME NEW o \in Orders, SendCommand(o) PROVE Flood(r, e)'
    <2>1. Stamp(scvn, o) \in Line
        BY <1>0, ServerLines DEF TypeOK
    <2> QED
        BY <1>0, <1>3, <1>4, <2>1, FloodSend DEF SendCommand
<1>5. ASSUME Renumber PROVE Flood(r, e)'
    <2>1. PICK m \in Line : WriteTwo(ResetLine, m)
        BY <1>5, ServerLines, HandlersAssumption DEF Renumber, Rollover, GatewayConnect
    <2> QED
        BY <1>0, <1>3, <2>1, ServerLines, FloodSendTwo
<1>6. ASSUME NEW k \in Sink, Apart(k), SerialLine(k) PROVE Flood(r + 1, e)' \/ Flood(r + 1, r + 1)'
    <2>1. Reads(k, r + 1) /\ serial[k] # <<>>
        BY <1>0, <1>3, <1>6, ReadNext DEF SerialLine
    <2> QED
        BY <1>0, <1>3, <1>6, <2>1, FloodReadPlain, FloodReadReset
<1>7. ASSUME NEW n \in Node, Transmit(n, Hearers(n)) PROVE Flood(r, e)'
    <2>1. PICK i \in Id : Delivers(n, i) /\ n \notin Hearers(n)
        BY <1>0, <1>7, Delivery
    <2> QED
        BY <1>0, <1>3, <2>1, FloodTransmit
<1>8. ASSUME UNCHANGED vars PROVE Flood(r, e)'
    BY <1>3, <1>8, FloodStay
<1>9. r + 1 \in Nat
    OBVIOUS
<1> QED
    BY <1>4, <1>5, <1>6, <1>7, <1>8, <1>9 DEF LosslessNext, ReceiveApart, Broadcast

(* With one sink, links that lose nothing, and buffers enough, what the    *)
(* sink multicasts and the senders repeat (sender_command.c) floods the    *)
(* network in the order of the log.                                        *)
THEOREM LosslessInvariant ==
    ASSUME OneSink, Reached, MaxRepeat >= 2
    PROVE  LosslessSpec /\ []Room => []FloodInv
<1>1. Room /\ FloodInv /\ [LosslessNext]_vars => FloodInv'
    BY FloodStep
<1> QED
    BY <1>1, FloodStart, PTL DEF LosslessSpec

----------------------------------------------------------------------------
(* What follows from it.                                                   *)

LEMMA SkipStep ==
    ASSUME MaxRepeat >= 2, ApartInv, Ends(log), NEW r \in Nat, NEW e \in Nat, Flood(r, e),
           NEW n \in Node, NEW i \in Id, Delivers(n, i),
           NEW s \in Sender, NEW j \in Id, done[s] < j, j < done'[s]
    PROVE  Useless(s, j)
<1>0. done[s] \in Nat /\ j \in Nat /\ i \in Nat /\ i \in e..r
    BY HearLine DEF ApartInv, TypeOK, Id
<1>1. s \in Hearers(n) /\ done'[s] = i
    BY <1>0, HeardBy
<1>2. CASE j > e
    <2>1. j \in (e + 1)..r
        BY <1>0, <1>1, <1>2
    <2> QED
        BY <1>1, <2>1, HearLine DEF Useless
<1>3. CASE j = e
    <2>1. Fresh(s, e)
        BY <1>0, <1>1, <1>3 DEF Flood, Resets
    <2>2. mote[s].ccvn = 0 /\ log[j].kind = "RESET_CVN"
        BY <1>0, <1>3, <2>1 DEF Fresh, Flood, Era
    <2> QED
        BY <2>2 DEF Useless
<1>4. CASE j < e
    <2>1. j \in 1..(e - 1) /\ ~ (j <= done[s])
        BY <1>0, <1>4 DEF Id
    <2> QED
        BY <2>1 DEF Flood, Past
<1> QED
    BY <1>0, <1>2, <1>3, <1>4

(* The senders stay as they are, or a packet reaches all who hear it.      *)
LEMMA LosslessSenders ==
    ASSUME TypeOK, Room, [LosslessNext]_vars
    PROVE  \/ UNCHANGED <<mote, done>>
           \/ \E n \in Node : \E i \in Id : Delivers(n, i)
<1>1. ASSUME NEW n \in Node, Transmit(n, Hearers(n)) PROVE \E i \in Id : Delivers(n, i)
    BY <1>1, Delivery
<1>2. \/ UNCHANGED <<mote, done>>
      \/ \E n \in Node : Transmit(n, Hearers(n))
    BY DEF LosslessNext, ReceiveApart, Broadcast, SendCommand, Write, Renumber, Rollover,
           GatewayConnect, WriteTwo, SerialLine, vars
<1> QED
    BY <1>1, <1>2

(* Over lossless links no sender skips a command it has a use for, though  *)
(* one version number serves all of them (sender_command.c).               *)
THEOREM LosslessNoSkip ==
    ASSUME OneSink, Reached, MaxRepeat >= 2
    PROVE  LosslessSpec /\ []Room => NoSkip
<1> DEFINE Step == \A s \in Sender : \A i \in Id : done[s] < i /\ i < done'[s] => Useless(s, i)
<1>1. ASSUME FloodInv, Room, [LosslessNext]_vars PROVE Step
    <2>0. ApartInv /\ Ends(log) /\ TypeOK
        BY <1>1 DEF FloodInv, ApartInv
    <2>1. PICK r \in Nat : \E e \in Nat : Flood(r, e)
        BY <1>1 DEF FloodInv
    <2>2. PICK e \in Nat : Flood(r, e)
        BY <2>1
    <2>3. CASE UNCHANGED <<mote, done>>
        <3>1. \A s \in Sender : \A j \in Id : done[s] \in Nat /\ j \in Nat
            BY <2>0 DEF TypeOK, Id
        <3> QED
            BY <2>3, <3>1
    <2>4. ASSUME NEW n \in Node, NEW i \in Id, Delivers(n, i) PROVE Step
        BY <2>0, <2>2, <2>4, SkipStep
    <2> QED
        BY <1>1, <2>0, <2>3, <2>4, LosslessSenders
<1>2. ASSUME Room, FloodInv, [LosslessNext]_vars PROVE [Step]_vars
    BY <1>1, <1>2
<1> QED
    BY <1>2, LosslessInvariant, PTL DEF LosslessSpec, NoSkip

LEMMA IdleRead ==
    ASSUME Reached, ApartInv, NEW r \in Nat, NEW e \in Nat, Flood(r, e), Idle, NEW s \in Sender
    PROVE  r = Len(log) /\ \A n \in Node : Waiting(n) = {}
<1>1. Sink # {}
    <2> SUFFICES ASSUME Sink = {} PROVE FALSE
        OBVIOUS
    <2>1. {} \in SUBSET Node /\ Sink \subseteq {} /\ (\A n \in {} : Hearers(n) \subseteq {})
        OBVIOUS
    <2>2. Sender \subseteq {}
        BY <2>1 DEF Reached
    <2> QED
        BY <2>2
<1>2. PICK k \in Sink : TRUE
    BY <1>1
<1>3. Len(serial[k]) = 0 /\ Len(serial[k]) = Len(log) - r /\ Len(log) \in Nat
    BY DEF Idle, Flood, Reading, ApartInv, TypeOK
<1>4. \A n \in Node : Waiting(n) = {}
    BY DEF Idle, Quiet, Waiting, Lines
<1> QED
    BY <1>3, <1>4

(* Over lossless links the repetitions reach everyone: when nothing is     *)
(* under way, every sender has run the last command it has a use for.      *)
THEOREM LosslessInformed ==
    ASSUME OneSink, Reached, MaxRepeat >= 2
    PROVE  LosslessSpec /\ []Room => []AllInformed
<1>1. ASSUME FloodInv PROVE AllInformed
    <2> SUFFICES ASSUME Idle, NEW s \in Sender, NEW i \in Id
                 PROVE  i <= done[s] \/ Useless(s, i)
        BY DEF AllInformed
    <2>1. PICK r \in Nat : \E e \in Nat : Flood(r, e)
        BY <1>1 DEF FloodInv
    <2>2. PICK e \in Nat : Flood(r, e)
        BY <2>1
    <2>3. ApartInv
        BY <1>1 DEF FloodInv
    <2>4. r = Len(log) /\ \A n \in Node : Waiting(n) = {}
        BY <2>2, <2>3, IdleRead
    <2> QED
        BY <2>2, <2>3, <2>4, Informed DEF Id
<1> QED
    BY <1>1, LosslessInvariant, PTL

(* Over lossless links, resets included: when nothing is under way, every  *)
(* mote will accept the next version of the server.                        *)
THEOREM LosslessInStep ==
    ASSUME OneSink, Reached, MaxRepeat >= 2
    PROVE  LosslessSpec /\ []Room => []InStep
<1>1. ASSUME FloodInv, Idle PROVE InStep
    <2>1. PICK r \in Nat : \E e \in Nat : Flood(r, e)
        BY <1>1 DEF FloodInv
    <2>2. PICK e \in Nat : Flood(r, e)
        BY <2>1
    <2>3. /\ ApartInv /\ Ends(log) /\ Len(log) \in Nat /\ 0 < scvn
          /\ \A i \in Id : Plain(log, i, Len(log)) => log[i].cvn < scvn
        BY <1>1, HandlersAssumption DEF FloodInv, ApartInv, TypeOK, Sorted, Id
    <2>4. ASSUME NEW k \in Sink PROVE sink[k].ccvn < scvn
        <3>1. r = Len(log) /\ sink[k].ccvn = VersionAt(r)
            BY <1>1, <2>2, <2>3 DEF Idle, Flood, Reading
        <3>2. CASE VersionAt(r) = 0
            BY <2>3, <3>1, <3>2
        <3>3. CASE r # 0 /\ log[r].kind # "RESET_CVN"
            <4>1. r \in Id /\ Plain(log, r, Len(log))
                BY <2>3, <3>1, <3>3 DEF Id, Plain
            <4> QED
                BY <2>3, <3>1, <3>3, <4>1 DEF VersionAt
        <3> QED
            BY <3>2, <3>3 DEF VersionAt
    <2>5. ASSUME NEW s \in Sender PROVE mote[s].ccvn < scvn
        <3>1. r = Len(log) /\ \A n \in Node : Waiting(n) = {}
            BY <1>1, <2>2, <2>3, IdleRead
        <3>2. Fresh(s, e)
            BY <2>2, <2>3, <3>1, Arrived
        <3>3. CASE mote[s].ccvn = 0
            BY <2>3, <3>3
        <3>4. CASE mote[s].ccvn # 0
            <4>1. done[s] > e /\ done[s] \in 0..Len(log) /\ done[s] # 0
                BY <2>3, <3>2, <3>4 DEF Fresh, ApartInv, TypeOK, Ran
            <4>2. mote[s].ccvn = log[done[s]].cvn
                BY <2>3, <3>4 DEF ApartInv, Ran
            <4>3. done[s] \in Id /\ Plain(log, done[s], Len(log))
                BY <2>2, <2>3, <3>1, <4>1 DEF Id, Flood, Era, Plain
            <4> QED
                BY <2>3, <4>2, <4>3
        <3> QED
            BY <3>3, <3>4
    <2> QED
        BY <2>4, <2>5 DEF InStep
<1>2. FloodInv => InStep
    BY <1>1 DEF InStep
<1> QED
    BY <1>2, LosslessInvariant, PTL

----------------------------------------------------------------------------
(* The settings.                                                           *)

(* A command runs twice like once.                                         *)
LEMMA EffectAgain ==
    ASSUME NEW set \in Settings, NEW l \in Line
    PROVE  Effect(Effect(set, l), l) = Effect(set, l)
<1> DEFINE x == Effect(set, l)
<1>1. x \in Settings
    BY EffectType
<1>2. CASE l.arg = NoArg
    BY <1>2 DEF Effect
<1>3. CASE l.arg # NoArg /\ l.kind = "START"
    <2>1. x = [set EXCEPT !.running = @ \cup Named(l.arg)]
        BY <1>3 DEF Effect
    <2>2. Effect(x, l) = [x EXCEPT !.running = @ \cup Named(l.arg)]
        BY <1>3 DEF Effect
    <2>3. x.running \cup Named(l.arg) = x.running
        BY <2>1 DEF Settings
    <2> QED
        BY <1>1, <2>2, <2>3 DEF Settings
<1>4. CASE l.arg # NoArg /\ l.kind = "STOP"
    <2>1. x = [set EXCEPT !.running = @ \ Named(l.arg)]
        BY <1>4 DEF Effect
    <2>2. Effect(x, l) = [x EXCEPT !.running = @ \ Named(l.arg)]
        BY <1>4 DEF Effect
    <2>3. x.running \ Named(l.arg) = x.running
        BY <2>1 DEF Settings
    <2> QED
        BY <1>1, <2>2, <2>3 DEF Settings
<1>5. CASE l.arg # NoArg /\ l.kind = "DATA_PERIOD"
    BY <1>5 DEF Effect, Settings
<1>6. CASE l.arg # NoArg /\ l.kind = "TXPOWER"
    BY <1>6 DEF Effect, Settings
<1>7. CASE l.kind \in {"RESET_CVN"} \cup Local
    BY <1>7 DEF Effect, Local
<1> QED
    BY <1>2, <1>3, <1>4, <1>5, <1>6, <1>7, LineType DEF Repeated

(* A line without an argument, a reset among them, changes no settings.    *)
LEMMA Bare ==
    ASSUME NEW l \in Line, ~ Runs(l) \/ l.kind = "RESET_CVN"
    PROVE  l.arg = NoArg
<1>1. CASE l.kind \in {"RESET_CVN"} \cup Local
    BY <1>1, LineType DEF Order, Local
<1>2. CASE l.kind \in Repeated \ {"RESET_CVN"}
    BY <1>2 DEF Runs
<1> QED
    BY <1>1, <1>2, LineType

(* The settings after each line of the log L.                              *)
Along(L, f) ==
    /\ f \in [0..Len(L) -> Settings]
    /\ f[0] = InitSettings
    /\ \A i \in 1..Len(L) : f[i] = Effect(f[i - 1], L[i])
    /\ \A i, j \in 0..Len(L) :
          i <= j /\ (\A m \in (i + 1)..j : L[m].arg = NoArg) => f[i] = f[j]

LEMMA AlongAppend ==
    ASSUME NEW L \in Seq(Line), NEW l \in Line, NEW f, Along(L, f)
    PROVE  \E g : Along(Append(L, l), g) /\ \A i \in 0..Len(L) : g[i] = f[i]
<1> DEFINE n == Len(L)
           M == Append(L, l)
           g == [i \in 0..(n + 1) |-> IF i = n + 1 THEN Effect(f[n], l) ELSE f[i]]
<1>1. n \in Nat /\ Len(M) = n + 1 /\ M[n + 1] = l /\ \A i \in 1..n : M[i] = L[i]
    OBVIOUS
<1>2. /\ f \in [0..n -> Settings] /\ f[0] = InitSettings
      /\ \A i \in 1..n : f[i] = Effect(f[i - 1], L[i])
      /\ \A i, j \in 0..n : i <= j /\ (\A m \in (i + 1)..j : L[m].arg = NoArg) => f[i] = f[j]
    BY DEF Along
<1> HIDE DEF n, M
<1>3. Effect(f[n], l) \in Settings
    BY <1>1, <1>2, EffectType
<1>4. /\ g \in [0..(n + 1) -> Settings]
      /\ g[n + 1] = Effect(f[n], l) /\ (\A i \in 0..n : g[i] = f[i])
    BY <1>1, <1>2, <1>3
<1> HIDE DEF g
<1>5. ASSUME NEW i \in 1..(n + 1) PROVE g[i] = Effect(g[i - 1], M[i])
    <2>1. CASE i = n + 1
        <3>1. i - 1 = n /\ n \in 0..n
            BY <1>1, <2>1
        <3> QED
            BY <1>1, <1>4, <2>1, <3>1
    <2>2. CASE i \in 1..n
        <3>1. i \in 0..n /\ i - 1 \in 0..n
            BY <1>1, <2>2
        <3> QED
            BY <1>1, <1>2, <1>4, <2>2, <3>1
    <2> QED
        BY <1>1, <2>1, <2>2
<1>6. ASSUME NEW i \in 0..(n + 1), NEW j \in 0..(n + 1), i <= j,
             \A m \in (i + 1)..j : M[m].arg = NoArg
      PROVE  g[i] = g[j]
    <2>1. CASE i = j
        BY <2>1
    <2>2. CASE j \in 0..n
        <3>1. \A m \in (i + 1)..j : m \in 1..n
            BY <1>1, <2>2
        <3>2. \A m \in (i + 1)..j : L[m].arg = NoArg
            BY <1>1, <1>6, <3>1
        <3>3. i \in 0..n
            BY <1>1, <1>6, <2>2
        <3> QED
            BY <1>2, <1>4, <1>6, <2>2, <3>2, <3>3
    <2>3. CASE i \in 0..n /\ j = n + 1
        <3>1. j \in (i + 1)..j /\ \A m \in (i + 1)..n : m \in 1..n /\ m \in (i + 1)..j
            BY <1>1, <2>3
        <3>2. l.arg = NoArg /\ \A m \in (i + 1)..n : L[m].arg = NoArg
            BY <1>1, <1>6, <2>3, <3>1
        <3>3. i <= n /\ n \in 0..n
            BY <1>1, <2>3
        <3>4. f[i] = f[n]
            BY <1>2, <2>3, <3>2, <3>3
        <3>5. g[j] = f[n]
            BY <1>4, <2>3, <3>2 DEF Effect
        <3> QED
            BY <1>4, <2>3, <3>4, <3>5
    <2> QED
        BY <1>1, <1>6, <2>1, <2>2, <2>3
<1>7. 0 \in 0..n
    BY <1>1
<1>8. Along(M, g)
    BY <1>1, <1>2, <1>4, <1>5, <1>6, <1>7 DEF Along
<1>9. Along(M, g) /\ \A i \in 0..n : g[i] = f[i]
    BY <1>4, <1>8
<1> QED
    BY <1>9 DEF M, n

(* A sender has the settings that belong to the line it ran last, a sink   *)
(* the radio power that belongs to the line it read last.                  *)
Follows(f) ==
    /\ \A s \in Sender : mote[s].set = f[done[s]]
    /\ \A k \in Sink : sink[k].power = f[Len(log) - Len(serial[k])].power

SettingsInv == \E f : Along(log, f) /\ Follows(f)

LEMMA SettingsStart == Init => SettingsInv
<1> SUFFICES ASSUME Init PROVE SettingsInv
    OBVIOUS
<1> DEFINE f == [i \in 0..0 |-> InitSettings]
<1>1. Len(log) = 0 /\ InitSettings \in Settings
    BY HandlersAssumption DEF Init, InitSettings, Settings
<1>2. f \in [0..0 -> Settings] /\ f[0] = InitSettings
    BY <1>1
<1> HIDE DEF f
<1>3. \A i, j \in 0..0 : f[i] = f[j]
    OBVIOUS
<1>4. \A i \in 1..0 : FALSE
    OBVIOUS
<1>5. Along(log, f)
    BY <1>1, <1>2, <1>3, <1>4 DEF Along
<1>6. \A s \in Sender : mote[s].set = f[done[s]]
    BY <1>2 DEF Init, SenderBoot
<1>7. \A k \in Sink : sink[k].power = InitPower /\ Len(log) - Len(serial[k]) = 0
    BY <1>1 DEF Init, SinkBoot
<1>8. InitSettings.power = InitPower
    BY DEF InitSettings
<1> QED
    BY <1>2, <1>5, <1>6, <1>7, <1>8 DEF SettingsInv, Follows

LEMMA SettingsHear ==
    ASSUME MaxRepeat >= 2, ApartInv, Ends(log), NEW r \in Nat, NEW e \in Nat, Flood(r, e),
           NEW n \in Node, NEW i \in Id, Delivers(n, i),
           NEW f, Along(log, f), NEW s \in Sender, mote[s].set = f[done[s]]
    PROVE  mote'[s].set = f[done'[s]]
<1>1. CASE done'[s] = done[s] /\ mote'[s] = mote[s]
    BY <1>1
<1>2. CASE /\ done[s] <= i /\ done'[s] = i /\ SenderAccepts(mote[s], log[i])
           /\ mote'[s] = SenderAfter(mote[s], log[i])
    <2>1. mote'[s].set = Effect(f[done[s]], log[i])
        BY <1>2 DEF SenderAfter
    <2>2. /\ Len(log) \in Nat /\ i \in 1..Len(log) /\ i - 1 \in 0..Len(log)
          /\ done[s] \in 0..Len(log) /\ i \in 0..Len(log)
          /\ \A j \in Id : log[j] \in Line
        BY LineOf DEF ApartInv, TypeOK, Id
    <2>3. f[i] = Effect(f[i - 1], log[i]) /\ f[i - 1] \in Settings
        BY <2>2 DEF Along
    <2>4. CASE done[s] = i
        BY <1>2, <2>1, <2>2, <2>3, <2>4, EffectAgain DEF Id
    <2>5. CASE done[s] < i
        <3>1. ASSUME NEW j \in (done[s] + 1)..(i - 1) PROVE log[j].arg = NoArg
            <4>1. j \in Id /\ done[s] < j /\ j < done'[s]
                BY <1>2, <2>2 DEF Id
            <4>2. Useless(s, j)
                BY <4>1, SkipStep
            <4> QED
                BY <2>2, <4>1, <4>2, Bare DEF Useless
        <3>2. done[s] <= i - 1
            BY <2>2, <2>5
        <3>3. f[done[s]] = f[i - 1]
            BY <2>2, <3>1, <3>2 DEF Along
        <3> QED
            BY <1>2, <2>1, <2>3, <3>3
    <2> QED
        BY <1>2, <2>2, <2>4, <2>5
<1> QED
    BY <1>1, <1>2, HeardBy

LEMMA Rest ==
    ASSUME NEW n \in Nat, NEW r \in Nat, NEW m, m = n - r
    PROVE  n - m = r
OBVIOUS

LEMMA IdsNat ==
    ASSUME NEW n \in Nat, NEW q \in Seq(1..n)
    PROVE  q \in Seq(Nat)
BY SeqDef

LEMMA Longer ==
    ASSUME NEW q \in Seq(Nat), NEW i \in Nat
    PROVE  Append(q, i) \in Seq(Nat) /\ Len(Append(q, i)) = Len(q) + 1 /\ Len(q) \in Nat
OBVIOUS

(* The sink takes the power of a line that has one.                        *)
LEMMA EffectPower ==
    ASSUME NEW set \in Settings, NEW l \in Line, NEW k \in Sinks, SinkAccepts(k, l),
           k.power = set.power
    PROVE  SinkAfter(k, l).power = Effect(set, l).power
<1>1. SinkAfter(k, l).power = IF l.kind = "TXPOWER" /\ l.arg # NoArg THEN l.arg ELSE set.power
    BY DEF SinkAfter
<1>2. CASE l.kind = "TXPOWER" /\ l.arg # NoArg
    BY <1>1, <1>2 DEF Effect, Settings
<1>3. CASE ~ (l.kind = "TXPOWER" /\ l.arg # NoArg)
    BY <1>1, <1>3 DEF Effect, Settings
<1> QED
    BY <1>2, <1>3

LEMMA SettingsRead ==
    ASSUME OneSink, ApartInv, Ends(log), NEW r \in Nat, NEW e \in Nat, Flood(r, e),
           NEW k \in Sink, SerialLine(k), NEW f, Along(log, f), Follows(f)
    PROVE  Follows(f)'
<1> DEFINE h == r + 1
           q == serial[k]
<1>1. /\ Len(log) \in Nat /\ r \in 0..Len(log) /\ q \in Seq(1..Len(log)) /\ q # <<>>
      /\ serial \in [Sink -> Seq(Id)] /\ sink \in [Sink -> Sinks]
    BY DEF ApartInv, TypeOK, Flood, Era, SerialLine, Id
<1>2. Len(q) = Len(log) - r /\ (\A a \in 1..Len(q) : q[a] = r + a) /\ sink[k].ccvn = VersionAt(r)
    BY DEF Flood, Reading
<1>3. Head(q) = h /\ h \in Id /\ Len(Tail(q)) = Len(log) - h
    <2> HIDE DEF q
    <2> QED
        BY <1>1, <1>2, NextRead DEF Id
<1>4. SinkAccepts(sink[k], log[h])
    BY <1>2, <1>3, SinkTakes
<1>5. /\ serial'[k] = Tail(q) /\ sink'[k] = SinkAfter(sink[k], log[h])
      /\ UNCHANGED <<log, mote, done>>
    <2> HIDE DEF h
    <2> QED
        BY <1>1, <1>3 DEF SerialLine
<1>6. Len(log) - Len(q) = r /\ Len(log) - Len(Tail(q)) = h
    <2>1. h \in Nat
        OBVIOUS
    <2> HIDE DEF h, q
    <2> QED
        BY <1>1, <1>2, <1>3, <2>1, Rest
<1>7. sink[k].power = f[r].power
    BY <1>6 DEF Follows
<1>8. f[r] \in Settings /\ f[h] = Effect(f[r], log[h]) /\ log[h] \in Line
    <2>1. h \in 1..Len(log) /\ h - 1 = r
        BY <1>1, <1>3 DEF Id
    <2> HIDE DEF h
    <2> QED
        BY <1>1, <1>3, <2>1, LineOf DEF Along, ApartInv
<1> HIDE DEF h, q
<1>9. sink'[k].power = f[h].power
    BY <1>1, <1>4, <1>5, <1>7, <1>8, EffectPower
<1>10. \A x \in Sink : sink'[x].power = f[Len(log') - Len(serial'[x])].power
    <2>1. \A x \in Sink : x = k
        BY DEF OneSink
    <2> QED
        BY <1>5, <1>6, <1>9, <2>1
<1> QED
    BY <1>5, <1>10 DEF Follows

LEMMA SettingsStep ==
    ASSUME OneSink, MaxRepeat >= 2, Room, FloodInv, SettingsInv, [LosslessNext]_vars
    PROVE  SettingsInv'
<1>0. /\ ApartInv /\ Ends(log) /\ TypeOK /\ log \in Seq(Line) /\ Len(log) \in Nat
      /\ \A s \in Sender : done[s] \in 0..Len(log)
    BY DEF FloodInv, ApartInv, TypeOK
<1>14. \A k \in Sink : serial[k] \in Seq(Nat)
    <2>1. \A k \in Sink : serial[k] \in Seq(1..Len(log))
        BY <1>0 DEF Id, TypeOK
    <2> QED
        BY <1>0, <2>1, IdsNat
<1>1. PICK f : Along(log, f) /\ Follows(f)
    BY DEF SettingsInv
<1>2. PICK r \in Nat : \E e \in Nat : Flood(r, e)
    BY DEF FloodInv
<1>3. PICK e \in Nat : Flood(r, e)
    BY <1>2
<1>4. \A k \in Sink : Len(serial[k]) \in Nat /\ Len(log) - Len(serial[k]) \in 0..Len(log)
    BY <1>0, <1>3 DEF Flood, Reading, Era
<1>5. ASSUME NEW l \in Line, Write(l) PROVE SettingsInv'
    <2>1. /\ log' = Append(log, l) /\ UNCHANGED <<mote, done, sink>>
          /\ \A k \in Sink : serial'[k] = Append(serial[k], Len(log) + 1)
        BY <1>5 DEF Write
    <2>2. PICK g : Along(Append(log, l), g) /\ \A i \in 0..Len(log) : g[i] = f[i]
        BY <1>0, <1>1, AlongAppend
    <2>3. \A s \in Sender : mote'[s].set = g[done'[s]]
        BY <1>0, <1>1, <2>1, <2>2 DEF Follows
    <2>4. \A k \in Sink : Len(log') - Len(serial'[k]) = Len(log) - Len(serial[k])
        <3>1. Len(log') = Len(log) + 1
            BY <1>0, <2>1
        <3>2. \A k \in Sink : Len(serial'[k]) = Len(serial[k]) + 1
            <4>1. Len(log) + 1 \in Nat
                BY <1>0
            <4> QED
                BY <1>14, <2>1, <4>1, Longer
        <3> SUFFICES ASSUME NEW k \in Sink
                     PROVE  Len(log') - Len(serial'[k]) = Len(log) - Len(serial[k])
            OBVIOUS
        <3>3. Len(log) \in Nat /\ Len(serial[k]) \in Nat /\ Len(serial'[k]) = Len(serial[k]) + 1
            BY <1>0, <1>4, <3>2
        <3> QED
            BY <3>1, <3>3
    <2>5. \A k \in Sink : sink'[k].power = g[Len(log') - Len(serial'[k])].power
        BY <1>1, <1>4, <2>1, <2>2, <2>4 DEF Follows
    <2> QED
        BY <2>1, <2>2, <2>3, <2>5 DEF SettingsInv, Follows
<1>6. ASSUME NEW l \in Line, NEW m \in Line, WriteTwo(l, m) PROVE SettingsInv'
    <2> DEFINE L == Append(log, l)
    <2>1. /\ log' = Append(L, m) /\ UNCHANGED <<mote, done, sink>>
          /\ \A k \in Sink : serial'[k] = Append(Append(serial[k], Len(log) + 1), Len(log) + 2)
        BY <1>6 DEF WriteTwo
    <2>2. L \in Seq(Line) /\ Len(L) = Len(log) + 1
        BY <1>0
    <2>3. PICK g : Along(L, g) /\ \A i \in 0..Len(log) : g[i] = f[i]
        BY <1>0, <1>1, AlongAppend
    <2> HIDE DEF L
    <2>4. PICK h : Along(Append(L, m), h) /\ \A i \in 0..Len(L) : h[i] = g[i]
        BY <2>2, <2>3, AlongAppend
    <2>5. \A i \in 0..Len(log) : h[i] = f[i]
        BY <1>0, <2>2, <2>3, <2>4
    <2>6. \A s \in Sender : mote'[s].set = h[done'[s]]
        BY <1>0, <1>1, <2>1, <2>5 DEF Follows
    <2>7. Len(log') = Len(log) + 2
        BY <1>0, <2>1, <2>2
    <2>8. \A k \in Sink : Len(serial'[k]) = Len(serial[k]) + 2
        <3>1. Len(log) + 1 \in Nat /\ Len(log) + 2 \in Nat
            BY <1>0
        <3> SUFFICES ASSUME NEW k \in Sink PROVE Len(serial'[k]) = Len(serial[k]) + 2
            OBVIOUS
        <3> DEFINE p == Append(serial[k], Len(log) + 1)
        <3>2. p \in Seq(Nat) /\ Len(p) = Len(serial[k]) + 1 /\ Len(serial[k]) \in Nat
            BY <1>14, <3>1, Longer
        <3>3. serial'[k] = Append(p, Len(log) + 2)
            BY <2>1
        <3> HIDE DEF p
        <3>4. Len(serial'[k]) = Len(p) + 1
            BY <3>1, <3>2, <3>3, Longer
        <3> QED
            BY <3>2, <3>4
    <2>9. \A k \in Sink : Len(log') - Len(serial'[k]) = Len(log) - Len(serial[k])
        <3> SUFFICES ASSUME NEW k \in Sink
                     PROVE  Len(log') - Len(serial'[k]) = Len(log) - Len(serial[k])
            OBVIOUS
        <3>1. Len(log) \in Nat /\ Len(serial[k]) \in Nat /\ Len(serial'[k]) = Len(serial[k]) + 2
            BY <1>0, <1>4, <2>8
        <3> QED
            BY <2>7, <3>1
    <2>10. \A k \in Sink : sink'[k].power = h[Len(log') - Len(serial'[k])].power
        BY <1>1, <1>4, <2>1, <2>5, <2>9 DEF Follows
    <2> QED
        BY <2>1, <2>4, <2>6, <2>10 DEF SettingsInv, Follows
<1>7. ASSUME UNCHANGED <<log, serial, sink, mote, done>> PROVE SettingsInv'
    BY <1>1, <1>7 DEF SettingsInv, Follows
<1>8. ASSUME NEW n \in Node, NEW i \in Id, Delivers(n, i) PROVE SettingsInv'
    <2>1. \A s \in Sender : mote'[s].set = f[done'[s]]
        BY <1>0, <1>1, <1>3, <1>8, SettingsHear DEF Follows
    <2>2. UNCHANGED <<log, serial, sink>>
        BY <1>8 DEF Delivers
    <2> QED
        BY <1>1, <2>1, <2>2 DEF SettingsInv, Follows
<1>9. ASSUME NEW n \in Node, Transmit(n, Hearers(n)) PROVE SettingsInv'
    BY <1>0, <1>8, <1>9, Delivery
<1>10. ASSUME NEW o \in Orders, SendCommand(o) PROVE SettingsInv'
    <2>1. Stamp(scvn, o) \in Line
        BY <1>0, ServerLines DEF TypeOK
    <2> QED
        BY <1>5, <1>10, <2>1 DEF SendCommand
<1>11. ASSUME Renumber PROVE SettingsInv'
    <2>1. PICK m \in Line : WriteTwo(ResetLine, m)
        BY <1>11, ServerLines, HandlersAssumption DEF Renumber, Rollover, GatewayConnect
    <2> QED
        BY <1>6, <2>1, ServerLines
<1>12. ASSUME NEW k \in Sink, SerialLine(k) PROVE SettingsInv'
    <2>1. Follows(f)' /\ UNCHANGED log
        BY <1>0, <1>1, <1>3, <1>12, SettingsRead DEF SerialLine
    <2> QED
        BY <1>1, <2>1 DEF SettingsInv
<1>13. UNCHANGED vars => UNCHANGED <<log, serial, sink, mote, done>>
    BY DEF vars
<1> QED
    BY <1>7, <1>9, <1>10, <1>11, <1>12, <1>13 DEF LosslessNext, ReceiveApart, Broadcast

LEMMA IdleSettings ==
    ASSUME Reached, FloodInv, SettingsInv, Idle, NEW s \in Sender, NEW t \in Sender
    PROVE  /\ mote[s].set = mote[t].set
           /\ \A k \in Sink : sink[k].power = mote[s].set.power
<1>0. ApartInv /\ Len(log) \in Nat
    BY DEF FloodInv, ApartInv, TypeOK
<1>1. PICK f : Along(log, f) /\ Follows(f)
    BY DEF SettingsInv
<1>2. PICK r \in Nat : \E e \in Nat : Flood(r, e)
    BY DEF FloodInv
<1>3. PICK e \in Nat : Flood(r, e)
    BY <1>2
<1>4. ASSUME NEW x \in Sender PROVE mote[x].set = f[Len(log)]
    <2>1. r = Len(log) /\ \A n \in Node : Waiting(n) = {}
        BY <1>0, <1>3, IdleRead
    <2>2. done[x] \in 0..Len(log) /\ Len(log) \in 0..Len(log) /\ done[x] <= Len(log)
        BY <1>0 DEF ApartInv, TypeOK
    <2>3. ASSUME NEW j \in (done[x] + 1)..Len(log) PROVE log[j].arg = NoArg
        <3>1. j \in 1..r /\ j \in Id /\ ~ (j <= done[x])
            BY <2>1, <2>2 DEF Id
        <3>2. Useless(x, j)
            BY <1>0, <1>3, <2>1, <3>1, Informed
        <3> QED
            BY <1>0, <3>1, <3>2, Bare, LineOf DEF Useless, ApartInv
    <2> QED
        BY <1>1, <2>2, <2>3 DEF Along, Follows
<1>5. \A k \in Sink : sink[k].power = f[Len(log)].power
    <2>1. \A k \in Sink : Len(log) - Len(serial[k]) = Len(log)
        BY <1>0 DEF Idle
    <2> QED
        BY <1>1, <2>1 DEF Follows
<1> QED
    BY <1>4, <1>5

----------------------------------------------------------------------------
(* The versions.                                                           *)

LEMMA IdleVersions ==
    ASSUME Reached, FloodInv, FullLog(log), Idle, NEW s \in Sender, NEW t \in Sender
    PROVE  mote[s].ccvn = mote[t].ccvn
<1>0. ApartInv
    BY DEF FloodInv
<1>1. PICK r \in Nat : \E e \in Nat : Flood(r, e)
    BY DEF FloodInv
<1>2. PICK e \in Nat : Flood(r, e)
    BY <1>1
<1>3. r = Len(log) /\ \A n \in Node : Waiting(n) = {}
    BY <1>0, <1>2, IdleRead
<1>4. ASSUME NEW x \in Sender, NEW y \in Sender, done[x] > e PROVE done[x] <= done[y]
    <2>1. done[x] \in Nat /\ done[x] <= r /\ e \in Nat
        BY <1>0, <1>2 DEF ApartInv, TypeOK, Flood, Heard
    <2>2. done[x] \in (e + 1)..r /\ done[x] \in 1..Len(log) /\ done[x] # 0
        BY <1>3, <1>4, <2>1
    <2>3. Runs(log[done[x]])
        BY <1>2, <2>2 DEF Flood, Heard, FullLog
    <2> QED
        BY <1>0, <1>2, <1>3, <2>2, <2>3, Arrived
<1>5. /\ done[s] \in Nat /\ done[t] \in Nat
      /\ Fresh(s, e) /\ Fresh(t, e)
    BY <1>0, <1>2, <1>3, Arrived DEF ApartInv, TypeOK
<1>6. CASE done[s] > e \/ done[t] > e
    <2>1. done[s] = done[t]
        BY <1>4, <1>5, <1>6
    <2> QED
        BY <1>0, <2>1 DEF ApartInv, Ran
<1>7. CASE ~ (done[s] > e) /\ ~ (done[t] > e)
    BY <1>5, <1>7 DEF Fresh
<1> QED
    BY <1>6, <1>7

(* Over lossless links, resets included, when nothing is under way all     *)
(* senders have the same settings and the radio power of the sink: what    *)
(* each ran has the effect of the whole log, though the copies of a        *)
(* command make it run more than once.  They wait for the same version     *)
(* unless a command came without its argument.                             *)
THEOREM LosslessAgreement ==
    ASSUME OneSink, Reached, MaxRepeat >= 2
    PROVE  LosslessSpec /\ []Room => []Agreement
<1>1. Room /\ FloodInv /\ SettingsInv /\ [LosslessNext]_vars => SettingsInv'
    BY SettingsStep
<1>2. FloodInv /\ SettingsInv => Agreement
    BY IdleSettings, IdleVersions DEF Agreement
<1> QED
    BY <1>1, <1>2, SettingsStart, LosslessInvariant, PTL DEF LosslessSpec
----------------------------------------------------------------------------
(* The packet buffers.                                                     *)

(* The multicasts counted in g, as pairs of a line and a number.           *)
Copies(g) == {p \in (1..MaxLines) \X (1..(MaxRepeat - 1)) : p[2] <= g[p[1]]}

(* What a sender has queued, it has counted; what a sink has queued, or is *)
(* to read, was sent.                                                      *)
Held ==
    /\ \A s \in Sender : Len(outq[s]) <= Cardinality(Copies(repeats[s]))
    /\ \A k \in Sink : Len(outq[k]) + Len(serial[k]) <= Len(log)

LEMMA CopiesBound ==
    ASSUME NEW g, MaxRepeat >= 2
    PROVE  /\ IsFiniteSet(Copies(g))
           /\ Cardinality(Copies(g)) \in Nat
           /\ Cardinality(Copies(g)) <= MaxLines * (MaxRepeat - 1)
<1> DEFINE I == 1..MaxLines
           J == 1..(MaxRepeat - 1)
<1>1. MaxLines \in Nat /\ MaxRepeat \in Nat /\ MaxRepeat - 1 \in Nat
    BY HandlersAssumption, DisseminationAssumption
<1>2. /\ IsFiniteSet(I) /\ Cardinality(I) = MaxLines
      /\ IsFiniteSet(J) /\ Cardinality(J) = MaxRepeat - 1
    BY <1>1, FS_Interval
<1>3. Copies(g) \in SUBSET (I \X J)
    BY DEF Copies
<1> HIDE DEF I, J
<1>4. IsFiniteSet(I \X J) /\ Cardinality(I \X J) = MaxLines * (MaxRepeat - 1)
    BY <1>2, FS_Product
<1> QED
    BY <1>3, <1>4, FS_Subset, FS_CardinalityType

LEMMA CopiesMore ==
    ASSUME NEW g \in [1..MaxLines -> Nat], NEW i \in 1..MaxLines,
           MaxRepeat >= 2, g[i] + 1 < MaxRepeat
    PROVE  Cardinality(Copies([g EXCEPT ![i] = g[i] + 1])) = Cardinality(Copies(g)) + 1
<1> DEFINE h == [g EXCEPT ![i] = g[i] + 1]
           x == <<i, g[i] + 1>>
<1>1. MaxRepeat \in Nat /\ g[i] \in Nat
    BY HandlersAssumption
<1>2. x \in (1..MaxLines) \X (1..(MaxRepeat - 1)) /\ x[1] = i /\ x[2] = g[i] + 1
    BY <1>1
<1>3. x \notin Copies(g) /\ x \in Copies(h)
    BY <1>1, <1>2 DEF Copies
<1>4. ASSUME NEW p \in (1..MaxLines) \X (1..(MaxRepeat - 1))
      PROVE  p \in Copies(h) <=> p \in Copies(g) \/ p = x
    <2>1. p[1] \in 1..MaxLines /\ p[2] \in Int /\ p = <<p[1], p[2]>>
        BY <1>4
    <2>2. CASE p[1] # i
        BY <1>2, <2>1, <2>2 DEF Copies
    <2>3. CASE p[1] = i
        <3>1. h[p[1]] = g[i] + 1
            BY <2>3
        <3>2. p[2] <= g[i] + 1 <=> p[2] <= g[i] \/ p[2] = g[i] + 1
            BY <1>1, <2>1
        <3>3. p[2] = g[i] + 1 <=> p = x
            <4>1. p[2] = g[i] + 1 => p = x
                BY <2>1, <2>3
            <4>2. p = x => p[2] = g[i] + 1
                BY <1>2
            <4> QED
                BY <4>1, <4>2
        <3> QED
            BY <1>4, <2>3, <3>1, <3>2, <3>3 DEF Copies
    <2> QED
        BY <2>2, <2>3
<1>5. Copies(h) = Copies(g) \cup {x}
    <2> HIDE DEF h, x
    <2>1. Copies(g) \subseteq (1..MaxLines) \X (1..(MaxRepeat - 1))
        BY DEF Copies
    <2>2. Copies(h) \subseteq (1..MaxLines) \X (1..(MaxRepeat - 1))
        BY DEF Copies
    <2> QED
        BY <1>2, <1>4, <2>1, <2>2
<1> HIDE DEF h, x
<1>6. Cardinality(Copies(g) \cup {x}) = Cardinality(Copies(g)) + 1
    BY <1>3, CopiesBound, FS_AddElement
<1> QED
    BY <1>5, <1>6 DEF h

LEMMA Lengths ==
    ASSUME TypeOK, NEW k \in Sink
    PROVE  /\ Len(log) \in Nat /\ Len(log) <= MaxLines
           /\ Len(outq[k]) \in Nat /\ Len(serial[k]) \in Nat
<1>1. log \in Seq(Line) /\ outq[k] \in Seq(Id) /\ serial[k] \in Seq(Id)
    BY DEF TypeOK, Node
<1>2. Len(log) \in Nat
    BY <1>1
<1>3. Len(outq[k]) \in Nat
    BY <1>1
<1>4. Len(serial[k]) \in Nat
    BY <1>1
<1> QED
    BY <1>2, <1>3, <1>4 DEF TypeOK

(* What sink k has queued or is to read grows no faster than the log.      *)
Slower(k) ==
    Len(outq'[k]) + Len(serial'[k]) + Len(log) <= Len(outq[k]) + Len(serial[k]) + Len(log')

LEMMA HeldSink ==
    ASSUME TypeOK, TypeOK', Held, NEW k \in Sink, Slower(k)
    PROVE  Len(outq'[k]) + Len(serial'[k]) <= Len(log')
<1>1. Len(log) \in Nat /\ Len(outq[k]) \in Nat /\ Len(serial[k]) \in Nat
    BY Lengths
<1>2. Len(log') \in Nat /\ Len(outq'[k]) \in Nat /\ Len(serial'[k]) \in Nat
    <2>1. log' \in Seq(Line) /\ outq'[k] \in Seq(Id') /\ serial'[k] \in Seq(Id')
        BY DEF TypeOK, Node
    <2> QED
        BY <2>1
<1>3. Len(outq[k]) + Len(serial[k]) <= Len(log)
    BY DEF Held
<1> DEFINE a == Len(outq[k])
           b == Len(serial[k])
           c == Len(outq'[k])
           d == Len(serial'[k])
           m == Len(log)
           x == Len(log')
<1>4. /\ a \in Nat /\ b \in Nat /\ c \in Nat /\ d \in Nat /\ m \in Nat /\ x \in Nat
      /\ a + b <= m /\ c + d + m <= a + b + x
    BY <1>1, <1>2, <1>3 DEF Slower
<1> HIDE DEF a, b, c, d, m, x
<1>5. c + d <= x
    BY <1>4
<1> QED
    BY <1>5 DEF c, d, x

(* The same, as a change of each of the three lengths.                     *)
LEMMA Slow ==
    ASSUME TypeOK, TypeOK', NEW k \in Sink, NEW n \in Nat,
           Len(log') = Len(log) + n,
           \/ Len(outq'[k]) <= Len(outq[k]) /\ Len(serial'[k]) = Len(serial[k]) + n
           \/ n = 0 /\ Len(outq'[k]) <= Len(outq[k]) + 1 /\ Len(serial'[k]) = Len(serial[k]) - 1
    PROVE  Slower(k)
<1>1. Len(log) \in Nat /\ Len(outq[k]) \in Nat /\ Len(serial[k]) \in Nat
    BY Lengths
<1>2. Len(log') \in Nat /\ Len(outq'[k]) \in Nat /\ Len(serial'[k]) \in Nat
    <2>1. log' \in Seq(Line) /\ outq'[k] \in Seq(Id') /\ serial'[k] \in Seq(Id')
        BY DEF TypeOK, Node
    <2> QED
        BY <2>1
<1> DEFINE a == Len(outq[k])
           b == Len(serial[k])
           c == Len(outq'[k])
           d == Len(serial'[k])
           m == Len(log)
           x == Len(log')
<1>3. /\ a \in Nat /\ b \in Nat /\ c \in Nat /\ d \in Nat /\ m \in Nat /\ x \in Nat
      /\ x = m + n
      /\ (c <= a /\ d = b + n) \/ (n = 0 /\ c <= a + 1 /\ d = b - 1)
    BY <1>1, <1>2
<1> HIDE DEF a, b, c, d, m, x
<1>4. c + d + m <= a + b + x
    BY <1>3
<1> QED
    BY <1>4 DEF a, b, c, d, m, x, Slower

LEMMA HeldSend ==
    ASSUME TypeOK, TypeOK', Held, Renumber \/ \E o \in Orders : SendCommand(o)
    PROVE  Held'
<1>1. /\ log \in Seq(Line) /\ \A k \in Sink : serial[k] \in Seq(Id)
      /\ \A k \in Sink : Len(outq[k]) \in Nat /\ Len(serial[k]) \in Nat
    BY Lengths DEF TypeOK
<1>2. ASSUME NEW l, Write(l) PROVE Held'
    <2> SUFFICES ASSUME NEW k \in Sink PROVE Len(outq'[k]) + Len(serial'[k]) <= Len(log')
        BY <1>2 DEF Write, Held
    <2>1. Len(log') = Len(log) + 1 /\ outq'[k] = outq[k]
        BY <1>1, <1>2 DEF Write
    <2>2. Len(serial'[k]) = Len(serial[k]) + 1
        BY <1>1, <1>2 DEF Write
    <2>3. Len(outq[k]) \in Nat /\ Len(serial[k]) \in Nat
        BY Lengths
    <2>4. Slower(k)
        BY <2>1, <2>2, <2>3, Slow
    <2> QED
        BY <2>4, HeldSink
<1>3. ASSUME NEW l, NEW m, WriteTwo(l, m) PROVE Held'
    <2> SUFFICES ASSUME NEW k \in Sink PROVE Len(outq'[k]) + Len(serial'[k]) <= Len(log')
        BY <1>3 DEF WriteTwo, Held
    <2>1. Len(log') = Len(log) + 2 /\ outq'[k] = outq[k]
        BY <1>1, <1>3 DEF WriteTwo
    <2>2. Len(serial'[k]) = Len(serial[k]) + 2
        BY <1>1, <1>3 DEF WriteTwo
    <2>3. Len(outq[k]) \in Nat /\ Len(serial[k]) \in Nat
        BY Lengths
    <2>4. Slower(k)
        BY <2>1, <2>2, <2>3, Slow
    <2> QED
        BY <2>4, HeldSink
<1> QED
    BY <1>2, <1>3 DEF Renumber, GatewayConnect, Rollover, SendCommand

LEMMA HeldRead ==
    ASSUME TypeOK, TypeOK', Held, NEW k \in Sink, LoseLine(k) \/ SerialLine(k)
    PROVE  Held'
<1>1. /\ serial[k] # <<>> /\ serial' = [serial EXCEPT ![k] = Tail(@)]
      /\ UNCHANGED <<log, repeats>>
      /\ outq' = outq \/ outq' = [outq EXCEPT ![k] = Enqueue(@, Head(serial[k]))]
    BY DEF LoseLine, SerialLine
<1>2. k \in Node /\ k \notin Sender /\ Sink \subseteq Node /\ Sender \subseteq Node
    BY DisseminationAssumption DEF Node
<1>3. /\ \A n \in Node \ {k} : outq'[n] = outq[n]
      /\ outq'[k] = outq[k] \/ outq'[k] = Enqueue(outq[k], Head(serial[k]))
    BY <1>1, <1>2 DEF TypeOK
<1>4. serial'[k] = Tail(serial[k]) /\ \A l \in Sink \ {k} : serial'[l] = serial[l]
    BY <1>1 DEF TypeOK
<1>5. ASSUME NEW s \in Sender PROVE outq'[s] = outq[s]
    BY <1>2, <1>3
<1>6. Len(log') = Len(log) + 0
    BY <1>1, Lengths
<1>7. Len(outq'[k]) + Len(serial'[k]) <= Len(log')
    <2>1. outq[k] \in Seq(Id) /\ serial[k] \in Seq(Id)
        BY <1>2 DEF TypeOK
    <2>2. Len(outq[k]) \in Nat /\ Len(serial[k]) \in Nat
        BY Lengths
    <2>3. Len(Tail(serial[k])) = Len(serial[k]) - 1
        BY <1>1, <2>1
    <2>4. Len(serial'[k]) = Len(serial[k]) - 1
        BY <1>4, <2>3
    <2> DEFINE q == outq[k]
               p == Enqueue(q, Head(serial[k]))
    <2>5. Len(p) = Len(q) \/ Len(p) = Len(q) + 1
        <3>1. q \in Seq(Id) /\ Head(serial[k]) \in Id
            BY <1>1, <2>1
        <3> HIDE DEF q
        <3> QED
            BY <3>1 DEF Enqueue
    <2>6. Len(outq'[k]) <= Len(outq[k]) + 1
        BY <1>3, <2>2, <2>5
    <2>7. Slower(k)
        BY <1>6, <2>4, <2>6, Slow
    <2> QED
        BY <2>7, HeldSink
<1>8. ASSUME NEW l \in Sink, l # k PROVE Len(outq'[l]) + Len(serial'[l]) <= Len(log')
    <2>1. outq'[l] = outq[l] /\ serial'[l] = serial[l]
        BY <1>2, <1>3, <1>4, <1>8
    <2> QED
        BY <1>1, <2>1 DEF Held
<1> QED
    BY <1>1, <1>5, <1>7, <1>8 DEF Held

LEMMA HeldTransmit ==
    ASSUME TypeOK, TypeOK', MaxRepeat >= 2, Repeating, Repeating', Held,
           NEW n \in Node, NEW R \in SUBSET Hearers(n), Transmit(n, R)
    PROVE  Held'
<1>1. PICK i \in Id : i = Head(outq[n])
    BY TransmitId
<1> DEFINE Forwards(s) == s \in R /\ SenderForwards(mote[s], log[i])
<1>2. /\ UNCHANGED <<log, serial>> /\ outq[n] # <<>>
      /\ outq' = [x \in Node |-> IF x = n THEN Tail(outq[n])
                                 ELSE IF x \in Sender /\ Forwards(x) THEN Enqueue(outq[x], i)
                                 ELSE outq[x]]
      /\ repeats' = [s \in Sender |-> IF Forwards(s) THEN Count(repeats[s], i) ELSE repeats[s]]
    BY <1>1 DEF Transmit
<1> HIDE DEF Forwards
<1>3. /\ Sink \subseteq Node /\ Sender \subseteq Node /\ Sink \cap Sender = {}
      /\ \A x \in Node : outq[x] \in Seq(Id)
      /\ i \in 1..MaxLines
    <2>1. Len(log) \in Nat /\ Len(log) <= MaxLines /\ MaxLines \in Nat
        BY DisseminationAssumption DEF TypeOK
    <2> QED
        BY <1>1, <2>1, DisseminationAssumption DEF Node, TypeOK, Id
<1>4. ASSUME NEW s \in Sender
      PROVE  Len(outq'[s]) <= Cardinality(Copies(repeats'[s]))
    <2>1. repeats[s] \in [1..MaxLines -> Nat] /\ MaxRepeat \in Nat
        BY HandlersAssumption DEF TypeOK
    <2>2. repeats[s][i] \in Nat /\ repeats[s][i] < MaxRepeat /\ repeats'[s][i] < MaxRepeat
        BY <1>3, <2>1 DEF Repeating
    <2> DEFINE c == Cardinality(Copies(repeats[s]))
               d == Cardinality(Copies(repeats'[s]))
               a == Len(outq[s])
               b == Len(outq'[s])
    <2>3. c \in Nat /\ a <= c /\ a \in Nat
        <3>1. outq[s] \in Seq(Id)
            BY <1>3
        <3>2. Len(outq[s]) \in Nat
            BY <3>1
        <3> QED
            BY <3>2, CopiesBound DEF Held
    <2>4. Forwards(s) => d = c + 1
        <3> SUFFICES ASSUME Forwards(s) PROVE d = c + 1
            OBVIOUS
        <3>1. repeats'[s] = [repeats[s] EXCEPT ![i] = repeats[s][i] + 1]
            BY <1>2, <2>1, <2>2 DEF Count
        <3>2. repeats[s][i] + 1 < MaxRepeat
            BY <1>3, <2>1, <2>2, <3>1
        <3> QED
            BY <1>3, <2>1, <3>1, <3>2, CopiesMore
    <2>5. ~ Forwards(s) => d = c
        BY <1>2
    <2>6. s = n => b = a - 1
        BY <1>2, <1>3
    <2>7. s # n /\ Forwards(s) => b = a \/ b = a + 1
        BY <1>2, <1>3 DEF Enqueue
    <2>8. s # n /\ ~ Forwards(s) => b = a
        BY <1>2, <1>3
    <2> HIDE DEF a, b, c, d
    <2>9. b <= d
        BY <2>3, <2>4, <2>5, <2>6, <2>7, <2>8
    <2> QED
        BY <2>9 DEF b, d
<1>5. ASSUME NEW k \in Sink
      PROVE  Len(outq'[k]) + Len(serial'[k]) <= Len(log')
    <2>1. k \in Node /\ k \notin Sender /\ outq[k] \in Seq(Id)
        BY <1>3
    <2>2. Len(outq[k]) \in Nat /\ Len(serial[k]) \in Nat /\ Len(log) \in Nat
        BY Lengths
    <2>3. Len(outq'[k]) = Len(outq[k]) \/ Len(outq'[k]) = Len(outq[k]) - 1
        BY <1>2, <2>1
    <2>4. Len(log') = Len(log) + 0
        BY <1>2, <2>2
    <2>5. Len(outq'[k]) <= Len(outq[k])
        BY <2>2, <2>3
    <2>6. Len(serial'[k]) = Len(serial[k]) + 0
        BY <1>2, <2>2
    <2>7. Slower(k)
        BY <2>4, <2>5, <2>6, Slow
    <2> QED
        BY <2>7, HeldSink
<1> QED
    BY <1>4, <1>5 DEF Held

LEMMA HeldReboot ==
    ASSUME TypeOK, TypeOK', MaxRepeat >= 2, Held,
           (\E k \in Sink : RebootSink(k)) \/ (\E s \in Sender : RebootSender(s))
    PROVE  Held'
<1>1. PICK n \in Node :
         /\ UNCHANGED <<log, serial>> /\ outq' = [outq EXCEPT ![n] = <<>>]
         /\ \A s \in Sender : s # n => repeats'[s] = repeats[s]
    BY DEF RebootSink, RebootSender, TypeOK, Node
<1>2. \A x \in Node : outq'[x] = IF x = n THEN <<>> ELSE outq[x]
    BY <1>1 DEF TypeOK
<1>3. ASSUME NEW s \in Sender PROVE Len(outq'[s]) <= Cardinality(Copies(repeats'[s]))
    <2>1. CASE s = n
        <3>1. Len(outq'[s]) = 0
            BY <1>2, <2>1
        <3>2. Cardinality(Copies(repeats'[s])) \in Nat
            BY CopiesBound
        <3> QED
            BY <3>1, <3>2
    <2>2. CASE s # n
        <3>1. outq'[s] = outq[s] /\ repeats'[s] = repeats[s]
            BY <1>1, <1>2, <2>2 DEF Node
        <3> QED
            BY <3>1 DEF Held
    <2> QED
        BY <2>1, <2>2
<1>4. ASSUME NEW k \in Sink PROVE Len(outq'[k]) + Len(serial'[k]) <= Len(log')
    <2>1. Len(outq[k]) \in Nat /\ Len(serial[k]) \in Nat /\ Len(log) \in Nat
        BY Lengths
    <2>2. outq'[k] = outq[k] \/ outq'[k] = <<>>
        BY <1>2 DEF Node
    <2>3. Len(outq'[k]) = Len(outq[k]) \/ Len(outq'[k]) = 0
        BY <2>2
    <2>4. Len(log') = Len(log) + 0
        BY <1>1, <2>1
    <2>5. Len(outq'[k]) <= Len(outq[k])
        BY <2>1, <2>3
    <2>6. Len(serial'[k]) = Len(serial[k]) + 0
        BY <1>1, <2>1
    <2>7. Slower(k)
        BY <2>4, <2>5, <2>6, Slow
    <2> QED
        BY <2>7, HeldSink
<1> QED
    BY <1>3, <1>4 DEF Held

LEMMA HeldStep ==
    ASSUME TypeOK, TypeOK', MaxRepeat >= 2, Repeating, Repeating', Held, [Next]_vars
    PROVE  Held'
<1>1. ASSUME UNCHANGED vars PROVE Held'
    BY <1>1 DEF vars, Held
<1> QED
    BY <1>1, HeldSend, HeldRead, HeldTransmit, HeldReboot DEF Next, Operate, Receive

LEMMA HeldRoom ==
    ASSUME TypeOK, Held, MaxRepeat >= 2, OutCap > MaxLines * (MaxRepeat - 1)
    PROVE  Room
<1> SUFFICES ASSUME NEW n \in Node PROVE Len(outq[n]) < OutCap
    BY DEF Room
<1> DEFINE x == MaxLines * (MaxRepeat - 1)
<1>1. MaxLines \in Nat /\ OutCap \in Nat /\ MaxRepeat \in Nat
    BY DisseminationAssumption, HandlersAssumption
<1>2. x \in Nat /\ MaxLines <= x
    <2>1. MaxRepeat - 1 \in Nat /\ MaxRepeat - 1 >= 1
        BY <1>1
    <2>2. \A a, b \in Nat : b >= 1 => a * b \in Nat /\ a <= a * b
        OBVIOUS
    <2> QED
        BY <1>1, <2>1, <2>2
<1>3. x < OutCap
    BY <1>1, <1>2
<1> HIDE DEF x
<1>4. CASE n \in Sender
    <2>1. Len(outq[n]) <= Cardinality(Copies(repeats[n]))
        BY <1>4 DEF Held
    <2>2. Cardinality(Copies(repeats[n])) \in Nat /\ Cardinality(Copies(repeats[n])) <= x
        BY CopiesBound DEF x
    <2>3. outq[n] \in Seq(Id)
        BY DEF TypeOK
    <2>4. Len(outq[n]) \in Nat
        BY <2>3
    <2> QED
        BY <1>1, <1>2, <1>3, <2>1, <2>2, <2>4
<1>5. CASE n \in Sink
    <2>1. /\ Len(outq[n]) \in Nat /\ Len(serial[n]) \in Nat
          /\ Len(log) \in Nat /\ Len(log) <= MaxLines
        BY <1>5, Lengths
    <2>2. Len(outq[n]) + Len(serial[n]) <= Len(log)
        BY <1>5 DEF Held
    <2> DEFINE a == Len(outq[n])
               b == Len(serial[n])
               m == Len(log)
    <2>3. a \in Nat /\ b \in Nat /\ m \in Nat /\ a + b <= m /\ m <= MaxLines
        BY <2>1, <2>2
    <2> HIDE DEF a, b, m
    <2>4. a <= MaxLines
        BY <1>1, <2>3
    <2>5. a < OutCap
        BY <1>1, <1>2, <1>3, <2>3, <2>4
    <2> QED
        BY <2>5 DEF a
<1> QED
    BY <1>4, <1>5 DEF Node

(* csma.c drops what finds no free buffer.  MAX_REPEAT - 1 buffers for     *)
(* each line of the log are enough that nothing is dropped, whatever is    *)
(* lost and however the copies overlap, resets apart from other lines and  *)
(* no counter wrapping.                                                    *)
THEOREM RoomEnough ==
    ASSUME OneSink, MaxRepeat >= 2, OutCap > MaxLines * (MaxRepeat - 1)
    PROVE  ApartSpec /\ []NoWrap => []Room
<1> DEFINE Inv == ApartInv /\ Ends(log) /\ Repeating /\ Held
<1>1. Init => Inv
    <2>1. Init => Held
        <3> SUFFICES ASSUME Init PROVE Held
            OBVIOUS
        <3>1. ASSUME NEW s \in Sender PROVE Len(outq[s]) <= Cardinality(Copies(repeats[s]))
            <4>1. Len(outq[s]) = 0
                BY DEF Init, Node
            <4>2. Cardinality(Copies(repeats[s])) \in Nat
                BY CopiesBound
            <4> QED
                BY <4>1, <4>2
        <3>2. ASSUME NEW k \in Sink PROVE Len(outq[k]) + Len(serial[k]) <= Len(log)
            <4>1. Len(outq[k]) = 0 /\ Len(serial[k]) = 0 /\ Len(log) = 0
                BY DEF Init, Node
            <4> QED
                BY <4>1
        <3> QED
            BY <3>1, <3>2 DEF Held
    <2> QED
        BY <2>1, ApartStart, RepeatStart
<1>2. Inv /\ NoWrap /\ [ApartNext]_vars => Inv'
    <2> SUFFICES ASSUME Inv, NoWrap, [ApartNext]_vars PROVE Inv'
        OBVIOUS
    <2>1. ApartInv' /\ Ends(log') /\ Repeating'
        BY ApartStep, ApartIsNext, ApartForward, EndsStep, RepeatStep DEF ApartInv
    <2>2. Held'
        BY <2>1, ApartIsNext, HeldStep DEF ApartInv
    <2> QED
        BY <2>1, <2>2
<1>3. Inv => Room
    BY HeldRoom DEF ApartInv
<1> QED
    BY <1>1, <1>2, <1>3, PTL DEF ApartSpec
=============================================================================
