------------------------------ MODULE NodeGeoloc ------------------------------
(***************************************************************************)
(* The geolocation module of the senders (geolocation.c).                  *)
(*                                                                         *)
(* A mote broadcasts a beacon every second or two.  It keeps the source of *)
(* every beacon it hears, with the signal strength, in gdata, and sends    *)
(* the pairs to the server when the buffer is full or half a minute is     *)
(* over.  When its button is pressed it broadcasts a request, which all    *)
(* motes in range answer; answers go to a buffer of their own until five   *)
(* seconds are over.                                                       *)
(*                                                                         *)
(* Only the source of a pair is kept here.  A timer is no state: whenever  *)
(* the module runs, any of the timers may have expired since the last      *)
(* time.  The exception is the timer of a request, which is not set again  *)
(* when it expires.                                                        *)
(***************************************************************************)
EXTENDS Integers, Sequences, FiniteSets

CONSTANTS
    Sender,         \* the motes
    Link,           \* <<n, s>> when s hears n
    DataLength,     \* GEOLOC_DATA_LENGTH
    OutCap,         \* QUEUEBUF_NUM, packets a mote can have waiting
    MaxPresses      \* bound on the requests made with the button

ASSUME GeolocAssumption ==
    /\ Link \subseteq Sender \X Sender
    /\ \A s \in Sender : <<s, s>> \notin Link
    /\ DataLength \in Nat \ {0}
    /\ OutCap \in Nat
    /\ MaxPresses \in Nat

(* The types of a broadcast packet.                                        *)
SIMPLE == "SIMPLE_SEND"
REQUEST == "REQUEST_RESPONSE"
RESPONSE == "RESPONSE"

Type == {SIMPLE, REQUEST, RESPONSE}

Timer == {"request", "beacon", "report"}

Buffer == {b \in Seq(Sender) : Len(b) < DataLength}

(* started, waiting_resp, whether gReqTim is expired, the type of the next *)
(* packet, gdata[0..geoloc_cnt-1], neighbors_resp[0..neigh_resp_cnt-1].    *)
Motes == [started : BOOLEAN, waiting : BOOLEAN, late : BOOLEAN, type : Type,
          own : Buffer, resp : Buffer]

MoteBoot == [started |-> FALSE, waiting |-> FALSE, late |-> TRUE, type |-> SIMPLE,
             own |-> <<>>, resp |-> <<>>]

----------------------------------------------------------------------------
(* geoloc_handler(): a pair goes into a buffer; a full buffer is sent.     *)

(* Variant: the counter goes back to 1.                                    *)
PutOne(b, n) == IF Len(b) + 1 >= DataLength THEN <<n>> ELSE Append(b, n)

(* Variant: the buffer is sent one pair too late.                          *)
PutLate(b, n) == IF Len(b) + 1 > DataLength THEN <<>> ELSE Append(b, n)

Put(b, n) == IF Len(b) + 1 >= DataLength THEN <<>> ELSE Append(b, n)

(* What geoloc_data_send() sends then.                                     *)
Full(b, n) == IF Len(b) + 1 >= DataLength THEN Append(b, n) ELSE <<>>

(* "type==G_SIMPLE_SEND || (type==G_RESPONSE && !waiting_resp)"            *)
IsOwn(m, ty) == ty = SIMPLE \/ (ty = RESPONSE /\ ~ m.waiting)

IsAnswer(m, ty) == ty = RESPONSE /\ m.waiting

(* handle_reception() of a packet of type ty from n.                       *)
AfterReception(m, n, ty) ==
    IF ~ m.started THEN m
    ELSE IF IsOwn(m, ty) THEN [m EXCEPT !.own = Put(@, n)]
    ELSE IF IsAnswer(m, ty) THEN [m EXCEPT !.resp = Put(@, n)]
    ELSE [m EXCEPT !.type = SIMPLE]

(* Variant: answers are answered too.                                      *)
AnswersAll(m, ty) == m.started /\ ty # SIMPLE

(* g_resp(): only requests are answered.                                   *)
Answers(m, ty) == m.started /\ ty = REQUEST

ReportedBy(m, n, ty) ==
    IF ~ m.started THEN <<>>
    ELSE IF IsOwn(m, ty) THEN Full(m.own, n)
    ELSE IF IsAnswer(m, ty) THEN Full(m.resp, n) ELSE <<>>

----------------------------------------------------------------------------
(* geoloc_check(), when the timers of E have expired.                      *)

Over(m, E) == m.late \/ "request" \in E

(* Variant: a single answer does not count.                                *)
TimeoutMany(m, E) == Len(m.resp) > 1 /\ Over(m, E)

(* "neigh_resp_cnt>0 && etimer_expired(&gReqTim)"                          *)
Timeout(m, E) == m.resp # <<>> /\ Over(m, E)

(* Variant: neigh_resp_cnt is not reset.                                   *)
AfterCheckKept(m, E) ==
    [m EXCEPT !.waiting = @ /\ ~ Timeout(m, E),
              !.late = Over(m, E),
              !.own = IF "report" \in E THEN <<>> ELSE @,
              !.type = IF "beacon" \in E THEN SIMPLE ELSE @]

AfterCheck(m, E) ==
    [m EXCEPT !.waiting = @ /\ ~ Timeout(m, E),
              !.resp = IF Timeout(m, E) THEN <<>> ELSE @,
              !.late = Over(m, E),
              !.own = IF "report" \in E THEN <<>> ELSE @,
              !.type = IF "beacon" \in E THEN SIMPLE ELSE @]

(* g_periodic_send(): the packet has the type set before, and the type of  *)
(* the next one is SIMPLE_SEND again.                                      *)
Beacons(m, E) == IF "beacon" \in E THEN <<m.type>> ELSE <<>>

AfterPress(m) == [m EXCEPT !.waiting = TRUE, !.late = FALSE, !.type = SIMPLE]

----------------------------------------------------------------------------
VARIABLES
    mote,       \* state of the module on each mote
    outq,       \* broadcasts queued at the MAC layer of each mote
    owed,       \* how many pairs of each source a mote has heard and not yet
                \* reported (history)
    presses     \* requests made so far

vars == <<mote, outq, owed, presses>>

TypeOK ==
    /\ mote \in [Sender -> Motes]
    /\ outq \in [Sender -> Seq(Type)]
    /\ \A s \in Sender : Len(outq[s]) <= OutCap
    /\ owed \in [Sender -> [Sender -> Int]]
    /\ presses \in 0..MaxPresses

Init ==
    /\ mote = [s \in Sender |-> MoteBoot]
    /\ outq = [s \in Sender |-> <<>>]
    /\ owed = [s \in Sender |-> [n \in Sender |-> 0]]
    /\ presses = 0

(* How often n is in a buffer.                                             *)
Count(b, n) == Cardinality({i \in 1..Len(b) : b[i] = n})

(* csma: packets that find no free buffer are dropped.                     *)
Enqueue(q, p) == IF Len(q) < OutCap THEN Append(q, p) ELSE q

EnqueueAll(q, ps) == IF ps = <<>> THEN q ELSE Enqueue(q, ps[1])

(* The pairs reported when the timers of E have expired.                   *)
PaidAt(m, E, n) ==
    (IF Timeout(m, E) THEN Count(m.resp, n) ELSE 0)
    + (IF "report" \in E THEN Count(m.own, n) ELSE 0)

Pay(s, m, E) == owed' = [owed EXCEPT ![s] = [n \in Sender |-> @[n] - PaidAt(m, E, n)]]

(* Any event: a timer, a packet for another module.                        *)
Check(s, E) ==
    /\ mote[s].started
    /\ mote' = [mote EXCEPT ![s] = AfterCheck(@, E)]
    /\ outq' = [outq EXCEPT ![s] = EnqueueAll(@, Beacons(mote[s], E))]
    /\ Pay(s, mote[s], E)
    /\ UNCHANGED presses

(* The event of the button: the timers are looked at first, so that a      *)
(* press can end one request and begin the next.                           *)
Press(s, E) ==
    LET m == AfterCheck(mote[s], E) IN
    /\ mote[s].started
    /\ ~ m.waiting
    /\ presses < MaxPresses
    /\ presses' = presses + 1
    /\ mote' = [mote EXCEPT ![s] = AfterPress(m)]
    /\ outq' = [outq EXCEPT ![s] = Enqueue(EnqueueAll(@, Beacons(mote[s], E)), REQUEST)]
    /\ Pay(s, mote[s], E)

(* A command starts the module; its check runs in the same event.          *)
StartModule(s, E) ==
    /\ ~ mote[s].started
    /\ mote' = [mote EXCEPT ![s] = [AfterCheck(@, E) EXCEPT !.started = TRUE]]
    /\ outq' = [outq EXCEPT ![s] = EnqueueAll(@, Beacons(mote[s], E))]
    /\ Pay(s, mote[s], E)
    /\ UNCHANGED presses

(* A command stops the module: buffers and timers stay as they are.        *)
StopModule(s) ==
    /\ mote[s].started
    /\ mote' = [mote EXCEPT ![s].started = FALSE]
    /\ UNCHANGED <<outq, owed, presses>>

Hearers(n) == {s \in Sender : <<n, s>> \in Link}

(* The radio sends the first packet of n, the motes of R receive it.       *)
Transmit(n, R) ==
    /\ outq[n] # <<>>
    /\ R \subseteq Hearers(n)
    /\ LET ty == Head(outq[n])
           Earned(s) == s \in R /\ mote[s].started /\ ty # REQUEST
       IN
        /\ mote' = [s \in Sender |->
                      IF s \in R THEN AfterReception(mote[s], n, ty) ELSE mote[s]]
        /\ outq' = [s \in Sender |->
                      IF s = n THEN Tail(outq[n])
                      ELSE IF s \in R /\ Answers(mote[s], ty) THEN Enqueue(outq[s], RESPONSE)
                      ELSE outq[s]]
        /\ owed' = [s \in Sender |-> [x \in Sender |->
                      owed[s][x] + (IF Earned(s) /\ x = n THEN 1 ELSE 0)
                      - (IF s \in R THEN Count(ReportedBy(mote[s], n, ty), x) ELSE 0)]]
    /\ UNCHANGED presses

Next ==
    \/ \E s \in Sender, E \in SUBSET Timer :
         Check(s, E) \/ Press(s, E) \/ StartModule(s, E)
    \/ \E s \in Sender : StopModule(s)
    \/ \E n \in Sender : \E R \in SUBSET Hearers(n) : Transmit(n, R)

Spec == Init /\ [][Next]_vars

(* Every timer expires and its event is handled; what is queued is sent.   *)
Fairness ==
    /\ \A s \in Sender, e \in Timer : WF_vars(\E E \in SUBSET Timer : e \in E /\ Check(s, E))
    /\ \A n \in Sender : WF_vars(\E R \in SUBSET Hearers(n) : Transmit(n, R))

FairSpec == Spec /\ Fairness

----------------------------------------------------------------------------
(* What the module must satisfy.                                           *)

(* geoloc_handler(), geoloc_data_send(): every pair a mote hears is        *)
(* reported to the server once or is still in one of the two buffers,      *)
(* however the buffer it goes to, a full buffer and the timers coincide.   *)
Conserved ==
    \A s, n \in Sender : owed[s][n] = Count(mote[s].own, n) + Count(mote[s].resp, n)

(* geolocation.c 95-103: answers are kept only while a request is open, so *)
(* the end of a request leaves none of them behind for the next one.       *)
AnswersKept == \A s \in Sender : mote[s].resp # <<>> => mote[s].waiting

(* g_periodic_send() resets the type: requests and answers do not breed    *)
(* each other, once the button is left alone there are only beacons.       *)
OnlyBeacons ==
    <>[](\A s \in Sender : \A i \in 1..Len(outq[s]) : outq[s][i] = SIMPLE)

(* "timeout we suppose all neighbors have responded": answers do not stay  *)
(* in their buffer while the module runs.                                  *)
AnswersLeave ==
    \A s \in Sender :
      mote[s].resp # <<>> ~> mote[s].resp = <<>> \/ ~ mote[s].started

(* The same of the request itself: the time for answers ends it, and the   *)
(* button works again.                                                     *)
RequestEnds ==
    \A s \in Sender : mote[s].waiting ~> ~ mote[s].waiting \/ ~ mote[s].started
=============================================================================
