----------------------------- MODULE NodeDataProofs -----------------------------
(***************************************************************************)
(* The data module of a sender measures in time, whatever the periods.     *)
(***************************************************************************)
EXTENDS NodeData, SequenceTheorems, TLAPS

PeriodQueued ==
    \/ Len(events) >= 1 /\ events[1] = "period"
    \/ Len(events) = 2 /\ events[2] = "period"

WaitQueued ==
    \/ Len(events) >= 1 /\ events[1] = "wait"
    \/ Len(events) = 2 /\ events[2] = "wait"

TwoWaits == Len(events) = 2 /\ events[1] = "wait" /\ events[2] = "wait"

(* At most two events are queued, one of them of the wait timer.           *)
QueueInv ==
    /\ Len(events) <= 2
    /\ Len(events) = 2 => events[1] = "wait" \/ events[2] = "wait"

(* The period timer is set or its event is queued; the wait timer never    *)
(* outlasts it; with events left to handle no timer expires a second time. *)
TimerInv ==
    /\ left["period"] <= 2 * period /\ left["wait"] <= period
    /\ "period" \in armed \/ PeriodQueued
    /\ "wait" \in armed => "period" \in armed /\ left["wait"] <= left["period"]
    /\ PeriodQueued =>
         \/ "period" \notin armed /\ left["period"] = 0
         \/ "period" \in armed /\ left["period"] = period
    /\ events # <<>> /\ "period" \in armed => left["period"] >= 1
    /\ (PeriodQueued \/ TwoWaits) /\ "wait" \in armed => left["wait"] >= 1

(* How long the silence may last until the next reading is due.            *)
SilentInv ==
    /\ silent < 3 * period
    /\ ~ started => silent = 0
    /\ ~ WaitQueued => \/ PeriodQueued /\ silent <= 2 * period
                       \/ ~ PeriodQueued /\ "wait" \in armed /\ silent + left["wait"] < 3 * period
                       \/ ~ PeriodQueued /\ "wait" \notin armed /\ silent + left["period"] <= 2 * period

Waits ==
    (IF Len(events) >= 1 /\ events[1] = "wait" THEN 1 ELSE 0)
    + (IF Len(events) = 2 /\ events[2] = "wait" THEN 1 ELSE 0)
    + (IF "wait" \in armed THEN 1 ELSE 0)

SentInv == sent + Waits <= 3

DataInv == TypeOK /\ QueueInv /\ TimerInv /\ SilentInv /\ SentInv

LEMMA DataInvInit == Init => DataInv
<1> SUFFICES ASSUME Init PROVE DataInv
    OBVIOUS
<1> USE NodeDataAssumption DEF Init, Timer
<1>1. TypeOK
    BY DEF TypeOK
<1>2. QueueInv
    BY DEF QueueInv
<1>3. TimerInv
    BY DEF TimerInv, PeriodQueued, TwoWaits
<1>4. SilentInv
    BY DEF SilentInv, PeriodQueued, WaitQueued
<1>5. SentInv
    BY DEF SentInv, Waits
<1> QED
    BY <1>1, <1>2, <1>3, <1>4, <1>5 DEF DataInv

LEMMA TickInv == DataInv /\ Tick => DataInv'
<1> SUFFICES ASSUME DataInv, Tick PROVE DataInv'
    OBVIOUS
<1> USE NodeDataAssumption DEF DataInv, TypeOK, Tick, Timer
<1>1. events = <<>> /\ events' = events /\ period \in Nat /\ period > 0
    OBVIOUS
<1>2. "period" \in armed /\ armed' = armed /\ period' = period
    BY <1>1 DEF TimerInv, PeriodQueued
<1>3. left["period"] > 0 /\ left'["period"] = left["period"] - 1
    BY <1>2 DEF Expired
<1>4. "wait" \in armed => left["wait"] > 0 /\ left'["wait"] = left["wait"] - 1
    BY <1>2 DEF Expired
<1>5. "wait" \notin armed => left'["wait"] = left["wait"]
    BY <1>2
<1>6. TypeOK'
    <2>1. left' \in [Timer -> Nat]
        BY <1>3, <1>4, <1>5, <1>2
    <2> QED
        BY <2>1
<1>7. QueueInv'
    BY DEF QueueInv
<1>8. TimerInv'
    BY <1>1, <1>2, <1>3, <1>4, <1>5 DEF TimerInv, PeriodQueued, TwoWaits
<1>9. SilentInv'
    BY <1>1, <1>2, <1>3, <1>4, <1>5 DEF SilentInv, PeriodQueued, WaitQueued
<1>10. SentInv'
    BY DEF SentInv, Waits
<1> QED
    BY <1>6, <1>7, <1>8, <1>9, <1>10

LEMMA AppendIs ==
    ASSUME NEW q \in Seq(Timer), NEW t \in Timer
    PROVE  /\ Append(q, t) \in Seq(Timer)
           /\ Len(Append(q, t)) = Len(q) + 1
           /\ Append(q, t)[Len(q) + 1] = t
           /\ \A i \in 1..Len(q) : Append(q, t)[i] = q[i]
    BY AppendProperties

LEMMA AppendTwo ==
    ASSUME NEW q \in Seq(Timer), Len(q) = 0, NEW t \in Timer, NEW u \in Timer
    PROVE  /\ Append(Append(q, t), u) \in Seq(Timer)
           /\ Len(Append(Append(q, t), u)) = 2
           /\ Append(Append(q, t), u)[1] = t
           /\ Append(Append(q, t), u)[2] = u
<1> DEFINE r == Append(q, t)
<1>1. r \in Seq(Timer) /\ Len(r) = 1 /\ r[1] = t
    BY AppendIs
<1> HIDE DEF r
<1>2. /\ Append(r, u) \in Seq(Timer)
      /\ Len(Append(r, u)) = Len(r) + 1
      /\ Append(r, u)[Len(r) + 1] = u
      /\ \A i \in 1..Len(r) : Append(r, u)[i] = r[i]
    BY <1>1, AppendIs
<1>3. /\ Append(r, u) \in Seq(Timer)
      /\ Len(Append(r, u)) = 2
      /\ Append(r, u)[2] = u
      /\ Append(r, u)[1] = t
    BY <1>1, <1>2
<1> QED
    BY <1>3 DEF r

(* What the invariant says of the parts of the state, to be cited.         *)
LEMMA DataInvTypes ==
    ASSUME DataInv
    PROVE  /\ period \in Nat /\ period > 0 /\ period \in Period
           /\ started \in BOOLEAN /\ armed \subseteq Timer
           /\ left \in [Timer -> Nat] /\ left["period"] \in Nat /\ left["wait"] \in Nat
           /\ events \in Seq(Timer) /\ silent \in Nat /\ sent \in Nat
           /\ Len(events) \in {0, 1, 2}
<1>1. TypeOK /\ Len(events) <= 2
    BY DEF DataInv, QueueInv
<1>2. /\ period \in Period /\ started \in BOOLEAN /\ armed \subseteq Timer
      /\ left \in [Timer -> Nat] /\ events \in Seq(Timer) /\ silent \in Nat /\ sent \in Nat
    BY <1>1 DEF TypeOK
<1>3. period \in Nat /\ period > 0
    BY <1>2, NodeDataAssumption
<1>4. left["period"] \in Nat /\ left["wait"] \in Nat
    BY <1>2 DEF Timer
<1>5. Len(events) \in {0, 1, 2}
    <2>1. ASSUME NEW n \in Nat, n <= 2 PROVE n \in {0, 1, 2}
        BY <2>1
    <2>2. Len(events) \in Nat
        BY <1>2
    <2> QED
        BY <1>1, <2>1, <2>2
<1> QED
    BY <1>2, <1>3, <1>4, <1>5

LEMMA PollInv == DataInv /\ Poll => DataInv'
<1> SUFFICES ASSUME DataInv, Poll PROVE DataInv'
    OBVIOUS
<1>1. /\ period' = period /\ started' = started /\ left' = left
      /\ silent' = silent /\ sent' = sent /\ armed' = armed \ Expired
    BY DEF Poll
<1>2. QueueInv /\ TimerInv /\ SilentInv /\ SentInv
    BY DEF DataInv
<1>3. "period" \in Timer /\ "wait" \in Timer
    BY DEF Timer
<1>4. Expired \in {{"period"}, {"wait"}, Timer}
    <2>1. Expired \subseteq Timer /\ Expired # {}
        BY DataInvTypes DEF Expired, Poll, Posted, Timer
    <2> QED
        BY <2>1 DEF Timer
<1>5. CASE Len(events) = 0
    <2>1. \/ Expired = {"period"} /\ events' = Append(events, "period")
          \/ Expired = {"wait"} /\ events' = Append(events, "wait")
          \/ Expired = Timer /\ events' = Append(Append(events, "period"), "wait")
          \/ Expired = Timer /\ events' = Append(Append(events, "wait"), "period")
        BY <1>4 DEF Poll, Posted
    <2>2. ASSUME NEW t \in Timer, events' = Append(events, t)
          PROVE  events' \in Seq(Timer) /\ Len(events') = 1 /\ events'[1] = t
        BY <1>5, <2>2, AppendIs, DataInvTypes
    <2>3. ASSUME NEW t \in Timer, NEW u \in Timer, events' = Append(Append(events, t), u)
          PROVE  events' \in Seq(Timer) /\ Len(events') = 2 /\ events'[1] = t /\ events'[2] = u
        BY <1>5, <2>3, AppendTwo, DataInvTypes
    <2>4. \/ Expired = {"period"} /\ events' \in Seq(Timer) /\ Len(events') = 1 /\ events'[1] = "period"
          \/ Expired = {"wait"} /\ events' \in Seq(Timer) /\ Len(events') = 1 /\ events'[1] = "wait"
          \/ /\ Expired = Timer /\ events' \in Seq(Timer) /\ Len(events') = 2
             /\ \/ events'[1] = "period" /\ events'[2] = "wait"
                \/ events'[1] = "wait" /\ events'[2] = "period"
        BY <1>3, <2>1, <2>2, <2>3
    <2>5. events' \in Seq(Timer)
        BY <2>4
    <2>6. TypeOK'
        BY <1>1, <2>5, DataInvTypes DEF TypeOK, Timer
    <2>7. QueueInv'
        <3>1. CASE Len(events') = 1
            BY <3>1 DEF QueueInv
        <3>2. CASE Len(events') = 2 /\ (events'[1] = "wait" \/ events'[2] = "wait")
            BY <3>2 DEF QueueInv
        <3> QED
            BY <2>4, <3>1, <3>2
    <2>8. \A t \in Expired : t \in armed /\ left[t] = 0
        BY DEF Expired
    <2>9. CASE Expired = {"period"}
        <3>1. Len(events') = 1 /\ events'[1] = "period" /\ armed' = armed \ {"period"}
            BY <2>4, <2>9, <1>1 DEF Timer
        <3>2. left["period"] = 0 /\ "period" \in armed /\ "wait" \notin armed
            BY <2>8, <2>9, <1>2, DataInvTypes DEF TimerInv, Expired, Timer
        <3>3. TimerInv'
            BY <3>1, <3>2, <1>1, <1>2, DataInvTypes DEF TimerInv, PeriodQueued, TwoWaits
        <3>4. SilentInv'
            BY <3>1, <3>2, <1>1, <1>2, <1>5, DataInvTypes DEF SilentInv, PeriodQueued, WaitQueued
        <3>5. SentInv'
            BY <3>1, <3>2, <1>1, <1>2, <1>5, DataInvTypes DEF SentInv, Waits
        <3> QED
            BY <3>3, <3>4, <3>5, <2>6, <2>7 DEF DataInv
    <2>10. CASE Expired = {"wait"}
        <3>1. Len(events') = 1 /\ events'[1] = "wait" /\ armed' = armed \ {"wait"}
            BY <2>4, <2>10, <1>1 DEF Timer
        <3>2. left["wait"] = 0 /\ "wait" \in armed /\ "period" \in armed
            BY <2>8, <2>10, <1>2 DEF TimerInv
        <3>3. left["period"] # 0
            BY <3>2, <2>10, DataInvTypes DEF Expired
        <3>4. TimerInv'
            BY <3>1, <3>2, <3>3, <1>1, <1>2, DataInvTypes DEF TimerInv, PeriodQueued, TwoWaits
        <3>5. SilentInv'
            BY <3>1, <3>2, <1>1, <1>2, <1>5, DataInvTypes DEF SilentInv, PeriodQueued, WaitQueued
        <3>6. SentInv'
            BY <3>1, <3>2, <1>1, <1>2, <1>5, DataInvTypes DEF SentInv, Waits
        <3> QED
            BY <3>4, <3>5, <3>6, <2>6, <2>7 DEF DataInv
    <2>11. CASE Expired = Timer
        <3>1. /\ Len(events') = 2
              /\ \/ events'[1] = "period" /\ events'[2] = "wait"
                 \/ events'[1] = "wait" /\ events'[2] = "period"
            BY <2>4, <2>11 DEF Timer
        <3>2. /\ left["wait"] = 0 /\ "wait" \in armed /\ left["period"] = 0 /\ "period" \in armed
              /\ "wait" \notin armed' /\ "period" \notin armed'
            BY <2>8, <2>11, <1>1, <1>3
        <3>3. TimerInv'
            BY <3>1, <3>2, <1>1, <1>2, DataInvTypes DEF TimerInv, PeriodQueued, TwoWaits
        <3>4. SilentInv'
            BY <3>1, <3>2, <1>1, <1>2, <1>5, DataInvTypes DEF SilentInv, PeriodQueued, WaitQueued
        <3>5. SentInv'
            BY <3>1, <3>2, <1>1, <1>2, <1>5, DataInvTypes DEF SentInv, Waits
        <3> QED
            BY <3>3, <3>4, <3>5, <2>6, <2>7 DEF DataInv
    <2> QED
        BY <1>4, <2>9, <2>10, <2>11
<1>6. CASE Len(events) # 0
    <2>1. Len(events) \in {1, 2} /\ events # <<>>
        BY <1>6, DataInvTypes, EmptySeq
    <2>2. "period" \notin Expired
        BY <1>2, <2>1, DataInvTypes DEF TimerInv, Expired
    <2>3. Expired = {"wait"}
        BY <1>4, <2>2 DEF Timer
    <2>4. events' = Append(events, "wait")
        <3>1. Expired # Timer
            BY <2>3 DEF Timer
        <3>2. events' \in {Append(events, t) : t \in Expired}
            BY <3>1 DEF Poll, Posted
        <3> QED
            BY <3>2, <2>3
    <2>5. "wait" \in armed /\ left["wait"] = 0 /\ armed' = armed \ {"wait"} /\ "period" \in armed
        BY <1>1, <1>2, <2>3 DEF TimerInv, Expired
    <2>6. ~ PeriodQueued /\ ~ TwoWaits
        BY <1>2, <2>5 DEF TimerInv
    <2>7. events[1] \in Timer /\ (Len(events) = 2 => events[2] \in Timer)
        BY <2>1, DataInvTypes
    <2>8. Len(events) = 1 /\ events[1] = "wait"
        BY <2>1, <2>6, <2>7 DEF PeriodQueued, TwoWaits, Timer
    <2>9. /\ events' \in Seq(Timer) /\ Len(events') = Len(events) + 1
          /\ events'[Len(events) + 1] = "wait" /\ events'[1] = events[1]
        <3>1. events \in Seq(Timer) /\ 1 \in 1..Len(events)
            BY <2>8, DataInvTypes
        <3>2. /\ Append(events, "wait") \in Seq(Timer)
              /\ Len(Append(events, "wait")) = Len(events) + 1
              /\ Append(events, "wait")[Len(events) + 1] = "wait"
              /\ \A i \in 1..Len(events) : Append(events, "wait")[i] = events[i]
            BY <1>3, <3>1, AppendIs
        <3> QED
            BY <2>4, <3>1, <3>2
    <2>10. /\ events' \in Seq(Timer) /\ Len(events') = 2
           /\ events'[1] = "wait" /\ events'[2] = "wait"
        BY <2>8, <2>9
    <2>11. TypeOK'
        BY <1>1, <2>10, DataInvTypes DEF TypeOK, Timer
    <2>12. QueueInv'
        BY <2>10 DEF QueueInv
    <2>13. TimerInv'
        <3>1. left["period"] >= 1
            BY <1>2, <2>1, <2>5 DEF TimerInv
        <3> QED
            BY <1>1, <1>2, <2>5, <2>10, <3>1, DataInvTypes DEF TimerInv, PeriodQueued, TwoWaits
    <2>14. SilentInv'
        BY <1>1, <1>2, <2>10 DEF SilentInv, WaitQueued
    <2>15. SentInv'
        BY <1>1, <1>2, <2>5, <2>8, <2>10, DataInvTypes DEF SentInv, Waits
    <2> QED
        BY <2>11, <2>12, <2>13, <2>14, <2>15 DEF DataInv
<1> QED
    BY <1>5, <1>6

LEMMA TailIs ==
    ASSUME DataInv, events # <<>>, events' = Tail(events)
    PROVE  /\ Len(events) \in {1, 2} /\ Head(events) = events[1]
           /\ events' \in Seq(Timer) /\ Len(events') = Len(events) - 1
           /\ Len(events) = 2 => events'[1] = events[2]
<1>1. events \in Seq(Timer) /\ Len(events) \in {0, 1, 2}
    BY DataInvTypes
<1>2. Len(events) \in {1, 2}
    BY <1>1, EmptySeq
<1>3. Head(events) = events[1]
    BY <1>1, HeadTailProperties
<1>4. /\ events' \in Seq(Timer) /\ Len(events') = Len(events) - 1
      /\ \A i \in 1..Len(events') : events'[i] = events[i + 1]
    BY <1>1, HeadTailProperties
<1>5. Len(events) = 2 => events'[1] = events[2]
    <2> SUFFICES ASSUME Len(events) = 2 PROVE events'[1] = events[2]
        OBVIOUS
    <2>1. Len(events') = 1
        BY <1>4
    <2>2. 1 \in 1..Len(events')
        BY <2>1
    <2> QED
        BY <1>4, <2>2
<1> QED
    BY <1>2, <1>3, <1>4, <1>5

LEMMA PeriodEventInv == DataInv /\ PeriodEvent => DataInv'
<1> SUFFICES ASSUME DataInv, PeriodEvent PROVE DataInv'
    OBVIOUS
<1>1. QueueInv /\ TimerInv /\ SilentInv /\ SentInv
    BY DEF DataInv
<1>2. events # <<>> /\ events' = Tail(events) /\ Head(events) = "period"
    BY DEF PeriodEvent
<1>3. PICK w \in 0..(period - 1) :
        left' = [t \in Timer |-> IF t = "wait" THEN w ELSE left["period"] + period]
    BY DEF PeriodEvent
<1>4. /\ armed' = armed \cup {"period", "wait"} /\ sent' = 0
      /\ period' = period /\ started' = started /\ silent' = silent
    BY DEF PeriodEvent
<1>5. left'["wait"] = w /\ left'["period"] = left["period"] + period /\ w \in Nat /\ w < period
    <2>1. left'["wait"] = w /\ left'["period"] = left["period"] + period
        BY <1>3 DEF Timer
    <2>2. w \in Nat /\ w < period
        BY DataInvTypes
    <2> QED
        BY <2>1, <2>2
<1>6. /\ Len(events) \in {1, 2} /\ events[1] = "period"
      /\ events' \in Seq(Timer) /\ Len(events') = Len(events) - 1
      /\ Len(events) = 2 => events'[1] = "wait"
    BY <1>1, <1>2, TailIs DEF QueueInv
<1>7. \/ Len(events) = 1 /\ Len(events') = 0
      \/ Len(events) = 2 /\ Len(events') = 1 /\ events'[1] = "wait"
    BY <1>6
<1>8. left["period"] = 0 \/ left["period"] = period
    BY <1>1, <1>6 DEF TimerInv, PeriodQueued
<1>9. TypeOK'
    <2>1. left' \in [Timer -> Nat]
        BY <1>3, <1>5, DataInvTypes DEF Timer
    <2> QED
        BY <1>4, <1>6, <2>1, DataInvTypes DEF TypeOK, Timer
<1>10. QueueInv'
    <2>1. CASE Len(events') = 0
        BY <2>1 DEF QueueInv
    <2>2. CASE Len(events') = 1
        BY <2>2 DEF QueueInv
    <2> QED
        BY <1>7, <2>1, <2>2
<1>11. ~ PeriodQueued' /\ ~ TwoWaits'
    BY <1>7 DEF PeriodQueued, TwoWaits
<1>12. TimerInv'
    BY <1>4, <1>5, <1>8, <1>11, DataInvTypes DEF TimerInv
<1>13. SilentInv'
    <2>1. WaitQueued => WaitQueued'
        <3>1. CASE Len(events) = 1
            BY <1>6, <3>1 DEF WaitQueued
        <3>2. CASE Len(events) = 2
            BY <1>7, <3>2 DEF WaitQueued
        <3> QED
            BY <1>6, <3>1, <3>2
    <2>2. PeriodQueued
        <3>1. Len(events) >= 1
            BY <1>6
        <3> QED
            BY <1>6, <3>1 DEF PeriodQueued
    <2> QED
        BY <1>1, <1>4, <1>5, <1>11, <2>1, <2>2, DataInvTypes DEF SilentInv
<1>14. SentInv'
    BY <1>4, <1>7 DEF SentInv, Waits
<1> QED
    BY <1>9, <1>10, <1>12, <1>13, <1>14 DEF DataInv

LEMMA WaitEventInv == DataInv /\ WaitEvent => DataInv'
<1> SUFFICES ASSUME DataInv, WaitEvent PROVE DataInv'
    OBVIOUS
<1>1. QueueInv /\ TimerInv /\ SilentInv /\ SentInv
    BY DEF DataInv
<1>2. events # <<>> /\ events' = Tail(events) /\ Head(events) = "wait"
    BY DEF WaitEvent
<1>3. /\ silent' = (IF started THEN 0 ELSE silent)
      /\ sent' = (IF started THEN sent + 1 ELSE sent)
      /\ period' = period /\ started' = started /\ armed' = armed /\ left' = left
    BY DEF WaitEvent
<1>4. /\ Len(events) \in {1, 2} /\ events[1] = "wait"
      /\ events' \in Seq(Timer) /\ Len(events') = Len(events) - 1
      /\ Len(events) = 2 => events'[1] = events[2]
    BY <1>1, <1>2, TailIs
<1>5. silent' = 0
    BY <1>1, <1>3 DEF SilentInv
<1>6. \/ Len(events) = 1 /\ Len(events') = 0
      \/ Len(events) = 2 /\ Len(events') = 1 /\ events'[1] = events[2]
    BY <1>4
<1>7. TypeOK'
    <2>1. sent' \in Nat
        BY <1>3, DataInvTypes
    <2> QED
        BY <1>3, <1>4, <1>5, <2>1, DataInvTypes DEF TypeOK
<1>8. QueueInv'
    <2>1. CASE Len(events') = 0
        BY <2>1 DEF QueueInv
    <2>2. CASE Len(events') = 1
        BY <2>2 DEF QueueInv
    <2> QED
        BY <1>6, <2>1, <2>2
<1>9. (PeriodQueued' <=> PeriodQueued) /\ ~ TwoWaits'
    <2>1. CASE Len(events) = 1
        BY <1>4, <1>6, <2>1 DEF PeriodQueued, TwoWaits
    <2>2. CASE Len(events) = 2
        BY <1>4, <1>6, <2>2 DEF PeriodQueued, TwoWaits
    <2> QED
        BY <1>6, <2>1, <2>2
<1>10. TimerInv'
    BY <1>1, <1>2, <1>3, <1>9 DEF TimerInv
<1>11. SilentInv'
    <2>1. ~ PeriodQueued => "period" \in armed
        BY <1>1 DEF TimerInv
    <2>2. left["period"] <= 2 * period /\ left["wait"] <= period
        BY <1>1 DEF TimerInv
    <2> QED
        BY <1>1, <1>3, <1>5, <1>9, <2>1, <2>2, DataInvTypes DEF SilentInv, TimerInv
<1>12. SentInv'
    <2>1. sent' <= sent + 1 /\ sent' \in Nat /\ sent \in Nat
        BY <1>3, DataInvTypes
    <2>2. Waits' + 1 <= Waits /\ Waits \in Nat /\ Waits' \in Nat
        <3>1. CASE Len(events) = 1
            <4>1. Len(events') = 0 /\ events[1] = "wait" /\ armed' = armed
                BY <1>3, <1>4, <1>6, <3>1
            <4> QED
                BY <3>1, <4>1 DEF Waits
        <3>2. CASE Len(events) = 2
            <4>1. Len(events') = 1 /\ events'[1] = events[2] /\ events[1] = "wait" /\ armed' = armed
                BY <1>3, <1>4, <1>6, <3>2
            <4> QED
                BY <3>2, <4>1 DEF Waits
        <3> QED
            BY <1>6, <3>1, <3>2
    <2>3. sent + Waits <= 3
        BY <1>1 DEF SentInv
    <2>4. ASSUME NEW a \in Nat, NEW b \in Nat, NEW c \in Nat, NEW d \in Nat,
                 c <= a + 1, d + 1 <= b, a + b <= 3
          PROVE  c + d <= 3
        BY <2>4
    <2>5. sent' + Waits' <= 3
        BY <2>1, <2>2, <2>3, <2>4
    <2> QED
        BY <2>5 DEF SentInv
<1> QED
    BY <1>7, <1>8, <1>10, <1>11, <1>12 DEF DataInv

LEMMA SetDataPeriodInv ==
    ASSUME DataInv, NEW p \in Period, SetDataPeriod(p)
    PROVE  DataInv'
<1>1. QueueInv /\ TimerInv /\ SilentInv /\ SentInv
    BY DEF DataInv
<1>2. /\ period' = p /\ armed' = Timer /\ left' = [t \in Timer |-> p]
      /\ silent' = 0 /\ sent' = 0 /\ started' = started /\ events' = events
    BY DEF SetDataPeriod
<1>3. p \in Nat /\ p > 0
    BY NodeDataAssumption
<1>4. left'["period"] = p /\ left'["wait"] = p
    BY <1>2 DEF Timer
<1>5. TypeOK'
    BY <1>2, <1>3, DataInvTypes DEF TypeOK
<1>6. QueueInv'
    BY <1>1, <1>2 DEF QueueInv
<1>7. TimerInv'
    BY <1>2, <1>3, <1>4 DEF TimerInv, Timer
<1>8. SilentInv'
    BY <1>2, <1>3, <1>4 DEF SilentInv, Timer
<1>9. SentInv'
    BY <1>2 DEF SentInv, Waits
<1> QED
    BY <1>5, <1>6, <1>7, <1>8, <1>9 DEF DataInv

LEMMA StartStopInv == DataInv /\ (DataStart \/ DataStop) => DataInv'
<1> SUFFICES ASSUME DataInv, DataStart \/ DataStop PROVE DataInv'
    OBVIOUS
<1>1. QueueInv /\ TimerInv /\ SilentInv /\ SentInv
    BY DEF DataInv
<1>2. /\ started' \in BOOLEAN /\ silent' \in {0, silent} /\ (~ started' => silent' = 0)
      /\ period' = period /\ armed' = armed /\ left' = left
      /\ events' = events /\ sent' = sent
    BY DEF DataStart, DataStop
<1>3. TypeOK'
    BY <1>2, DataInvTypes DEF TypeOK
<1>4. QueueInv' /\ TimerInv'
    BY <1>1, <1>2 DEF QueueInv, TimerInv, PeriodQueued, TwoWaits
<1>5. SilentInv'
    <2>1. silent' <= silent /\ silent' \in Nat
        BY <1>2, DataInvTypes
    <2>2. (WaitQueued' <=> WaitQueued) /\ (PeriodQueued' <=> PeriodQueued)
        BY <1>2 DEF WaitQueued, PeriodQueued
    <2> QED
        BY <1>1, <1>2, <2>1, <2>2, DataInvTypes DEF SilentInv
<1>6. SentInv'
    BY <1>1, <1>2 DEF SentInv, Waits
<1> QED
    BY <1>3, <1>4, <1>5, <1>6 DEF DataInv

LEMMA DataStep == DataInv /\ [Next]_vars => DataInv'
<1> SUFFICES ASSUME DataInv, [Next]_vars PROVE DataInv'
    OBVIOUS
<1>1. CASE Tick
    BY <1>1, TickInv
<1>2. CASE Poll
    BY <1>2, PollInv
<1>3. CASE PeriodEvent
    BY <1>3, PeriodEventInv
<1>4. CASE WaitEvent
    BY <1>4, WaitEventInv
<1>5. CASE Command
    BY <1>5, SetDataPeriodInv, StartStopInv DEF Command
<1>6. CASE UNCHANGED vars
    BY <1>6 DEF vars, DataInv, TypeOK, QueueInv, TimerInv, SilentInv, SentInv,
                PeriodQueued, WaitQueued, TwoWaits, Waits
<1> QED
    BY <1>1, <1>2, <1>3, <1>4, <1>5, <1>6 DEF Next, Run

LEMMA DataInvariant == Spec => []DataInv
    BY DataInvInit, DataStep, PTL DEF Spec

(* data.c: the timers, the queue and the period stay what they are.        *)
THEOREM DataTypeCorrect == Spec => []TypeOK
<1>1. DataInv => TypeOK
    BY DEF DataInv
<1> QED
    BY <1>1, DataInvariant, PTL

(* data.c: whatever the periods and wherever a command strikes, a started  *)
(* module is not silent for three periods.                                 *)
THEOREM DataPunctual == Spec => []Punctual
<1>1. DataInv => Punctual
    BY DEF DataInv, SilentInv, Punctual
<1> QED
    BY <1>1, DataInvariant, PTL

(* data.c: a period has at most three readings.                            *)
THEOREM DataAtMostThree == Spec => []AtMostThree
<1>1. DataInv => AtMostThree
    <2> SUFFICES ASSUME DataInv PROVE sent <= 3
        BY DEF AtMostThree
    <2>1. Waits \in Nat
        BY DEF Waits
    <2> QED
        BY <2>1, DataInvTypes DEF DataInv, SentInv
<1> QED
    BY <1>1, DataInvariant, PTL
=============================================================================
