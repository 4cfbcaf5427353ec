------------------------- MODULE CommandManagerProofs -------------------------
(***************************************************************************)
(* The lock of CommandManager, proved for any number of gateways, sessions *)
(* and requests, openings in any order included; then its numbering, in    *)
(* step with the sinks as long as gateways connect one at a time, for any  *)
(* number of concurrent requests and commands and any largest version.     *)
(***************************************************************************)
EXTENDS CommandManagerProperties, HandlerProofs, SequenceTheorems

(* A thread about to send has something to send.                           *)
HasJob == \A t \in Thread : pc[t] \in {"enter", "check", "send"} => job[t] # None

(* Who is inside holds the lock.                                           *)
Holds == \A t \in Thread : Inside(t) => lock = t

ManagerInv == TypeOK /\ HasJob /\ Holds

LEMMA NoThread == \A t \in Thread : t # None
BY ManagerAssumption DEF Thread

LEMMA ServerOrders ==
    /\ ResetOrder \in Order /\ InfoOrder \in Order
    /\ Orders \subseteq Order
    /\ None \notin Order
    /\ Request \subseteq Thread /\ Session \subseteq Thread
BY ManagerAssumption DEF ResetOrder, InfoOrder, Order, Local, Thread

LEMMA ManagerInit == Init => ManagerInv
<1> SUFFICES ASSUME Init PROVE ManagerInv
    OBVIOUS
<1>1. wire \in [Session -> Seq(Line)]
    BY DEF Init
<1>2. sink \in [Sink -> Sinks]
    BY BootType DEF Init
<1>3. TypeOK
    BY <1>1, <1>2 DEF Init, TypeOK, Place
<1>4. HasJob /\ Holds
    BY DEF Init, HasJob, Holds, Inside
<1> QED
    BY <1>3, <1>4 DEF ManagerInv

LEMMA OpenInv ==
    ASSUME ManagerInv, NEW s \in Session, Open(s)
    PROVE  ManagerInv'
<1>1. TypeOK'
    BY DEF ManagerInv, TypeOK, Open, Goto, Place
<1>2. HasJob' /\ Holds'
    BY ServerOrders DEF ManagerInv, TypeOK, HasJob, Holds, Inside, Open, Goto
<1> QED
    BY <1>1, <1>2 DEF ManagerInv

LEMMA SubmitInv ==
    ASSUME ManagerInv, NEW r \in Request, NEW o \in Orders, Submit(r, o)
    PROVE  ManagerInv'
<1>1. TypeOK'
    BY ServerOrders DEF ManagerInv, TypeOK, Submit, Goto, Place
<1>2. HasJob' /\ Holds'
    BY ServerOrders DEF ManagerInv, TypeOK, HasJob, Holds, Inside, Submit, Goto
<1> QED
    BY <1>1, <1>2 DEF ManagerInv

LEMMA ClearInv ==
    ASSUME ManagerInv, NEW t \in Thread, Clear(t)
    PROVE  ManagerInv'
<1>1. cvn' \in Nat \ {0}
    BY HandlersAssumption DEF Clear
<1>2. job' \in [Thread -> Order \cup {None}]
    BY ServerOrders DEF ManagerInv, TypeOK, Clear
<1>3. pc' \in [Thread -> Place]
    BY DEF ManagerInv, TypeOK, Clear, Goto, Place
<1>4. TypeOK'
    BY <1>1, <1>2, <1>3 DEF ManagerInv, TypeOK, Clear
<1>5. HasJob' /\ Holds'
    BY ServerOrders DEF ManagerInv, TypeOK, HasJob, Holds, Inside, Clear, Goto
<1> QED
    BY <1>4, <1>5 DEF ManagerInv

LEMMA RefuseInv ==
    ASSUME ManagerInv, NEW t \in Request, Refuse(t)
    PROVE  ManagerInv'
<1>1. TypeOK'
    BY DEF ManagerInv, TypeOK, Refuse, Goto, Place
<1>2. HasJob' /\ Holds'
    BY ServerOrders DEF ManagerInv, TypeOK, HasJob, Holds, Inside, Refuse, Goto
<1> QED
    BY <1>1, <1>2 DEF ManagerInv

(* The lock is free, or it is the thread's already: it is nobody else's.   *)
LEMMA EnterInv ==
    ASSUME ManagerInv, NEW t \in Thread, Enter(t)
    PROVE  ManagerInv'
<1>1. TypeOK'
    BY DEF ManagerInv, TypeOK, Enter, Goto, Place
<1>2. HasJob'
    BY DEF ManagerInv, TypeOK, HasJob, Enter, Lock, Goto
<1>3. Holds'
    <2> SUFFICES ASSUME NEW u \in Thread, Inside(u)'
                 PROVE  u = t
        BY DEF Holds, Enter
    <2>1. CASE u # t
        <3>1. Inside(u)
            BY <2>1 DEF ManagerInv, TypeOK, Inside, Enter, Goto
        <3>2. lock = u
            BY <3>1 DEF ManagerInv, Holds
        <3> QED
            BY <2>1, <3>2, NoThread DEF Enter, Lock
    <2> QED
        BY <2>1
<1> QED
    BY <1>1, <1>2, <1>3 DEF ManagerInv

LEMMA CheckInv ==
    ASSUME ManagerInv, NEW t \in Thread, Check(t)
    PROVE  ManagerInv'
<1>1. TypeOK'
    BY DEF ManagerInv, TypeOK, Check, Goto, Place
<1>2. HasJob'
    BY DEF ManagerInv, TypeOK, HasJob, Check, Goto
<1>3. Holds'
    BY DEF ManagerInv, TypeOK, Holds, Inside, Check, Goto
<1> QED
    BY <1>1, <1>2, <1>3 DEF ManagerInv

LEMMA SendInv ==
    ASSUME ManagerInv, NEW t \in Thread, Send(t)
    PROVE  ManagerInv'
<1>1. Stamp(cvn, job[t]) \in Line
    <2>1. job[t] \in Order /\ cvn \in Nat
        BY DEF ManagerInv, TypeOK, HasJob, Send
    <2> QED
        BY <2>1, StampType
<1>2. wire' \in [Session -> Seq(Line)]
    <2> SUFFICES ASSUME NEW s \in Session
                 PROVE  Append(wire[s], Stamp(cvn, job[t])) \in Seq(Line) /\ wire[s] \in Seq(Line)
        BY DEF Send
    <2>1. wire[s] \in Seq(Line)
        BY DEF ManagerInv, TypeOK
    <2> QED
        BY <1>1, <2>1
<1>3. pc' \in [Thread -> Place]
    BY DEF ManagerInv, TypeOK, Send, Goto, Place
<1>4. TypeOK'
    BY <1>2, <1>3 DEF ManagerInv, TypeOK, Send
<1>5. HasJob' /\ Holds'
    BY DEF ManagerInv, TypeOK, HasJob, Holds, Inside, Send, Goto
<1> QED
    BY <1>4, <1>5 DEF ManagerInv

LEMMA ReadInv ==
    ASSUME ManagerInv, NEW t \in Thread, Read(t)
    PROVE  ManagerInv'
<1>1. TypeOK'
    BY DEF ManagerInv, TypeOK, Read, Goto, Place
<1>2. HasJob' /\ Holds'
    BY DEF ManagerInv, TypeOK, HasJob, Holds, Inside, Read, Goto
<1> QED
    BY <1>1, <1>2 DEF ManagerInv

(* The lock is given back only by a thread that is outside afterwards.     *)
LEMMA WriteInv ==
    ASSUME ManagerInv, NEW t \in Thread, Write(t)
    PROVE  ManagerInv'
<1>1. cvn' \in Nat \ {0}
    <2>1. tmp[t] \in Nat
        BY DEF ManagerInv, TypeOK
    <2> QED
        BY <2>1 DEF Write
<1>2. pc' \in [Thread -> Place]
    BY DEF ManagerInv, TypeOK, Write, Goto, Place
<1>3. answer' \in [Request -> {"none", "forwarded", "no gateway"}]
    BY DEF ManagerInv, TypeOK, Write
<1>4. TypeOK'
    BY <1>1, <1>2, <1>3 DEF ManagerInv, TypeOK, Write
<1>5. HasJob'
    BY DEF ManagerInv, TypeOK, HasJob, Write, Goto
<1>6. Holds'
    <2> SUFFICES ASSUME NEW u \in Thread, Inside(u)'
                 PROVE  lock' = u
        BY DEF Holds
    <2>1. lock = t
        BY DEF ManagerInv, Holds, Inside, Write
    <2>2. CASE u = t
        BY <2>1, <2>2 DEF ManagerInv, TypeOK, Inside, Write, Goto
    <2>3. CASE u # t
        <3>1. Inside(u)
            BY <2>3 DEF ManagerInv, TypeOK, Inside, Write, Goto
        <3> QED
            BY <2>1, <2>3, <3>1 DEF ManagerInv, Holds
    <2> QED
        BY <2>2, <2>3
<1> QED
    BY <1>4, <1>5, <1>6 DEF ManagerInv

LEMMA RestartInv ==
    ASSUME ManagerInv, NEW t \in Thread, Restart(t)
    PROVE  ManagerInv'
<1>1. cvn' \in Nat \ {0}
    BY DEF Restart
<1>2. /\ job' \in [Thread -> Order \cup {None}]
      /\ pending' \in [Thread -> Order \cup {None}]
    BY ServerOrders DEF ManagerInv, TypeOK, Restart
<1>3. pc' \in [Thread -> Place]
    BY DEF ManagerInv, TypeOK, Restart, Goto, Place
<1>4. TypeOK'
    BY <1>1, <1>2, <1>3 DEF ManagerInv, TypeOK, Restart
<1>5. CASE pending[t] # None
    BY <1>4, <1>5 DEF ManagerInv, TypeOK, HasJob, Holds, Inside, Restart, Goto
<1>6. CASE pending[t] = None
    BY <1>4, <1>6, ServerOrders DEF ManagerInv, TypeOK, HasJob, Holds, Inside, Restart, Goto
<1> QED
    BY <1>5, <1>6

LEMMA EnvironmentInv ==
    ASSUME ManagerInv, NEW s \in Session, Close(s) \/ Deliver(s)
    PROVE  ManagerInv'
<1>1. CASE Close(s)
    <2>1. wire' \in [Session -> Seq(Line)]
        <3>1. wire \in [Session -> Seq(Line)]
            BY DEF ManagerInv, TypeOK
        <3>2. <<>> \in Seq(Line)
            OBVIOUS
        <3> QED
            BY <1>1, <3>1, <3>2 DEF Close
    <2>2. open' \subseteq queue
        BY <1>1 DEF ManagerInv, TypeOK, Close
    <2> QED
        BY <1>1, <2>1, <2>2 DEF ManagerInv, TypeOK, HasJob, Holds, Inside, Close
<1>2. CASE Deliver(s)
    <2>1. wire[s] \in Seq(Line) /\ wire[s] # <<>>
        BY <1>2 DEF ManagerInv, TypeOK, Deliver
    <2>2. Head(wire[s]) \in Line /\ Tail(wire[s]) \in Seq(Line)
        BY <2>1
    <2>3. Gateway[s] \in Sink
        BY ManagerAssumption
    <2>4. SinkAfter(sink[Gateway[s]], Head(wire[s])) \in Sinks
        BY <2>2, <2>3, SinkAfterType DEF ManagerInv, TypeOK
    <2>5. wire' \in [Session -> Seq(Line)] /\ sink' \in [Sink -> Sinks]
        BY <1>2, <2>2, <2>3, <2>4 DEF ManagerInv, TypeOK, Deliver
    <2> QED
        BY <1>2, <2>5 DEF ManagerInv, TypeOK, HasJob, Holds, Inside, Deliver
<1> QED
    BY <1>1, <1>2

LEMMA ManagerNext == ManagerInv /\ [Next]_vars => ManagerInv'
<1> SUFFICES ASSUME ManagerInv, [Next]_vars PROVE ManagerInv'
    OBVIOUS
<1>1. CASE UNCHANGED vars
    BY <1>1 DEF ManagerInv, TypeOK, HasJob, Holds, Inside, vars
<1>2. ASSUME NEW t \in Thread, Step(t) PROVE ManagerInv'
    BY <1>2, ClearInv, EnterInv, CheckInv, SendInv, ReadInv, WriteInv, RestartInv, RefuseInv
    DEF Step
<1>3. CASE Threads
    BY <1>2, <1>3 DEF Threads
<1>4. CASE Environment
    BY <1>4, EnvironmentInv DEF Environment
<1> QED
    BY <1>1, <1>3, <1>4, OpenInv, SubmitInv DEF Next

(* Every behaviour of the server threads is type correct.                  *)
THEOREM ManagerTypeCorrect == Spec => []TypeOK
<1>1. ManagerInv => TypeOK
    BY DEF ManagerInv
<1> QED
    BY <1>1, ManagerInit, ManagerNext, PTL DEF Spec

(* synchronized: two threads are never between the check of the version    *)
(* number and its increment at the same time.                              *)
THEOREM ManagerExclusive == Spec => []Exclusive
<1>1. ManagerInv => Exclusive
    BY DEF ManagerInv, Holds, Exclusive
<1> QED
    BY <1>1, ManagerInit, ManagerNext, PTL DEF Spec

----------------------------------------------------------------------------
(* Lines under way to a sink whose version is c.                           *)

IsReset(l) == l.kind = "RESET_CVN"

(* Only a reset has the last version.                                      *)
Valid(l) == IF IsReset(l) THEN l.cvn = CvnMax ELSE l.cvn \in 1..(CvnMax - 1)

(* The version of a sink that has accepted line l.                         *)
Version(l) == IF IsReset(l) THEN 0 ELSE l.cvn

(* Each line of w is newer than what the sink has heard before it.         *)
Chain(c, w) ==
    \A i \in 1..Len(w) :
        Valid(w[i]) /\ (IF i = 1 THEN c ELSE Version(w[i - 1])) < w[i].cvn

(* The version of the sink when it has heard all of w.                     *)
Top(c, w) == IF w = <<>> THEN c ELSE Version(w[Len(w)])

LEMMA ChainAppend ==
    ASSUME NEW c \in Nat, NEW w \in Seq(Line), Chain(c, w),
           NEW l \in Line, Valid(l), Top(c, w) < l.cvn
    PROVE  Chain(c, Append(w, l)) /\ Top(c, Append(w, l)) = Version(l)
<1> DEFINE x == Append(w, l)
<1>1. /\ Len(w) \in Nat /\ Len(x) = Len(w) + 1 /\ x[Len(w) + 1] = l
      /\ \A i \in 1..Len(w) : x[i] = w[i]
      /\ x # <<>> /\ (w = <<>> <=> Len(w) = 0)
    BY AppendProperties, EmptySeq
<1> HIDE DEF x
<1>2. Top(c, x) = Version(l)
    BY <1>1 DEF Top
<1>3. ASSUME NEW i \in 1..Len(x)
      PROVE  Valid(x[i]) /\ (IF i = 1 THEN c ELSE Version(x[i - 1])) < x[i].cvn
    <2>1. CASE i = Len(w) + 1 /\ i = 1
        BY <1>1, <2>1 DEF Top
    <2>2. CASE i = Len(w) + 1 /\ i # 1
        <3>1. i - 1 = Len(w) /\ i - 1 \in 1..Len(w) /\ w # <<>>
            BY <1>1, <2>2
        <3>2. Version(x[i - 1]) = Top(c, w)
            BY <1>1, <3>1 DEF Top
        <3> QED
            BY <1>1, <2>2, <3>2
    <2>3. CASE i \in 1..Len(w)
        <3>1. i # 1 => i - 1 \in 1..Len(w)
            BY <1>1, <2>3
        <3> QED
            BY <1>1, <2>3, <3>1 DEF Chain
    <2> QED
        BY <1>1, <2>1, <2>2, <2>3
<1> QED
    BY <1>2, <1>3 DEF Chain, x

LEMMA ChainHead ==
    ASSUME NEW c \in Nat, NEW w \in Seq(Line), w # <<>>, Chain(c, w)
    PROVE  /\ Head(w) \in Line /\ Valid(Head(w)) /\ c < Head(w).cvn
           /\ Chain(Version(Head(w)), Tail(w))
           /\ Top(Version(Head(w)), Tail(w)) = Top(c, w)
<1> DEFINE x == Tail(w)
<1>1. /\ Len(w) \in Nat /\ Len(w) > 0 /\ Len(x) = Len(w) - 1 /\ Head(w) = w[1]
      /\ \A i \in 1..Len(x) : x[i] = w[i + 1]
      /\ (x = <<>> <=> Len(x) = 0)
    <2>1. x \in Seq(Line) /\ Len(x) = Len(w) - 1 /\ Head(w) = w[1]
          /\ \A i \in 1..Len(x) : x[i] = w[i + 1]
        BY HeadTailProperties
    <2> QED
        BY <2>1, EmptySeq
<1>2. Head(w) \in Line /\ Valid(Head(w)) /\ c < Head(w).cvn
    <2>1. 1 \in 1..Len(w)
        BY <1>1
    <2> QED
        BY <1>1, <2>1 DEF Chain
<1> HIDE DEF x
<1>3. ASSUME NEW i \in 1..Len(x)
      PROVE  Valid(x[i]) /\ (IF i = 1 THEN Version(w[1]) ELSE Version(x[i - 1])) < x[i].cvn
    <2>1. i + 1 \in 1..Len(w) /\ i + 1 # 1 /\ (i + 1) - 1 = i /\ x[i] = w[i + 1]
        BY <1>1
    <2>2. Valid(w[i + 1]) /\ Version(w[i]) < w[i + 1].cvn
        BY <2>1 DEF Chain
    <2>3. i # 1 => i - 1 \in 1..Len(x) /\ (i - 1) + 1 = i
        BY <1>1
    <2>4. i # 1 => x[i - 1] = w[i]
        BY <1>1, <2>3
    <2> QED
        BY <2>1, <2>2, <2>4
<1>4. Top(Version(w[1]), x) = Top(c, w)
    <2>1. CASE Len(w) = 1
        BY <1>1, <2>1 DEF Top
    <2>2. CASE Len(w) # 1
        <3>1. Len(x) \in 1..Len(x) /\ Len(x) + 1 = Len(w) /\ x # <<>>
            BY <1>1, <2>2
        <3>2. x[Len(x)] = w[Len(w)]
            BY <1>1, <3>1
        <3> QED
            BY <3>1, <3>2 DEF Top
    <2> QED
        BY <2>1, <2>2
<1> QED
    BY <1>1, <1>2, <1>3, <1>4 DEF Chain, x

LEMMA SinkHears ==
    ASSUME NEW k \in Sinks, NEW l \in Line, Valid(l), k.ccvn < l.cvn
    PROVE  /\ SinkAccepts(k, l)
           /\ SinkAfter(k, l).ccvn = Version(l) /\ Version(l) \in Nat /\ Version(l) < CvnMax
<1>1. l.cvn \in 1..CvnMax /\ CvnMax \in Nat /\ CvnMax >= 2
    BY HandlersAssumption DEF Valid
<1>2. U16(l.cvn) = l.cvn
    BY <1>1, U16Id
<1>3. SinkAccepts(k, l)
    BY <1>1, <1>2 DEF SinkAccepts
<1>4. SinkAfter(k, l).ccvn = Version(l)
    BY <1>2, <1>3 DEF SinkAfter, Version, IsReset
<1>5. Version(l) \in Nat /\ Version(l) < CvnMax
    BY <1>1 DEF Version, Valid
<1> QED
    BY <1>3, <1>4, <1>5

(* Top is a version below the last one.                                    *)
LEMMA TopType ==
    ASSUME NEW c \in Nat, c < CvnMax, NEW w \in Seq(Line), Chain(c, w)
    PROVE  Top(c, w) \in Nat /\ Top(c, w) < CvnMax
<1>1. CASE w = <<>>
    BY <1>1 DEF Top
<1>2. CASE w # <<>>
    <2>1. Len(w) \in 1..Len(w) /\ Valid(w[Len(w)])
        BY <1>2, EmptySeq DEF Chain
    <2> QED
        BY <1>2, <2>1, HandlersAssumption DEF Top, Version, Valid
<1> QED
    BY <1>1, <1>2

----------------------------------------------------------------------------
(* The invariant.                                                          *)

TopOf(s) == Top(sink[Gateway[s]].ccvn, wire[s])

Idle(t) == pc[t] \in {"start", "end"}

(* A thread that opens a connection is alone.                              *)
Alone == \A s \in Session, t \in Thread : ~ Idle(s) /\ ~ Idle(t) => s = t

(* What a thread works on; a request resets only inside its own command.   *)
Works(t) ==
    /\ t \in Request /\ pc[t] \in {"clear", "restart"} => pending[t] # None
    /\ t \in Request /\ ~ Idle(t) /\ job[t] = ResetOrder => pending[t] # None
    /\ pending[t] # None => ~ Idle(t) /\ pending[t] # ResetOrder
    /\ pending[t] # None /\ pc[t] # "clear" => job[t] = ResetOrder
    /\ pc[t] = "restart" => job[t] = ResetOrder
    /\ Inside(t) => queue # {}

Working == \A t \in Thread : Works(t)

(* The sessions: one a sink, nothing on those that are closed.             *)
Sessions ==
    /\ \A s, x \in open : Gateway[s] = Gateway[x] => s = x
    /\ \A s \in Session : wire[s] # <<>> => s \in open

Sinking ==
    /\ \A k \in Sink : sink[k].ccvn < CvnMax
    /\ \A s \in open : Chain(sink[Gateway[s]].ccvn, wire[s])

(* The number of a thread that is sending.                                 *)
Numbered(t) ==
    /\ pc[t] \in {"enter", "check", "send"} /\ job[t] = ResetOrder => cvn = CvnMax
    /\ pc[t] = "send" /\ job[t] # ResetOrder => cvn < CvnMax
    /\ pc[t] \in {"read", "write", "restart"} /\ job[t] = ResetOrder =>
         \A s \in open : TopOf(s) = 0
    /\ pc[t] \in {"read", "write"} /\ job[t] # ResetOrder =>
         cvn < CvnMax /\ \A s \in open : TopOf(s) <= cvn
    /\ pc[t] = "write" => tmp[t] = cvn

(* Nobody is between a reset or a line and the number after it.            *)
Steady ==
    (\A t \in Thread : pc[t] \notin {"clear", "read", "write", "restart"}) =>
      cvn <= CvnMax /\ \A s \in open : TopOf(s) < cvn

CalmInv ==
    /\ ManagerInv /\ Alone /\ Working /\ Sessions /\ Sinking
    /\ \A t \in Thread : Numbered(t)
    /\ Steady

(* The thread that may use the number, or has just used it.                *)
Critical(t) ==
    \/ pc[t] \in {"clear", "check", "send", "read", "write", "restart"}
    \/ pc[t] = "enter" /\ job[t] = ResetOrder

LEMMA Solo ==
    ASSUME ManagerInv, Alone, Working,
           NEW t \in Thread, NEW u \in Thread, Critical(t), Critical(u)
    PROVE  t = u
<1>1. ~ Idle(t) /\ ~ Idle(u)
    BY DEF Critical, Idle
<1>2. CASE t \in Session \/ u \in Session
    BY <1>1, <1>2 DEF Alone
<1>3. CASE t \in Request /\ u \in Request
    <2>1. ASSUME NEW x \in Request, x \in Thread, Critical(x), ~ Idle(x) PROVE lock = x
        <3>1. Inside(x)
            BY <2>1 DEF Critical, Working, Works, Inside
        <3> QED
            BY <2>1, <3>1 DEF ManagerInv, Holds
    <2> QED
        BY <1>1, <1>3, <2>1
<1> QED
    BY <1>2, <1>3 DEF Thread

LEMMA NotCritical ==
    ASSUME NEW t \in Thread, ~ Critical(t)
    PROVE  Numbered(t)
BY DEF Critical, Numbered

LEMMA CalmInit == Init => CalmInv
<1> SUFFICES ASSUME Init PROVE CalmInv
    OBVIOUS
<1>1. Alone /\ Working /\ Sessions
    BY DEF Init, Alone, Working, Works, Sessions, Idle, Inside
<1>2. Sinking
    BY HandlersAssumption DEF Init, Sinking, SinkBoot
<1>3. \A t \in Thread : Numbered(t)
    BY DEF Init, Numbered
<1>4. Steady
    BY HandlersAssumption DEF Init, Steady
<1> QED
    BY <1>1, <1>2, <1>3, <1>4, ManagerInit DEF CalmInv

(* The parts of CalmNext.                                                  *)
CalmOpen(s) == ~ Active(Thread) /\ Open(s)

CalmSubmit(r, o) == ~ Active(Session) /\ Submit(r, o)

LEMMA AllIdle ==
    ASSUME TypeOK, NEW T, ~ Active(T)
    PROVE  \A t \in T : Idle(t)
BY DEF Active, Idle

----------------------------------------------------------------------------
(* What the threads work on.                                               *)

LEMMA AloneStep ==
    ASSUME CalmInv, [CalmNext]_vars
    PROVE  Alone'
<1>0. TypeOK /\ Alone /\ pc \in [Thread -> Place]
    BY DEF CalmInv, ManagerInv, TypeOK
<1>1. ASSUME NEW s \in Session, CalmOpen(s) PROVE Alone'
    <2>1. \A t \in Thread : Idle(t)
        BY <1>0, <1>1, AllIdle DEF CalmOpen
    <2>2. \A t \in Thread \ {s} : Idle(t)'
        BY <1>0, <1>1, <2>1 DEF CalmOpen, Open, Goto, Idle
    <2> QED
        BY <2>2 DEF Alone, Thread
<1>2. ASSUME NEW r \in Request, NEW o \in Orders, CalmSubmit(r, o) PROVE Alone'
    <2>1. \A s \in Session : Idle(s)
        BY <1>0, <1>2, AllIdle DEF CalmSubmit
    <2>2. \A s \in Session : Idle(s)'
        BY <1>0, <1>2, <2>1, ManagerAssumption DEF CalmSubmit, Submit, Goto, Idle, Thread
    <2> QED
        BY <2>2 DEF Alone
<1>3. ASSUME NEW t \in Thread, Step(t) PROVE Alone'
    <2>1. ~ Idle(t)
        BY <1>3 DEF Step, Clear, Enter, Lock, Check, Send, Read, Write, Restart, Refuse, Idle
    <2>2. \A u \in Thread \ {t} : Idle(u)' = Idle(u)
        BY <1>0, <1>3 DEF Step, Clear, Enter, Check, Send, Read, Write, Restart, Refuse, Goto, Idle
    <2> QED
        BY <1>0, <2>1, <2>2 DEF Alone, Thread
<1>4. CASE Environment \/ UNCHANGED vars
    <2>1. \A t \in Thread : Idle(t)' = Idle(t)
        BY <1>4 DEF Environment, Close, Deliver, vars, Idle
    <2> QED
        BY <1>0, <2>1 DEF Alone, Thread
<1> QED
    BY <1>1, <1>2, <1>3, <1>4 DEF CalmNext, CalmOpen, CalmSubmit, Threads

(* Who makes no step works on.                                             *)
LEMMA WorksOn ==
    ASSUME CalmInv, NEW u \in Thread,
           pc'[u] = pc[u], job'[u] = job[u], pending'[u] = pending[u], queue \subseteq queue'
    PROVE  Works(u)'
BY DEF CalmInv, Working, Works, Idle, Inside

LEMMA WorkingThread ==
    ASSUME CalmInv, NEW t \in Thread, Step(t)
    PROVE  Works(t)'
<1>1. Works(t) /\ TypeOK /\ HasJob
    BY DEF CalmInv, Working, ManagerInv
<1>2. pc \in [Thread -> Place] /\ job \in [Thread -> Order \cup {None}]
      /\ pending \in [Thread -> Order \cup {None}]
    BY <1>1 DEF TypeOK
<1>3. ResetOrder # None /\ InfoOrder # None /\ InfoOrder # ResetOrder
    BY ServerOrders DEF InfoOrder, ResetOrder
<1>4. CASE Clear(t)
    BY <1>1, <1>2, <1>3, <1>4 DEF Clear, Works, Idle, Inside, Goto
<1>5. CASE t \in Request /\ Refuse(t)
    BY <1>1, <1>2, <1>3, <1>5 DEF Refuse, Lock, Works, Idle, Inside, Goto
<1>6. CASE Enter(t)
    BY <1>1, <1>2, <1>3, <1>6 DEF Enter, Lock, Works, Idle, Inside, Goto
<1>7. CASE Check(t)
    BY <1>1, <1>2, <1>3, <1>7 DEF Check, Works, Idle, Inside, Goto, HasJob
<1>8. CASE Send(t)
    BY <1>1, <1>2, <1>3, <1>8 DEF Send, Works, Idle, Inside, Goto
<1>9. CASE Read(t)
    BY <1>1, <1>2, <1>3, <1>9 DEF Read, Works, Idle, Inside, Goto
<1>10. CASE Write(t)
    BY <1>1, <1>2, <1>3, <1>10 DEF Write, Works, Idle, Inside, Goto
<1>11. CASE Restart(t)
    BY <1>1, <1>2, <1>3, <1>11 DEF Restart, Works, Idle, Inside, Goto
<1> QED
    BY <1>4, <1>5, <1>6, <1>7, <1>8, <1>9, <1>10, <1>11 DEF Step

LEMMA WorkingStep ==
    ASSUME CalmInv, [CalmNext]_vars
    PROVE  Working'
<1>1. /\ pc \in [Thread -> Place] /\ job \in [Thread -> Order \cup {None}]
      /\ pending \in [Thread -> Order \cup {None}]
    BY DEF CalmInv, ManagerInv, TypeOK
<1>2. \A t \in Thread : Works(t)
    BY DEF CalmInv, Working
<1>3. ASSUME NEW s \in Session, CalmOpen(s) PROVE \A t \in Thread : Works(t)'
    <2>1. s \in Thread /\ pc[s] = "start" /\ s \notin Request
        BY <1>3, ManagerAssumption DEF CalmOpen, Open, Thread
    <2>2. Works(s)'
        BY <1>1, <1>2, <1>3, <2>1 DEF CalmOpen, Open, Goto, Works, Idle, Inside
    <2>3. \A t \in Thread \ {s} : pc'[t] = pc[t] /\ job'[t] = job[t] /\ pending'[t] = pending[t]
        BY <1>1, <1>3 DEF CalmOpen, Open, Goto
    <2>4. queue \subseteq queue'
        BY <1>3 DEF CalmOpen, Open
    <2> QED
        BY <2>2, <2>3, <2>4, WorksOn
<1>4. ASSUME NEW r \in Request, NEW o \in Orders, CalmSubmit(r, o) PROVE \A t \in Thread : Works(t)'
    <2>1. r \in Thread /\ o # ResetOrder
        BY ManagerAssumption DEF Thread, ResetOrder
    <2>2. Works(r)'
        BY <1>1, <1>2, <1>4, <2>1 DEF CalmSubmit, Submit, Goto, Works, Idle, Inside
    <2>3. \A t \in Thread \ {r} : pc'[t] = pc[t] /\ job'[t] = job[t] /\ pending'[t] = pending[t]
        BY <1>1, <1>4 DEF CalmSubmit, Submit, Goto
    <2>4. queue' = queue
        BY <1>4 DEF CalmSubmit, Submit
    <2> QED
        BY <2>2, <2>3, <2>4, WorksOn
<1>5. ASSUME NEW t \in Thread, Step(t) PROVE \A u \in Thread : Works(u)'
    <2>1. /\ queue' = queue
          /\ \A u \in Thread \ {t} : pc'[u] = pc[u] /\ job'[u] = job[u] /\ pending'[u] = pending[u]
        BY <1>1, <1>5 DEF Step, Clear, Enter, Check, Send, Read, Write, Restart, Refuse, Goto
    <2> QED
        BY <1>5, <2>1, WorkingThread, WorksOn
<1>6. CASE Environment \/ UNCHANGED vars
    <2>1. pc' = pc /\ job' = job /\ pending' = pending /\ queue' = queue
        BY <1>6 DEF Environment, Close, Deliver, vars
    <2>2. \A t \in Thread : Works(t)'
        BY <2>1, WorksOn
    <2> QED
        BY <2>2 DEF Working
<1>7. \A t \in Thread : Works(t)'
    BY <1>3, <1>4, <1>5, <1>6 DEF CalmNext, CalmOpen, CalmSubmit, Threads, Working
<1> QED
    BY <1>7 DEF Working

----------------------------------------------------------------------------
(* The lines and the sinks.                                                *)

LEMMA Versions ==
    ASSUME CalmInv
    PROVE  /\ cvn \in Nat /\ cvn > 0 /\ CvnMax \in Nat /\ CvnMax >= 2
           /\ open \subseteq Session
           /\ \A s \in Session : /\ Gateway[s] \in Sink /\ sink[Gateway[s]] \in Sinks
                               /\ sink[Gateway[s]].ccvn \in Nat /\ sink[Gateway[s]].ccvn < CvnMax
                               /\ wire[s] \in Seq(Line)
           /\ \A s \in open : TopOf(s) \in Nat /\ TopOf(s) < CvnMax
<1>1. /\ cvn \in Nat /\ cvn > 0 /\ CvnMax \in Nat /\ CvnMax >= 2 /\ open \subseteq Session
      /\ wire \in [Session -> Seq(Line)] /\ sink \in [Sink -> Sinks]
    <2>1. TypeOK
        BY DEF CalmInv, ManagerInv
    <2>2. open \subseteq Session
        BY <2>1 DEF TypeOK
    <2>3. cvn \in Nat /\ cvn # 0 /\ wire \in [Session -> Seq(Line)] /\ sink \in [Sink -> Sinks]
        BY <2>1 DEF TypeOK
    <2>4. CvnMax \in Nat /\ CvnMax >= 2
        BY HandlersAssumption
    <2> QED
        BY <2>2, <2>3, <2>4
<1>2. ASSUME NEW s \in Session
      PROVE  /\ Gateway[s] \in Sink /\ sink[Gateway[s]] \in Sinks
             /\ sink[Gateway[s]].ccvn \in Nat /\ sink[Gateway[s]].ccvn < CvnMax
             /\ wire[s] \in Seq(Line)
    <2>1. Gateway[s] \in Sink
        BY ManagerAssumption
    <2>2. sink[Gateway[s]] \in Sinks
        BY <1>1, <2>1
    <2>3. sink[Gateway[s]].ccvn \in Nat
        BY <2>2 DEF Sinks
    <2>4. sink[Gateway[s]].ccvn < CvnMax
        BY <2>1 DEF CalmInv, Sinking
    <2> QED
        BY <1>1, <2>1, <2>2, <2>3, <2>4
<1>3. ASSUME NEW s \in open PROVE TopOf(s) \in Nat /\ TopOf(s) < CvnMax
    <2>1. Chain(sink[Gateway[s]].ccvn, wire[s])
        BY DEF CalmInv, Sinking
    <2> QED
        BY <1>1, <1>2, <2>1, TopType DEF TopOf
<1> QED
    BY <1>1, <1>2, <1>3

(* What a thread sends is newer than all that is under way.                *)
LEMMA Sending ==
    ASSUME CalmInv, NEW t \in Thread, Send(t)
    PROVE  /\ Stamp(cvn, job[t]) \in Line /\ Valid(Stamp(cvn, job[t]))
           /\ Stamp(cvn, job[t]).cvn = cvn
           /\ Version(Stamp(cvn, job[t])) = IF job[t] = ResetOrder THEN 0 ELSE cvn
           /\ \A s \in open : TopOf(s) < cvn
<1>1. job[t] \in Order /\ cvn \in Nat /\ cvn > 0 /\ CvnMax \in Nat
    BY Versions DEF CalmInv, ManagerInv, TypeOK, HasJob, Send
<1>2. IsReset(Stamp(cvn, job[t])) <=> job[t] = ResetOrder
    BY <1>1 DEF IsReset, Stamp, ResetOrder, Order, Local
<1>3. Numbered(t) /\ pc[t] = "send"
    BY DEF CalmInv, Send
<1>4. Valid(Stamp(cvn, job[t])) /\ Stamp(cvn, job[t]).cvn = cvn
    BY <1>1, <1>2, <1>3 DEF Valid, Numbered, Stamp
<1>5. ASSUME NEW u \in Thread PROVE pc[u] \notin {"clear", "read", "write", "restart"}
    <2>1. CASE u = t
        BY <1>3, <2>1
    <2>2. CASE u # t
        <3>1. Critical(t)
            BY <1>3 DEF Critical
        <3>2. ~ Critical(u)
            BY <2>2, <3>1, Solo DEF CalmInv
        <3> QED
            BY <3>2 DEF Critical
    <2> QED
        BY <2>1, <2>2
<1>6. \A s \in open : TopOf(s) < cvn
    BY <1>5 DEF CalmInv, Steady
<1> QED
    BY <1>1, <1>2, <1>4, <1>6, StampType DEF Version

LEMMA SentChains ==
    ASSUME CalmInv, NEW t \in Thread, Send(t), NEW s \in open
    PROVE  /\ Chain(sink[Gateway[s]].ccvn, wire'[s])
           /\ Top(sink[Gateway[s]].ccvn, wire'[s]) = IF job[t] = ResetOrder THEN 0 ELSE cvn
<1>1. s \in Session /\ wire[s] \in Seq(Line) /\ sink[Gateway[s]].ccvn \in Nat
    BY Versions
<1>2. wire'[s] = Append(wire[s], Stamp(cvn, job[t]))
    BY <1>1 DEF Send
<1>3. Chain(sink[Gateway[s]].ccvn, wire[s]) /\ Top(sink[Gateway[s]].ccvn, wire[s]) < cvn
    BY Sending DEF CalmInv, Sinking, TopOf
<1> QED
    BY <1>1, <1>2, <1>3, Sending, ChainAppend

(* A line that arrives is accepted, and the version of the sink when all   *)
(* has arrived is the same as before.                                      *)
LEMMA Arriving ==
    ASSUME CalmInv, NEW s \in Session, wire[s] # <<>>
    PROVE  LET k == sink[Gateway[s]]
           IN  /\ s \in open /\ SinkAccepts(k, Head(wire[s]))
               /\ SinkAfter(k, Head(wire[s])).ccvn < CvnMax
               /\ Chain(SinkAfter(k, Head(wire[s])).ccvn, Tail(wire[s]))
               /\ Top(SinkAfter(k, Head(wire[s])).ccvn, Tail(wire[s])) = TopOf(s)
<1> DEFINE k == sink[Gateway[s]]
<1>1. s \in open
    BY DEF CalmInv, Sessions
<1>2. Chain(k.ccvn, wire[s])
    BY <1>1 DEF CalmInv, Sinking
<1>3. k \in Sinks /\ k.ccvn \in Nat /\ wire[s] \in Seq(Line)
    BY Versions
<1>4. TopOf(s) = Top(k.ccvn, wire[s])
    BY DEF TopOf
<1> HIDE DEF k
<1>5. /\ Head(wire[s]) \in Line /\ Valid(Head(wire[s])) /\ k.ccvn < Head(wire[s]).cvn
      /\ Chain(Version(Head(wire[s])), Tail(wire[s]))
      /\ Top(Version(Head(wire[s])), Tail(wire[s])) = Top(k.ccvn, wire[s])
    BY <1>2, <1>3, ChainHead
<1>6. /\ SinkAccepts(k, Head(wire[s]))
      /\ SinkAfter(k, Head(wire[s])).ccvn = Version(Head(wire[s])) /\ Version(Head(wire[s])) < CvnMax
    BY <1>3, <1>5, SinkHears
<1> QED
    BY <1>1, <1>4, <1>5, <1>6 DEF k

LEMMA Delivered ==
    ASSUME CalmInv, NEW s \in Session, Deliver(s)
    PROVE  /\ s \in open
           /\ \A k \in Sink : sink'[k].ccvn < CvnMax
           /\ \A x \in open : /\ Chain(sink'[Gateway[x]].ccvn, wire'[x])
                            /\ Top(sink'[Gateway[x]].ccvn, wire'[x]) = TopOf(x)
<1>1. wire \in [Session -> Seq(Line)] /\ sink \in [Sink -> Sinks] /\ Gateway[s] \in Sink
    BY ManagerAssumption DEF CalmInv, ManagerInv, TypeOK
<1>2. /\ wire[s] # <<>> /\ wire'[s] = Tail(wire[s])
      /\ sink'[Gateway[s]] = SinkAfter(sink[Gateway[s]], Head(wire[s]))
      /\ \A x \in Session \ {s} : wire'[x] = wire[x]
      /\ \A k \in Sink \ {Gateway[s]} : sink'[k] = sink[k]
    BY <1>1 DEF Deliver
<1>3. /\ s \in open /\ sink'[Gateway[s]].ccvn < CvnMax
      /\ Chain(sink'[Gateway[s]].ccvn, wire'[s])
      /\ Top(sink'[Gateway[s]].ccvn, wire'[s]) = TopOf(s)
    BY <1>2, Arriving
<1>4. ASSUME NEW x \in open, x # s
      PROVE  wire'[x] = wire[x] /\ sink'[Gateway[x]] = sink[Gateway[x]]
    <2>1. x \in Session /\ Gateway[x] \in Sink
        BY Versions
    <2>2. Gateway[x] # Gateway[s]
        BY <1>3, <1>4 DEF CalmInv, Sessions
    <2> QED
        BY <1>2, <1>4, <2>1, <2>2
<1>5. \A k \in Sink : sink'[k].ccvn < CvnMax
    BY <1>2, <1>3 DEF CalmInv, Sinking
<1>6. ASSUME NEW x \in open, x # s
      PROVE  /\ Chain(sink'[Gateway[x]].ccvn, wire'[x])
             /\ Top(sink'[Gateway[x]].ccvn, wire'[x]) = TopOf(x)
    BY <1>4, <1>6 DEF CalmInv, Sinking, TopOf
<1> QED
    BY <1>3, <1>5, <1>6

(* The steps of a thread that send nothing.                                *)
Quietly(t) ==
    \/ Clear(t) \/ Enter(t) \/ Check(t) \/ Read(t) \/ Write(t) \/ Restart(t)
    \/ t \in Request /\ Refuse(t)

LEMMA SessionsStep ==
    ASSUME CalmInv, [CalmNext]_vars
    PROVE  Sessions' /\ Sinking'
<1>0. /\ wire \in [Session -> Seq(Line)] /\ sink \in [Sink -> Sinks] /\ open \subseteq Session
      /\ Sessions /\ Sinking
    BY Versions DEF CalmInv, ManagerInv, TypeOK
<1>1. ASSUME NEW s \in Session, CalmOpen(s) PROVE Sessions' /\ Sinking'
    <2>1. s \notin open /\ open' = open \cup {s} /\ wire' = wire /\ sink' = sink
        BY <1>1 DEF CalmOpen, Open
    <2>2. wire[s] = <<>> /\ Len(wire[s]) = 0
        BY <1>0, <2>1 DEF Sessions
    <2>3. Chain(sink[Gateway[s]].ccvn, wire[s])
        BY <2>2 DEF Chain
    <2>4. \A x \in open : Gateway[x] # Gateway[s]
        BY <1>1 DEF CalmOpen, Open
    <2>5. Sessions'
        BY <1>0, <2>1, <2>4 DEF Sessions
    <2>6. \A x \in open' : Chain(sink'[Gateway[x]].ccvn, wire'[x])
        BY <1>0, <2>1, <2>3 DEF Sinking
    <2> QED
        BY <1>0, <2>1, <2>5, <2>6 DEF Sinking
<1>2. ASSUME NEW t \in Thread, Send(t) PROVE Sessions' /\ Sinking'
    <2>1. open' = open /\ sink' = sink /\ \A x \in Session \ open : wire'[x] = wire[x]
        BY <1>2 DEF Send
    <2>2. \A x \in open : Chain(sink'[Gateway[x]].ccvn, wire'[x])
        BY <1>2, <2>1, SentChains
    <2> QED
        BY <1>0, <2>1, <2>2 DEF Sessions, Sinking
<1>3. ASSUME NEW s \in Session, Close(s) PROVE Sessions' /\ Sinking'
    <2>1. /\ open' = open \ {s} /\ sink' = sink /\ wire'[s] = <<>>
          /\ \A x \in Session \ {s} : wire'[x] = wire[x]
        BY <1>0, <1>3 DEF Close
    <2>2. \A x \in open' : Chain(sink'[Gateway[x]].ccvn, wire'[x])
        BY <1>0, <2>1 DEF Sinking
    <2> QED
        BY <1>0, <2>1, <2>2 DEF Sessions, Sinking
<1>4. ASSUME NEW s \in Session, Deliver(s) PROVE Sessions' /\ Sinking'
    <2>1. /\ open' = open /\ wire[s] # <<>>
          /\ \A x \in Session \ {s} : wire'[x] = wire[x]
        BY <1>0, <1>4 DEF Deliver
    <2>2. Sessions'
        BY <1>0, <2>1 DEF Sessions
    <2> QED
        BY <1>4, <2>1, <2>2, Delivered DEF Sinking
<1>5. CASE \/ \E t \in Thread : Quietly(t)
           \/ \E r \in Request, o \in Orders : CalmSubmit(r, o)
           \/ UNCHANGED vars
    <2>1. open' = open /\ wire' = wire /\ sink' = sink
        BY <1>5 DEF Quietly, Clear, Enter, Check, Read, Write, Restart, Refuse,
                    CalmSubmit, Submit, vars
    <2> QED
        BY <1>0, <2>1 DEF Sessions, Sinking
<1> QED
    BY <1>1, <1>2, <1>3, <1>4, <1>5
    DEF CalmNext, CalmOpen, CalmSubmit, Threads, Step, Quietly, Environment

----------------------------------------------------------------------------
(* The numbers.                                                            *)

Numbers == (\A t \in Thread : Numbered(t)) /\ Steady

(* Steps that leave the versions ahead alone, and the threads.             *)
LEMMA NumbersKept ==
    ASSUME CalmInv, cvn' = cvn, open' \subseteq open, pc' = pc, job' = job, tmp' = tmp,
           \A s \in open' : Top(sink'[Gateway[s]].ccvn, wire'[s]) = TopOf(s)
    PROVE  Numbers'
<1>1. \A s \in open' : TopOf(s)' = TopOf(s)
    BY DEF TopOf
<1>2. \A t \in Thread : Numbered(t)'
    <2> SUFFICES ASSUME NEW t \in Thread PROVE Numbered(t)'
        OBVIOUS
    <2>1. Numbered(t)
        BY DEF CalmInv
    <2> QED
        BY <1>1, <2>1 DEF Numbered
<1>3. Steady'
    <2>1. Steady
        BY DEF CalmInv
    <2> QED
        BY <1>1, <2>1 DEF Steady
<1> QED
    BY <1>2, <1>3 DEF Numbers

(* A thread that was or becomes critical is the only one.                  *)
LEMMA OthersWait ==
    ASSUME CalmInv, NEW t \in Thread, Critical(t),
           NEW u \in Thread, u # t, pc'[u] = pc[u], job'[u] = job[u]
    PROVE  Numbered(u)' /\ pc[u] \notin {"clear", "read", "write", "restart"}
<1>1. ~ Critical(u)
    BY Solo DEF CalmInv
<1> QED
    BY <1>1 DEF Critical, Numbered

LEMMA NumbersThread ==
    ASSUME CalmInv, NEW t \in Thread, Step(t)
    PROVE  Numbers'
<1>0. /\ pc \in [Thread -> Place] /\ job \in [Thread -> Order \cup {None}]
      /\ tmp \in [Thread -> Nat] /\ Numbered(t) /\ Works(t) /\ Steady
    BY DEF CalmInv, ManagerInv, TypeOK, Working
<1>1. \A u \in Thread \ {t} : pc'[u] = pc[u] /\ job'[u] = job[u] /\ tmp'[u] = tmp[u]
    BY <1>0 DEF Step, Clear, Enter, Check, Send, Read, Write, Restart, Refuse, Goto
<1>2. ASSUME Critical(t), Numbered(t)', Steady' PROVE Numbers'
    <2>1. \A u \in Thread \ {t} : Numbered(u)'
        BY <1>1, <1>2, OthersWait
    <2> QED
        BY <1>2, <2>1 DEF Numbers
<1>3. cvn \in Nat /\ cvn > 0 /\ CvnMax \in Nat /\ CvnMax >= 2
    BY Versions
<1>4. CASE Clear(t)
    <2>1. pc[t] = "clear" /\ pc'[t] = "enter" /\ job'[t] = ResetOrder /\ cvn' = CvnMax
        BY <1>0, <1>4 DEF Clear, Goto
    <2>2. \A s \in open' : TopOf(s)' < cvn'
        <3>1. open' = open /\ wire' = wire /\ sink' = sink
            BY <1>4 DEF Clear
        <3> QED
            BY <2>1, <3>1, Versions DEF TopOf
    <2>3. Steady'
        BY <1>3, <2>1, <2>2 DEF Steady
    <2> QED
        BY <1>2, <2>1, <2>3 DEF Critical, Numbered
<1>5. CASE t \in Request /\ Refuse(t)
    <2>1. /\ pc[t] = "enter" /\ pc'[t] = "end" /\ cvn' = cvn /\ open' = open /\ wire' = wire
          /\ sink' = sink /\ job' = job /\ tmp' = tmp
        BY <1>0, <1>5 DEF Refuse, Lock, Goto
    <2>2. \A s \in open' : TopOf(s)' = TopOf(s)
        BY <2>1 DEF TopOf
    <2>3. \A u \in Thread : Numbered(u)'
        <3>1. Numbered(t)'
            BY <2>1 DEF Numbered
        <3>2. ASSUME NEW u \in Thread, u # t PROVE Numbered(u)'
            <4>1. Numbered(u) /\ pc'[u] = pc[u]
                BY <1>1, <3>2 DEF CalmInv
            <4> QED
                BY <2>1, <2>2, <4>1 DEF Numbered
        <3> QED
            BY <3>1, <3>2
    <2>4. Steady'
        BY <1>0, <1>1, <2>1, <2>2 DEF Steady
    <2> QED
        BY <2>3, <2>4 DEF Numbers
<1>6. CASE Enter(t)
    <2>1. /\ pc[t] = "enter" /\ pc'[t] = "check" /\ cvn' = cvn /\ open' = open /\ wire' = wire
          /\ sink' = sink /\ job' = job /\ tmp' = tmp
        BY <1>0, <1>6 DEF Enter, Lock, Goto
    <2>2. \A s \in open' : TopOf(s)' = TopOf(s)
        BY <2>1 DEF TopOf
    <2>3. \A u \in Thread : Numbered(u)'
        <3>1. Numbered(t)'
            BY <1>0, <2>1 DEF Numbered
        <3>2. ASSUME NEW u \in Thread, u # t PROVE Numbered(u)'
            <4>1. Numbered(u) /\ pc'[u] = pc[u]
                BY <1>1, <3>2 DEF CalmInv
            <4> QED
                BY <2>1, <2>2, <4>1 DEF Numbered
        <3> QED
            BY <3>1, <3>2
    <2>4. Steady'
        BY <1>0, <1>1, <2>1, <2>2 DEF Steady
    <2> QED
        BY <2>3, <2>4 DEF Numbers
<1>7. CASE Check(t)
    <2>1. /\ pc[t] = "check" /\ cvn' = cvn /\ open' = open /\ wire' = wire
          /\ sink' = sink /\ job' = job /\ tmp' = tmp
          /\ \/ job[t] # ResetOrder /\ pc'[t] = "clear"
             \/ (job[t] = ResetOrder \/ ~ (cvn >= CvnMax)) /\ pc'[t] = "send"
        BY <1>0, <1>7 DEF Check, Goto
    <2>2. \A s \in open' : TopOf(s)' = TopOf(s)
        BY <2>1 DEF TopOf
    <2>3. Numbered(t)'
        BY <1>0, <1>3, <2>1 DEF Numbered
    <2>4. Steady'
        BY <1>0, <1>1, <2>1, <2>2 DEF Steady
    <2> QED
        BY <1>2, <2>1, <2>3, <2>4 DEF Critical
<1>8. CASE Send(t)
    <2>1. /\ pc[t] = "send" /\ pc'[t] = "read" /\ cvn' = cvn /\ open' = open
          /\ sink' = sink /\ job' = job
        BY <1>0, <1>8 DEF Send, Goto
    <2>2. \A s \in open' : TopOf(s)' = IF job[t] = ResetOrder THEN 0 ELSE cvn
        BY <1>8, <2>1, SentChains DEF TopOf
    <2>3. Numbered(t)'
        BY <1>0, <1>3, <2>1, <2>2 DEF Numbered
    <2>4. Steady'
        BY <2>1 DEF Steady
    <2> QED
        BY <1>2, <2>1, <2>3, <2>4 DEF Critical
<1>9. CASE Read(t)
    <2>1. /\ pc[t] = "read" /\ pc'[t] = "write" /\ cvn' = cvn /\ open' = open /\ wire' = wire
          /\ sink' = sink /\ job' = job /\ tmp'[t] = cvn
        BY <1>0, <1>9 DEF Read, Goto
    <2>2. \A s \in open' : TopOf(s)' = TopOf(s)
        BY <2>1 DEF TopOf
    <2>3. Numbered(t)'
        BY <1>0, <2>1, <2>2 DEF Numbered
    <2>4. Steady'
        BY <2>1 DEF Steady
    <2> QED
        BY <1>2, <2>1, <2>3, <2>4 DEF Critical
<1>10. CASE Write(t)
    <2>1. /\ pc[t] = "write" /\ cvn' = cvn + 1 /\ open' = open /\ wire' = wire
          /\ sink' = sink /\ job' = job
          /\ pc'[t] = IF job[t] = ResetOrder THEN "restart" ELSE "end"
        BY <1>0, <1>10 DEF Write, Goto, Numbered
    <2>2. \A s \in open' : TopOf(s)' = TopOf(s)
        BY <2>1 DEF TopOf
    <2>3. Numbered(t)'
        BY <1>0, <2>1, <2>2 DEF Numbered
    <2>4. Steady'
        <3>1. CASE job[t] = ResetOrder
            BY <2>1, <3>1 DEF Steady
        <3>2. CASE job[t] # ResetOrder
            <4>1. cvn < CvnMax /\ \A s \in open : TopOf(s) <= cvn /\ TopOf(s) \in Nat
                BY <1>0, <2>1, <3>2, Versions DEF Numbered
            <4>2. cvn' <= CvnMax /\ \A s \in open' : TopOf(s)' < cvn'
                BY <1>3, <2>1, <2>2, <4>1
            <4> QED
                BY <4>2 DEF Steady
        <3> QED
            BY <3>1, <3>2
    <2> QED
        BY <1>2, <2>1, <2>3, <2>4 DEF Critical
<1>11. CASE Restart(t)
    <2>1. /\ pc[t] = "restart" /\ cvn' = 1 /\ open' = open /\ wire' = wire /\ sink' = sink
          /\ job[t] = ResetOrder
          /\ \/ pc'[t] = "send" /\ job'[t] = pending[t] /\ pending[t] # ResetOrder
             \/ pc'[t] = "enter" /\ job'[t] = InfoOrder
        BY <1>0, <1>11 DEF Restart, Goto, Works
    <2>2. \A s \in open' : TopOf(s)' = 0
        BY <1>0, <2>1 DEF TopOf, Numbered
    <2>3. Numbered(t)'
        BY <1>3, <2>1 DEF Numbered, InfoOrder, ResetOrder
    <2>4. Steady'
        BY <1>3, <2>1, <2>2 DEF Steady
    <2> QED
        BY <1>2, <2>1, <2>3, <2>4 DEF Critical
<1> QED
    BY <1>4, <1>5, <1>6, <1>7, <1>8, <1>9, <1>10, <1>11 DEF Step

LEMMA NumbersStep ==
    ASSUME CalmInv, [CalmNext]_vars
    PROVE  Numbers'
<1>0. /\ pc \in [Thread -> Place] /\ job \in [Thread -> Order \cup {None}] /\ Steady /\ TypeOK
    BY DEF CalmInv, ManagerInv, TypeOK
<1>1. ASSUME NEW s \in Session, CalmOpen(s) PROVE Numbers'
    <2>1. \A t \in Thread : Idle(t)
        BY <1>0, <1>1, AllIdle DEF CalmOpen
    <2>2. s \in Thread /\ pc'[s] = "clear" /\ \A t \in Thread \ {s} : pc'[t] = pc[t]
        BY <1>0, <1>1 DEF CalmOpen, Open, Goto, Thread
    <2>3. \A t \in Thread : Numbered(t)'
        BY <2>1, <2>2 DEF Idle, Numbered
    <2>4. Steady'
        BY <2>2 DEF Steady
    <2> QED
        BY <2>3, <2>4 DEF Numbers
<1>2. ASSUME NEW r \in Request, NEW o \in Orders, CalmSubmit(r, o) PROVE Numbers'
    <2>1. /\ r \in Thread /\ pc[r] = "start" /\ pc'[r] = "enter" /\ job'[r] = o /\ o # ResetOrder
          /\ \A t \in Thread \ {r} : pc'[t] = pc[t] /\ job'[t] = job[t]
          /\ cvn' = cvn /\ open' = open /\ wire' = wire /\ sink' = sink /\ tmp' = tmp
        BY <1>0, <1>2, ManagerAssumption DEF CalmSubmit, Submit, Goto, Thread, ResetOrder
    <2>2. \A s \in open' : TopOf(s)' = TopOf(s)
        BY <2>1 DEF TopOf
    <2>3. \A t \in Thread : Numbered(t)'
        <3>1. Numbered(r)'
            BY <2>1 DEF Numbered
        <3>2. ASSUME NEW t \in Thread, t # r PROVE Numbered(t)'
            <4>1. Numbered(t)
                BY DEF CalmInv
            <4> QED
                BY <2>1, <2>2, <3>2, <4>1 DEF Numbered
        <3> QED
            BY <3>1, <3>2
    <2>4. Steady'
        BY <1>0, <2>1, <2>2 DEF Steady
    <2> QED
        BY <2>3, <2>4 DEF Numbers
<1>3. ASSUME NEW s \in Session, Close(s) PROVE Numbers'
    <2>1. /\ cvn' = cvn /\ open' \subseteq open /\ pc' = pc /\ job' = job /\ tmp' = tmp
          /\ sink' = sink /\ \A x \in open' : wire'[x] = wire[x]
        BY <1>0, <1>3 DEF Close, TypeOK
    <2> QED
        BY <2>1, NumbersKept DEF TopOf
<1>4. ASSUME NEW s \in Session, Deliver(s) PROVE Numbers'
    <2>1. cvn' = cvn /\ open' = open /\ pc' = pc /\ job' = job /\ tmp' = tmp
        BY <1>4 DEF Deliver
    <2> QED
        BY <1>4, <2>1, Delivered, NumbersKept
<1>5. CASE UNCHANGED vars
    BY <1>5, NumbersKept DEF vars, TopOf
<1> QED
    BY <1>1, <1>2, <1>3, <1>4, <1>5, NumbersThread
    DEF CalmNext, CalmOpen, CalmSubmit, Threads, Environment

LEMMA CalmStep == CalmInv /\ [CalmNext]_vars => CalmInv'
<1> SUFFICES ASSUME CalmInv, [CalmNext]_vars PROVE CalmInv'
    OBVIOUS
<1>1. [Next]_vars
    BY DEF CalmNext, Next
<1>2. ManagerInv'
    BY <1>1, ManagerNext DEF CalmInv
<1>3. Alone' /\ Working' /\ Sessions' /\ Sinking' /\ Numbers'
    BY AloneStep, WorkingStep, SessionsStep, NumbersStep
<1> QED
    BY <1>2, <1>3 DEF CalmInv, Numbers

(* sink_command.c compares versions: for any number of gateways, sessions  *)
(* and concurrent requests, and wherever the numbers wrap, no sink finds a *)
(* line obsolete or without a version, as long as connections open one at  *)
(* a time.                                                                 *)
THEOREM CalmNoneRefused == CalmSpec => NoneRefused
<1>1. CalmInv => \A s \in Session :
        wire[s] # <<>> => SinkAccepts(sink[Gateway[s]], Head(wire[s]))
    BY Arriving
<1>2. CalmInv /\ [CalmNext]_vars =>
        [\A s \in Session : wire[s] # <<>> /\ wire'[s] = Tail(wire[s]) /\ s \in open' =>
           SinkAccepts(sink[Gateway[s]], Head(wire[s]))]_vars
    BY <1>1
<1> QED
    BY <1>2, CalmInit, CalmStep, PTL DEF CalmSpec, NoneRefused

(* CommandManager: when no thread is at work, the next number is one that  *)
(* every connected sink will accept.                                       *)
THEOREM CalmInStep == CalmSpec => []InStep
<1>1. CalmInv => InStep
    <2> SUFFICES ASSUME CalmInv, ~ Active(Thread), NEW s \in open, wire[s] = <<>>
                 PROVE  sink[Gateway[s]].ccvn < cvn /\ sink[Gateway[s]].ccvn < CvnMax
        BY DEF InStep
    <2>1. \A t \in Thread : Idle(t)
        BY AllIdle DEF CalmInv, ManagerInv
    <2>2. TopOf(s) < cvn
        BY <2>1 DEF CalmInv, Steady, Idle
    <2> QED
        BY <2>2, Versions DEF TopOf, Top
<1> QED
    BY <1>1, CalmInit, CalmStep, PTL DEF CalmSpec
=============================================================================
