--------------------------- MODULE GatewayLinkProofs ---------------------------
(***************************************************************************)
(* A gateway never loses its last link to the server, and has its stream   *)
(* when nothing is under way, for any number of sessions and refusals.     *)
(***************************************************************************)
EXTENDS GatewayLink, HandlerProofs, FiniteSetTheorems, SequenceTheorems, TLAPS

LEMMA ServerLines ==
    /\ ResetLine \in Line
    /\ SinkInfoLine \in Line
    /\ \A o \in Orders : \A v \in 1..CvnMax : Stamp(v, o) \in Line
<1>1. /\ [kind |-> "RESET_CVN", arg |-> NoArg] \in Order
      /\ [kind |-> "SINK_ID_DVN", arg |-> NoArg] \in Order
    BY DEF Order, Local
<1>2. CvnMax \in Nat /\ 1 \in Nat
    BY HandlersAssumption
<1>3. Orders \subseteq Order
    BY LinkAssumption
<1> QED
    BY <1>1, <1>2, <1>3, StampType DEF ResetLine, SinkInfoLine

LEMMA WriteType ==
    ASSUME TypeOK, NEW Q, NEW l \in Seq(Line), Write(Q, l)
    PROVE  wire' \in [Session -> Seq(Line)]
<1>1. \A s \in Session : wire[s] \o l \in Seq(Line)
    BY ConcatProperties DEF TypeOK
<1> QED
    BY <1>1 DEF TypeOK, Write

LEMMA SessionsFinite ==
    ASSUME NEW S, S \subseteq Session
    PROVE  IsFiniteSet(S) /\ Cardinality(S) \in Nat
<1>1. IsFiniteSet(S)
    BY FS_Subset, LinkAssumption
<1> QED
    BY <1>1, FS_CardinalityType

----------------------------------------------------------------------------
(* Types.                                                                  *)

LEMMA TypeInit == Init => TypeOK
<1> SUFFICES ASSUME Init PROVE TypeOK
    OBVIOUS
<1>1. 1 \in 1..CvnMax /\ 0 \in 0..MaxRefused /\ 0 \in 0..MaxCrashes
    BY HandlersAssumption, LinkAssumption
<1>2. [s \in Session |-> <<>>] \in [Session -> Seq(Line)]
    OBVIOUS
<1> QED
    BY <1>1, <1>2 DEF Init, TypeOK, Open

LEMMA SendCommandType ==
    ASSUME TypeOK, NEW o \in Orders, SendCommand(o)
    PROVE  TypeOK'
<1>1. <<Stamp(cvn, o)>> \in Seq(Line) /\ <<ResetLine, Stamp(1, o)>> \in Seq(Line)
    <2>1. 1 \in 1..CvnMax
        BY HandlersAssumption
    <2>2. Stamp(cvn, o) \in Line /\ Stamp(1, o) \in Line /\ ResetLine \in Line
        BY <2>1, ServerLines DEF TypeOK
    <2> QED
        BY <2>2
<1>2. wire' \in [Session -> Seq(Line)]
    <2>1. CASE cvn < CvnMax
        BY <1>1, <2>1, WriteType DEF SendCommand
    <2>2. CASE ~ (cvn < CvnMax)
        BY <1>1, <2>2, WriteType DEF SendCommand
    <2> QED
        BY <2>1, <2>2
<1>3. cvn' \in 1..CvnMax
    BY HandlersAssumption DEF TypeOK, SendCommand
<1> QED
    BY <1>2, <1>3 DEF TypeOK, Open, SendCommand, threads, mote, counts

LEMMA ConnectType ==
    ASSUME TypeOK, NEW s \in Session, Connect(s)
    PROVE  TypeOK'
<1>1. CASE loggedIn
    <2>1. Accept(s)
        BY <1>1 DEF Connect
    <2>2. <<ResetLine, SinkInfoLine>> \in Seq(Line)
        BY ServerLines
    <2>3. wire' \in [Session -> Seq(Line)]
        BY <2>1, <2>2, WriteType DEF Accept
    <2>4. cvn' \in 1..CvnMax
        BY <2>1, HandlersAssumption DEF Accept
    <2> QED
        BY <2>1, <2>3, <2>4 DEF TypeOK, Open, Connect, Accept, mote
<1>2. CASE ~ loggedIn
    <2>1. Refuse(s)
        BY <1>2 DEF Connect
    <2> QED
        BY <2>1, LinkAssumption DEF TypeOK, Open, Connect, Refuse, mote
<1> QED
    BY <1>1, <1>2

LEMMA SessionType ==
    ASSUME TypeOK, NEW s \in Session,
           \/ Attach(s) \/ Drop(s) \/ Handle(s) \/ Close(s) \/ Cut(s) \/ Lose(s)
    PROVE  TypeOK'
<1> USE DEF TypeOK, Open, server, threads, mote, counts
<1>1. CASE Attach(s)
    BY <1>1 DEF Attach
<1>2. ASSUME wire[s] # <<>>
      PROVE  Head(wire[s]) \in Line /\ Tail(wire[s]) \in Seq(Line)
    BY <1>2, HeadTailProperties
<1>3. CASE Drop(s)
    BY <1>2, <1>3 DEF Drop
<1>4. CASE HandleCommand(s)
    <2>1. sink' \in Sinks
        BY <1>2, <1>4, SinkAfterType DEF HandleCommand
    <2> QED
        BY <1>2, <1>4, <2>1 DEF HandleCommand
<1>5. CASE HandleUnauthorized(s)
    BY <1>5 DEF HandleUnauthorized
<1>6. CASE Close(s)
    BY <1>6 DEF Close
<1>7. CASE Cut(s)
    BY <1>7 DEF Cut
<1>8. CASE Lose(s)
    <2>1. SubSeq(wire[s], 1, Len(wire[s]) - 1) \in Seq(Line)
        <3>1. wire[s] \in Seq(Line) /\ Len(wire[s]) \in Nat
            OBVIOUS
        <3>2. \A i \in 1..(Len(wire[s]) - 1) : wire[s][i] \in Line
            BY <3>1
        <3>3. 1 \in Int /\ Len(wire[s]) - 1 \in Int
            BY <3>1
        <3> QED
            BY <3>2, <3>3, SubSeqProperties
    <2> QED
        BY <1>8, <2>1 DEF Lose
<1> QED
    BY <1>1, <1>3, <1>4, <1>5, <1>6, <1>7, <1>8 DEF Handle

LEMMA OtherType ==
    ASSUME TypeOK,
           \/ Crash \/ Boot \/ Restart \/ Wake \/ ConnectFails \/ Login \/ ErrorStatus
           \/ OpenSerial \/ SerialEnds
    PROVE  TypeOK'
<1>1. 1 \in 1..CvnMax /\ 0 \in 0..MaxRefused
    BY HandlersAssumption, LinkAssumption
<1>2. crashes < MaxCrashes => crashes + 1 \in 0..MaxCrashes
    BY LinkAssumption DEF TypeOK
<1>3. [s \in Session |-> <<>>] \in [Session -> Seq(Line)]
    OBVIOUS
<1> USE DEF TypeOK, Open, server, threads, sessions, mote, counts
<1>4. CASE Crash
    BY <1>4, <1>1, <1>2 DEF Crash
<1>5. CASE Boot
    BY <1>5 DEF Boot
<1>6. CASE Restart
    BY <1>6, <1>1, <1>2, <1>3 DEF Restart
<1>7. CASE Wake
    BY <1>7 DEF Wake
<1>8. CASE ConnectFails
    BY <1>8 DEF ConnectFails
<1>9. CASE Login \/ ErrorStatus
    BY <1>9 DEF Login, CheckLogin, RetryLogin, ErrorStatus
<1>10. CASE OpenSerial
    BY <1>10 DEF OpenSerial
<1>11. CASE SerialEnds
    BY <1>11 DEF SerialEnds
<1> QED
    BY <1>4, <1>5, <1>6, <1>7, <1>8, <1>9, <1>10, <1>11

LEMMA TypeStep == TypeOK /\ [Next]_vars => TypeOK'
<1> SUFFICES ASSUME TypeOK, [Next]_vars PROVE TypeOK'
    OBVIOUS
<1>1. CASE Next
    BY <1>1, SendCommandType, ConnectType, SessionType, OtherType DEF Next
<1>2. CASE UNCHANGED vars
    BY <1>2 DEF vars, TypeOK, Open, server, threads, sessions, mote, counts
<1> QED
    BY <1>1, <1>2

(* GatewayLink: the state is what the comments on the variables say.       *)
THEOREM LinkTypeCorrect == Spec => []TypeOK
    BY TypeInit, TypeStep, PTL DEF Spec

----------------------------------------------------------------------------
(* Links.                                                                  *)

(* A refused session is followed up once: by the thread its message makes. *)
LinksInv ==
    /\ sleeping + connecting + Cardinality(Open) >= 1
    /\ sleeping + connecting + Cardinality(Open) + Cardinality(denied) <= 1 + refused

LEMMA Finite ==
    ASSUME TypeOK
    PROVE  /\ IsFiniteSet(Open) /\ Cardinality(Open) \in Nat
           /\ IsFiniteSet(denied) /\ Cardinality(denied) \in Nat
           /\ sleeping \in Nat /\ connecting \in Nat /\ refused \in Nat
<1>1. Open \subseteq Session /\ denied \subseteq Session
    BY DEF TypeOK, Open
<1>2. refused \in Nat
    BY LinkAssumption DEF TypeOK
<1> QED
    BY <1>1, <1>2, SessionsFinite DEF TypeOK

LEMMA LinksInit == Init => LinksInv
BY FS_EmptySet DEF Init, LinksInv, Open

(* The steps that leave the sessions, or the number of links, alone.       *)
LEMMA LinksKept ==
    ASSUME TypeOK, LinksInv, Cardinality(Open') = Cardinality(Open),
           Cardinality(denied') <= Cardinality(denied), Cardinality(denied') \in Nat,
           sleeping' + connecting' = sleeping + connecting, refused' = refused
    PROVE  LinksInv'
BY Finite DEF LinksInv

LEMMA LinksSession ==
    ASSUME TypeOK, LinksInv, NEW s \in Session,
           \/ Attach(s) \/ Drop(s) \/ HandleCommand(s) \/ Cut(s) \/ Lose(s)
    PROVE  LinksInv'
<1>1. Open' = Open
    BY DEF Open, Attach, Drop, HandleCommand, Cut, Lose
<1>2. denied' \in {denied, denied \ {s}}
    BY DEF Attach, Drop, HandleCommand, Cut, Lose
<1>3. Cardinality(denied') \in Nat /\ Cardinality(denied') <= Cardinality(denied)
    <2>1. CASE denied' = denied
        BY <2>1, Finite
    <2>2. CASE denied' = denied \ {s}
        <3>1. denied' \in SUBSET denied
            BY <2>2
        <3> QED
            BY <3>1, Finite, FS_Subset, FS_CardinalityType
    <2> QED
        BY <1>2, <2>1, <2>2
<1>4. sleeping' = sleeping /\ connecting' = connecting /\ refused' = refused
    BY DEF Attach, Drop, HandleCommand, Cut, Lose, threads, counts
<1> QED
    BY <1>1, <1>3, <1>4, LinksKept

LEMMA LinksConnect ==
    ASSUME TypeOK, LinksInv, NEW s \in Session, Connect(s)
    PROVE  LinksInv'
<1>1. Open' = Open \cup {s} /\ s \notin Open /\ s \notin denied
    BY DEF Open, Connect, TypeOK
<1>2. Cardinality(Open') = Cardinality(Open) + 1
    BY <1>1, Finite, FS_AddElement
<1>3. connecting' = connecting - 1 /\ sleeping' = sleeping
    BY DEF Connect
<1>4. \/ refused' = refused /\ Cardinality(denied') = Cardinality(denied)
      \/ refused' = refused + 1 /\ Cardinality(denied') = Cardinality(denied) + 1
    <2>1. CASE loggedIn
        BY <2>1 DEF Connect, Accept
    <2>2. CASE ~ loggedIn
        <3>1. refused' = refused + 1 /\ denied' = denied \cup {s}
            BY <2>2 DEF Connect, Refuse
        <3> QED
            BY <1>1, <3>1, Finite, FS_AddElement
    <2> QED
        BY <2>1, <2>2
<1> QED
    BY <1>2, <1>3, <1>4, Finite DEF LinksInv

LEMMA LinksUnauthorized ==
    ASSUME TypeOK, LinksInv, NEW s \in Session, HandleUnauthorized(s)
    PROVE  LinksInv'
<1>1. Open' = Open /\ s \in denied /\ denied' = denied \ {s}
    BY DEF Open, HandleUnauthorized
<1>2. Cardinality(denied') = Cardinality(denied) - 1
    BY <1>1, Finite, FS_RemoveElement
<1>3. sleeping' = sleeping + 1 /\ connecting' = connecting /\ refused' = refused
    BY DEF HandleUnauthorized, counts
<1> QED
    BY <1>1, <1>2, <1>3, Finite DEF LinksInv

LEMMA LinksClose ==
    ASSUME TypeOK, LinksInv, NEW s \in Session, Close(s)
    PROVE  LinksInv'
<1>1. Open' = Open \ {s} /\ s \in Open /\ denied' = denied
    BY DEF Open, Close, TypeOK
<1>2. Cardinality(Open') = Cardinality(Open) - 1
    BY <1>1, Finite, FS_RemoveElement
<1>3. sleeping' = sleeping + 1 /\ connecting' = connecting /\ refused' = refused
    BY DEF Close, counts
<1> QED
    BY <1>1, <1>2, <1>3, Finite DEF LinksInv

LEMMA LinksOther ==
    ASSUME TypeOK, LinksInv,
           \/ \E o \in Orders : SendCommand(o)
           \/ Crash \/ Boot \/ Wake \/ ConnectFails \/ Login \/ ErrorStatus \/ OpenSerial \/ SerialEnds
           \/ UNCHANGED vars
    PROVE  LinksInv'
<1>1. opened' = opened /\ attached' = attached /\ denied' = denied /\ refused' = refused
    BY DEF SendCommand, Crash, Boot, Wake, ConnectFails, Login, CheckLogin, RetryLogin, ErrorStatus,
           OpenSerial, SerialEnds, vars, sessions, counts
<1>2. Open' = Open
    BY <1>1 DEF Open
<1>3. \/ sleeping' = sleeping /\ connecting' = connecting
      \/ sleeping' = sleeping - 1 /\ connecting' = connecting + 1
      \/ sleeping' = sleeping + 1 /\ connecting' = connecting - 1
    BY DEF SendCommand, Crash, Boot, Wake, ConnectFails, Login, CheckLogin, RetryLogin, ErrorStatus,
           OpenSerial, SerialEnds, vars, threads
<1>4. sleeping' + connecting' = sleeping + connecting
    BY <1>3, Finite
<1> QED
    BY <1>1, <1>2, <1>4, Finite, LinksKept

LEMMA LinksRestart ==
    ASSUME LinksInv, Restart
    PROVE  LinksInv'
<1>1. Open' = {} /\ denied' = {} /\ sleeping' = 0 /\ connecting' = 1 /\ refused' = 0
    BY DEF Restart, Open
<1> QED
    BY <1>1, FS_EmptySet DEF LinksInv

LEMMA LinksStep == TypeOK /\ LinksInv /\ [Next]_vars => LinksInv'
<1> SUFFICES ASSUME TypeOK, LinksInv, [Next]_vars PROVE LinksInv'
    OBVIOUS
<1>1. CASE Next
    BY <1>1, LinksSession, LinksConnect, LinksUnauthorized, LinksClose, LinksOther,
       LinksRestart DEF Next, Handle
<1>2. CASE UNCHANGED vars
    BY <1>2, LinksOther
<1> QED
    BY <1>1, <1>2

(* reconnect(): whatever is lost, dropped or refused, and however often    *)
(* server and gateway go down, there is a session or a thread that will    *)
(* open one, and only refusals multiply them.                              *)
THEOREM LinksHold == Spec => []Links
<1>1. TypeOK /\ LinksInv => Links
    BY Finite DEF LinksInv, Links
<1> QED
    BY <1>1, TypeInit, TypeStep, LinksInit, LinksStep, PTL DEF Spec

----------------------------------------------------------------------------
(* The stream.                                                             *)

(* Session s is the stream, or something about it is still to be handled.  *)
Followed(s) ==
    \/ s \in opened /\ (s \in auth \/ s \in denied \/ s \notin live)
    \/ s \in attached /\ ((s \in queue /\ s \in auth) \/ s \in denied \/ s \notin live)

StreamInv ==
    missed \/ sleeping > 0 \/ connecting > 0 \/ \E s \in Session : Followed(s)

LEMMA StreamInit == Init => StreamInv
BY DEF Init, StreamInv

LEMMA StreamSession ==
    ASSUME TypeOK, StreamInv, NEW s \in Session,
           \/ Connect(s) \/ Attach(s) \/ Drop(s) \/ Handle(s) \/ Close(s) \/ Cut(s) \/ Lose(s)
    PROVE  StreamInv'
<1>1. CASE Connect(s)
    <2>1. s \in opened' /\ (s \in auth' \/ s \in denied')
        BY <1>1 DEF Connect, Accept, Refuse
    <2> QED
        BY <2>1 DEF StreamInv, Followed
<1>2. CASE Attach(s)
    <2>1. \A x \in Session : Followed(x) => Followed(x)'
        BY <1>2 DEF Attach, Followed
    <2> QED
        BY <1>2, <2>1 DEF StreamInv, Attach, threads, counts
<1>3. CASE Drop(s)
    BY <1>3 DEF Drop, StreamInv
<1>4. CASE HandleCommand(s)
    <2>1. \A x \in Session : Followed(x)' = Followed(x)
        BY <1>4 DEF HandleCommand, Followed
    <2> QED
        BY <1>4, <2>1 DEF StreamInv, HandleCommand, threads
<1>5. CASE HandleUnauthorized(s) \/ Close(s)
    <2>1. sleeping' > 0
        BY <1>5 DEF HandleUnauthorized, Close, TypeOK
    <2> QED
        BY <2>1 DEF StreamInv
<1>6. CASE Cut(s)
    <2>1. \A x \in Session : Followed(x) => Followed(x)'
        BY <1>6 DEF Cut, Followed
    <2> QED
        BY <1>6, <2>1 DEF StreamInv, Cut, threads, counts
<1>7. CASE Lose(s)
    <2>1. \A x \in Session : Followed(x) => Followed(x)'
        BY <1>7 DEF Lose, Followed, Open
    <2> QED
        BY <1>7, <2>1 DEF StreamInv, Lose, threads, counts
<1> QED
    BY <1>1, <1>2, <1>3, <1>4, <1>5, <1>6, <1>7 DEF Handle

LEMMA StreamOther ==
    ASSUME TypeOK, StreamInv,
           \/ \E o \in Orders : SendCommand(o)
           \/ Crash \/ Boot \/ Restart \/ Wake \/ ConnectFails \/ Login \/ ErrorStatus
           \/ OpenSerial \/ SerialEnds \/ UNCHANGED vars
    PROVE  StreamInv'
<1>1. CASE Restart \/ Wake \/ ConnectFails
    <2>1. Restart => connecting' = 1
        BY DEF Restart
    <2>2. Wake \/ ConnectFails => sleeping' > 0 \/ connecting' > 0
        BY DEF Wake, ConnectFails, TypeOK
    <2>3. sleeping' > 0 \/ connecting' > 0
        BY <1>1, <2>1, <2>2
    <2> QED
        BY <2>3 DEF StreamInv
<1>2. CASE Crash
    <2>1. \A x \in Session : Followed(x) => Followed(x)'
        BY <1>2 DEF Crash, Followed
    <2> QED
        BY <1>2, <2>1 DEF StreamInv, Crash, threads
<1>3. CASE \/ \E o \in Orders : SendCommand(o)
           \/ Boot \/ Login \/ ErrorStatus \/ OpenSerial \/ SerialEnds \/ UNCHANGED vars
    <2>1. /\ opened' = opened /\ attached' = attached /\ live' = live /\ auth' = auth
          /\ denied' = denied /\ queue' = queue /\ missed' = missed
          /\ sleeping' = sleeping /\ connecting' = connecting
        BY <1>3 DEF SendCommand, Boot, Login, CheckLogin, RetryLogin, ErrorStatus, OpenSerial, SerialEnds,
                    vars, threads, sessions, counts
    <2>2. \A x \in Session : Followed(x) => Followed(x)'
        BY <2>1 DEF Followed
    <2> QED
        BY <2>1, <2>2 DEF StreamInv
<1> QED
    BY <1>1, <1>2, <1>3

LEMMA StreamStep == TypeOK /\ StreamInv /\ [Next]_vars => StreamInv'
<1> SUFFICES ASSUME TypeOK, StreamInv, [Next]_vars PROVE StreamInv'
    OBVIOUS
<1>1. CASE Next
    BY <1>1, StreamSession, StreamOther DEF Next
<1>2. CASE UNCHANGED vars
    BY <1>2, StreamOther
<1> QED
    BY <1>1, <1>2

(* connect(), onMessage(), onClose(): for any number of sessions, when     *)
(* nothing is under way and no message was lost in the gateway, it has its *)
(* stream.                                                                 *)
THEOREM StreamKept == Spec => []KeepsStream
<1>1. TypeOK /\ StreamInv => KeepsStream
    BY DEF TypeOK, Open, StreamInv, Followed, KeepsStream, Rest, Linked
<1> QED
    BY <1>1, TypeInit, TypeStep, StreamInit, StreamStep, PTL DEF Spec

----------------------------------------------------------------------------
(* The numbering.                                                          *)

IsReset(l) == l.kind = "RESET_CVN"

(* Only a reset has the last version.                                      *)
Valid(l) == IF IsReset(l) THEN l.cvn = CvnMax ELSE l.cvn \in 1..(CvnMax - 1)

Resets(w) == \E j \in 1..Len(w) : IsReset(w[j])

(* A line that is not older than version v is followed by a reset.         *)
Ahead(w, v) ==
    \A i \in 1..Len(w) :
        IsReset(w[i]) \/ w[i].cvn < v \/ \E j \in 1..Len(w) : i < j /\ IsReset(w[j])

LEMMA TailNumbers ==
    ASSUME NEW w \in Seq(Line), w # <<>>, NEW v \in Nat, Ahead(w, v)
    PROVE  /\ Ahead(Tail(w), v)
           /\ ~ IsReset(Head(w)) /\ Resets(w) => Resets(Tail(w))
           /\ ~ IsReset(Head(w)) => Head(w).cvn < v \/ Resets(Tail(w))
<1>1. /\ Len(w) \in Nat /\ Len(w) > 0 /\ Len(Tail(w)) = Len(w) - 1 /\ Head(w) = w[1]
      /\ \A i \in 1..Len(Tail(w)) : Tail(w)[i] = w[i + 1]
    BY HeadTailProperties, EmptySeq
<1>2. ASSUME NEW j \in 1..Len(w), 1 < j, IsReset(w[j])
      PROVE  j - 1 \in 1..Len(Tail(w)) /\ IsReset(Tail(w)[j - 1])
    BY <1>1, <1>2
<1>3. Ahead(Tail(w), v)
    <2> SUFFICES ASSUME NEW i \in 1..Len(Tail(w)),
                        ~ IsReset(Tail(w)[i]), ~ (Tail(w)[i].cvn < v)
                 PROVE  \E j \in 1..Len(Tail(w)) : i < j /\ IsReset(Tail(w)[j])
        BY DEF Ahead
    <2>1. i + 1 \in 1..Len(w) /\ ~ IsReset(w[i + 1]) /\ ~ (w[i + 1].cvn < v)
        BY <1>1
    <2>2. PICK j \in 1..Len(w) : i + 1 < j /\ IsReset(w[j])
        BY <2>1 DEF Ahead
    <2>3. j - 1 \in 1..Len(Tail(w)) /\ i < j - 1 /\ IsReset(Tail(w)[j - 1])
        BY <1>2, <2>2
    <2> QED
        BY <2>3
<1>4. ASSUME ~ IsReset(Head(w)), Resets(w) PROVE Resets(Tail(w))
    <2>1. PICK j \in 1..Len(w) : IsReset(w[j])
        BY <1>4 DEF Resets
    <2>2. 1 < j
        BY <1>1, <1>4, <2>1
    <2> QED
        BY <1>2, <2>1, <2>2 DEF Resets
<1>5. ASSUME ~ IsReset(Head(w)), ~ (Head(w).cvn < v) PROVE Resets(Tail(w))
    <2>1. 1 \in 1..Len(w)
        BY <1>1
    <2>2. PICK j \in 1..Len(w) : 1 < j /\ IsReset(w[j])
        BY <1>1, <1>5, <2>1 DEF Ahead
    <2> QED
        BY <1>2, <2>2 DEF Resets
<1> QED
    BY <1>3, <1>4, <1>5

LEMMA OneMore ==
    ASSUME NEW w \in Seq(Line), NEW v \in Nat, Ahead(w, v), NEW m \in Line, m.cvn = v
    PROVE  Ahead(w \o <<m>>, v + 1) /\ (Resets(w) => Resets(w \o <<m>>))
<1> DEFINE x == w \o <<m>>
<1>1. /\ Len(w) \in Nat /\ Len(x) = Len(w) + 1 /\ x[Len(w) + 1] = m
      /\ \A i \in 1..Len(w) : x[i] = w[i]
    BY AppendProperties, AppendIsConcat
<1> HIDE DEF x
<1>2. Resets(w) => Resets(x)
    BY <1>1 DEF Resets
<1>3. ASSUME NEW i \in 1..Len(x), ~ IsReset(x[i]), ~ (x[i].cvn < v + 1)
      PROVE  \E j \in 1..Len(x) : i < j /\ IsReset(x[j])
    <2>1. CASE i = Len(w) + 1
        BY <1>1, <1>3, <2>1
    <2>2. CASE i \in 1..Len(w)
        <3>1. x[i] = w[i] /\ w[i] \in Line
            BY <1>1, <2>2
        <3>2. w[i].cvn \in Nat
            BY <3>1, LineType
        <3>3. ~ (w[i].cvn < v + 1) /\ ~ IsReset(w[i])
            BY <1>3, <3>1
        <3>4. ~ (w[i].cvn < v)
            BY <3>2, <3>3
        <3>5. PICK j \in 1..Len(w) : i < j /\ IsReset(w[j])
            BY <2>2, <3>3, <3>4 DEF Ahead
        <3> QED
            BY <1>1, <3>5
    <2> QED
        BY <1>1, <2>1, <2>2
<1>4. Ahead(x, v + 1)
    BY <1>3 DEF Ahead
<1> QED
    BY <1>2, <1>4 DEF x

LEMMA ResetAndOne ==
    ASSUME NEW w \in Seq(Line), NEW r \in Line, IsReset(r), NEW m \in Line, m.cvn = 1
    PROVE  Ahead(w \o <<r, m>>, 2) /\ Resets(w \o <<r, m>>)
<1> DEFINE x == w \o <<r, m>>
<1>1. <<r, m>> \in Seq(Line) /\ Len(<<r, m>>) = 2 /\ <<r, m>>[1] = r /\ <<r, m>>[2] = m
    OBVIOUS
<1>2. /\ Len(w) \in Nat /\ Len(x) = Len(w) + Len(<<r, m>>)
      /\ \A i \in 1..(Len(w) + Len(<<r, m>>)) :
            x[i] = IF i <= Len(w) THEN w[i] ELSE <<r, m>>[i - Len(w)]
    BY <1>1, ConcatProperties
<1>3. Len(x) = Len(w) + 2 /\ x[Len(w) + 1] = r /\ x[Len(w) + 2] = m /\ Len(w) \in Nat
    BY <1>1, <1>2
<1> HIDE DEF x
<1>4. Resets(x)
    BY <1>3 DEF Resets
<1>5. Ahead(x, 2)
    BY <1>3 DEF Ahead
<1> QED
    BY <1>4, <1>5 DEF x

LEMMA Heard ==
    ASSUME NEW k \in Sinks, k.ccvn < CvnMax, NEW l \in Line, Valid(l)
    PROVE  LET a == SinkAfter(k, l).ccvn
           IN  /\ a < CvnMax
               /\ IsReset(l) => a = 0
               /\ ~ IsReset(l) => a \in {k.ccvn, l.cvn}
<1>1. l.cvn \in 1..CvnMax /\ k.ccvn \in Nat /\ CvnMax \in Nat /\ CvnMax >= 2
    BY HandlersAssumption DEF Valid, Sinks
<1>2. U16(l.cvn) = l.cvn
    BY <1>1, U16Id
<1>3. CASE IsReset(l)
    <2>1. SinkAccepts(k, l)
        BY <1>1, <1>2, <1>3 DEF SinkAccepts, Valid
    <2>2. SinkAfter(k, l).ccvn = 0
        BY <1>3, <2>1 DEF SinkAfter, IsReset
    <2> QED
        BY <1>1, <1>3, <2>2
<1>4. CASE ~ IsReset(l)
    <2>1. SinkAfter(k, l).ccvn \in {k.ccvn, l.cvn}
        BY <1>2, <1>4 DEF SinkAfter, IsReset
    <2>2. l.cvn < CvnMax
        BY <1>1, <1>4 DEF Valid
    <2> QED
        BY <1>4, <2>1, <2>2
<1> QED
    BY <1>3, <1>4

(* Lines of the server are valid, and only sessions it accepted have any.  *)
AllValid(w) == \A i \in 1..Len(w) : Valid(w[i])

SentInv ==
    /\ sink.ccvn < CvnMax
    /\ \A s \in Session : (wire[s] # <<>> => s \in auth) /\ AllValid(wire[s])

LEMMA ValidConcat ==
    ASSUME NEW w \in Seq(Line), NEW l \in Seq(Line), AllValid(w), AllValid(l)
    PROVE  AllValid(w \o l)
<1>1. /\ Len(w) \in Nat /\ Len(l) \in Nat /\ Len(w \o l) = Len(w) + Len(l)
      /\ \A i \in 1..(Len(w) + Len(l)) : (w \o l)[i] = IF i <= Len(w) THEN w[i] ELSE l[i - Len(w)]
    BY ConcatProperties
<1>2. ASSUME NEW i \in 1..(Len(w) + Len(l)) PROVE Valid((w \o l)[i])
    <2>1. CASE i <= Len(w)
        BY <1>1, <2>1 DEF AllValid
    <2>2. CASE ~ (i <= Len(w))
        <3>1. i - Len(w) \in 1..Len(l)
            BY <1>1, <2>2
        <3> QED
            BY <1>1, <2>2, <3>1 DEF AllValid
    <2> QED
        BY <2>1, <2>2
<1> QED
    BY <1>1, <1>2 DEF AllValid

LEMMA ValidParts ==
    ASSUME NEW w \in Seq(Line), w # <<>>, AllValid(w)
    PROVE  /\ Head(w) \in Line /\ Valid(Head(w)) /\ AllValid(Tail(w))
           /\ AllValid(SubSeq(w, 1, Len(w) - 1))
<1>1. /\ Len(w) \in Nat /\ Len(w) > 0 /\ Len(Tail(w)) = Len(w) - 1 /\ Head(w) = w[1]
      /\ \A i \in 1..Len(Tail(w)) : Tail(w)[i] = w[i + 1]
    BY HeadTailProperties, EmptySeq
<1>2. Head(w) \in Line /\ Valid(Head(w))
    BY <1>1 DEF AllValid
<1>3. AllValid(Tail(w))
    BY <1>1 DEF AllValid
<1>4. AllValid(SubSeq(w, 1, Len(w) - 1))
    <2> DEFINE x == SubSeq(w, 1, Len(w) - 1)
    <2>1. Len(x) = Len(w) - 1 /\ \A i \in 1..(Len(w) - 1) : x[i] = w[i]
        BY <1>1
    <2> HIDE DEF x
    <2>2. AllValid(x)
        BY <1>1, <2>1 DEF AllValid
    <2> QED
        BY <2>2 DEF x
<1> QED
    BY <1>2, <1>3, <1>4

LEMMA ServerLinesValid ==
    /\ Valid(ResetLine) /\ IsReset(ResetLine)
    /\ Valid(SinkInfoLine) /\ SinkInfoLine.cvn = 1
    /\ \A o \in Orders : \A v \in 1..(CvnMax - 1) : Valid(Stamp(v, o)) /\ Stamp(v, o).cvn = v
<1>1. CvnMax \in Nat /\ CvnMax >= 2
    BY HandlersAssumption
<1>2. \A o \in Orders : o.kind # "RESET_CVN"
    BY LinkAssumption
<1> QED
    BY <1>1, <1>2 DEF ResetLine, SinkInfoLine, Stamp, Valid, IsReset

LEMMA SentWrite ==
    ASSUME TypeOK, SentInv, NEW Q \in SUBSET Session, NEW l \in Seq(Line), AllValid(l), Write(Q, l),
           Q \subseteq auth', auth \subseteq auth', sink' = sink
    PROVE  SentInv'
<1>1. ASSUME NEW s \in Session
      PROVE  (wire'[s] # <<>> => s \in auth') /\ AllValid(wire'[s])
    <2>1. wire[s] \in Seq(Line) /\ AllValid(wire[s]) /\ (wire[s] # <<>> => s \in auth)
        BY DEF TypeOK, SentInv
    <2>2. wire'[s] = IF s \in Q THEN wire[s] \o l ELSE wire[s]
        BY DEF Write
    <2>3. AllValid(wire[s] \o l)
        BY <2>1, ValidConcat
    <2> QED
        BY <2>1, <2>2, <2>3
<1>2. \A s \in Session : AllValid(wire[s])' = AllValid(wire'[s])
    BY DEF AllValid, Valid, IsReset
<1> QED
    BY <1>1, <1>2 DEF SentInv

LEMMA SentStep == TypeOK /\ SentInv /\ [Next]_vars => SentInv'
<1> SUFFICES ASSUME TypeOK, SentInv, [Next]_vars PROVE SentInv'
    OBVIOUS
<1>0. /\ ResetLine \in Line /\ SinkInfoLine \in Line /\ 1 \in 1..CvnMax /\ 1 \in 1..(CvnMax - 1)
      /\ CvnMax \in Nat
    BY ServerLines, HandlersAssumption
<1>1. ASSUME NEW o \in Orders, SendCommand(o) PROVE SentInv'
    <2>1. live \cap auth \in SUBSET Session /\ live \cap auth \subseteq auth' /\ auth' = auth /\ sink' = sink
        BY <1>1 DEF SendCommand, TypeOK, Open, mote
    <2>2. CASE cvn < CvnMax
        <3>1. cvn \in 1..CvnMax /\ cvn \in 1..(CvnMax - 1)
            BY <1>0, <2>2 DEF TypeOK
        <3>2. Stamp(cvn, o) \in Line /\ Valid(Stamp(cvn, o))
            BY <3>1, ServerLines, ServerLinesValid
        <3>3. <<Stamp(cvn, o)>> \in Seq(Line) /\ AllValid(<<Stamp(cvn, o)>>)
            BY <3>2 DEF AllValid
        <3> QED
            BY <1>1, <2>1, <2>2, <3>3, SentWrite DEF SendCommand
    <2>3. CASE ~ (cvn < CvnMax)
        <3>1. Stamp(1, o) \in Line /\ Valid(Stamp(1, o))
            BY <1>0, ServerLines, ServerLinesValid
        <3>2. <<ResetLine, Stamp(1, o)>> \in Seq(Line) /\ AllValid(<<ResetLine, Stamp(1, o)>>)
            BY <1>0, <3>1, ServerLinesValid DEF AllValid
        <3> QED
            BY <1>1, <2>1, <2>3, <3>2, SentWrite DEF SendCommand
    <2> QED
        BY <2>2, <2>3
<1>2. ASSUME NEW s \in Session, Connect(s) PROVE SentInv'
    <2>1. CASE loggedIn
        <3>1. Accept(s) /\ sink' = sink
            BY <1>2, <2>1 DEF Connect, mote
        <3>2. <<ResetLine, SinkInfoLine>> \in Seq(Line) /\ AllValid(<<ResetLine, SinkInfoLine>>)
            BY <1>0, ServerLinesValid DEF AllValid
        <3>3. (live \cap auth) \cup {s} \in SUBSET Session
            BY DEF TypeOK, Open
        <3> QED
            BY <3>1, <3>2, <3>3, SentWrite DEF Accept
    <2>2. CASE ~ loggedIn
        BY <1>2, <2>2 DEF Connect, Refuse, SentInv, mote
    <2> QED
        BY <2>1, <2>2
<1>3. ASSUME NEW s \in Session, Drop(s) \/ HandleCommand(s) \/ Lose(s) PROVE SentInv'
    <2>1. auth' = auth
        BY <1>3 DEF Drop, HandleCommand, Lose
    <2>2. wire[s] \in Seq(Line) /\ AllValid(wire[s])
        BY DEF TypeOK, SentInv
    <2>3. \/ wire' = wire
          \/ wire[s] # <<>> /\ wire' = [wire EXCEPT ![s] = Tail(@)]
          \/ wire[s] # <<>> /\ wire' = [wire EXCEPT ![s] = SubSeq(@, 1, Len(@) - 1)]
        BY <1>3 DEF Drop, HandleCommand, Lose
    <2>4. wire[s] # <<>> => /\ Head(wire[s]) \in Line /\ Valid(Head(wire[s]))
                           /\ AllValid(Tail(wire[s])) /\ AllValid(SubSeq(wire[s], 1, Len(wire[s]) - 1))
        BY <2>2, ValidParts
    <2>5. \A x \in Session : (wire'[x] # <<>> => x \in auth) /\ AllValid(wire'[x])
        <3>1. ASSUME NEW x \in Session, x # s PROVE wire'[x] = wire[x]
            BY <2>3, <3>1 DEF TypeOK
        <3>2. wire'[s] # <<>> => wire[s] # <<>>
            BY <2>3
        <3>3. AllValid(wire'[s])
            BY <2>2, <2>3, <2>4 DEF TypeOK
        <3> QED
            BY <3>1, <3>2, <3>3 DEF SentInv
    <2>6. sink'.ccvn < CvnMax
        <3>1. CASE sink' = sink
            BY <3>1 DEF SentInv
        <3>2. CASE wire[s] # <<>> /\ sink' = SinkAfter(sink, Head(wire[s]))
            <4>1. sink \in Sinks /\ sink.ccvn < CvnMax
                BY DEF TypeOK, SentInv
            <4> QED
                BY <2>4, <3>2, <4>1, Heard
        <3> QED
            BY <1>3, <3>1, <3>2 DEF Drop, HandleCommand, Lose, mote
    <2>7. \A x \in Session : AllValid(wire[x])' = AllValid(wire'[x])
        BY DEF AllValid, Valid, IsReset
    <2> QED
        BY <2>1, <2>5, <2>6, <2>7 DEF SentInv
<1>4. ASSUME NEW s \in Session, Attach(s) \/ HandleUnauthorized(s) \/ Close(s) \/ Cut(s)
      PROVE  SentInv'
    <2>1. wire' = wire /\ sink' = sink /\ \A x \in Session : wire[x] # <<>> /\ x \in auth => x \in auth'
        BY <1>4 DEF Attach, HandleUnauthorized, Close, Cut, mote
    <2> QED
        BY <2>1 DEF SentInv, AllValid, Valid, IsReset
<1>5. CASE Restart
    <2>1. sink' = sink /\ \A x \in Session : wire'[x] = <<>> /\ Len(wire'[x]) = 0
        BY <1>5 DEF Restart, mote
    <2> QED
        BY <2>1 DEF SentInv, AllValid
<1>6. CASE \/ Crash \/ Boot \/ Wake \/ ConnectFails \/ Login \/ ErrorStatus \/ OpenSerial \/ SerialEnds
           \/ UNCHANGED vars
    <2>1. wire' = wire /\ sink' = sink /\ auth' = auth
        BY <1>6 DEF Crash, Boot, Wake, ConnectFails, Login, CheckLogin, RetryLogin, ErrorStatus, OpenSerial,
                    SerialEnds, vars, sessions, mote
    <2> QED
        BY <2>1 DEF SentInv, AllValid, Valid, IsReset
<1> QED
    BY <1>1, <1>2, <1>3, <1>4, <1>5, <1>6 DEF Next, Handle

(* The sink is behind the server, or a reset is on its way to it, or there *)
(* will be one because a session has to be opened.                         *)
Unsettled == sleeping > 0 \/ connecting > 0 \/ denied # {} \/ \E s \in Open : s \notin live

ResetComes == \E s \in live \cap auth : Resets(wire[s])

NumberInv ==
    /\ missed \/ Unsettled \/ sink.ccvn < cvn \/ ResetComes
    /\ \A s \in live \cap auth : Ahead(wire[s], cvn)

LEMMA SinkNumber == \A k \in Sinks : k.ccvn \in Nat
BY DEF Sinks

LEMMA NumbersPrime ==
    /\ \A w : Resets(w)' = Resets(w')
    /\ ResetComes' = \E s \in live' \cap auth' : Resets(wire'[s])
BY DEF ResetComes, Resets, IsReset

LEMMA NumberInit == Init => SentInv /\ NumberInv
<1> SUFFICES ASSUME Init PROVE SentInv /\ NumberInv
    OBVIOUS
<1>1. \A s \in Session : wire[s] = <<>> /\ Len(wire[s]) = 0
    BY DEF Init
<1> QED
    BY <1>1 DEF Init, SentInv, AllValid, NumberInv, Unsettled

LEMMA NumberSend ==
    ASSUME TypeOK, StreamInv, NumberInv, NEW o \in Orders, SendCommand(o)
    PROVE  NumberInv'
<1> DEFINE Q == live \cap auth
<1>1. /\ missed' = missed /\ Unsettled' = Unsettled /\ Q' = Q /\ sink' = sink
      /\ Q \subseteq Session /\ cvn \in Nat
    BY DEF SendCommand, Unsettled, Open, threads, counts, mote, TypeOK
<1>2. \A s \in Q : wire[s] \in Seq(Line) /\ Ahead(wire[s], cvn)
    BY <1>1 DEF TypeOK, NumberInv
<1> HIDE DEF Q
<1>3. CASE cvn < CvnMax
    <2>1. cvn' = cvn + 1 /\ Stamp(cvn, o) \in Line /\ Stamp(cvn, o).cvn = cvn
        BY <1>3, ServerLines DEF SendCommand, Stamp, TypeOK
    <2>2. \A s \in Q : wire'[s] = wire[s] \o <<Stamp(cvn, o)>>
        BY <1>1, <1>3 DEF SendCommand, Write, Q
    <2>3. \A s \in Q : Ahead(wire'[s], cvn') /\ (Resets(wire[s]) => Resets(wire'[s]))
        BY <1>1, <1>2, <2>1, <2>2, OneMore
    <2>4. sink.ccvn < cvn => sink'.ccvn < cvn'
        BY <1>1, <2>1, SinkNumber DEF TypeOK
    <2> QED
        BY <1>1, <2>3, <2>4, NumbersPrime DEF NumberInv, ResetComes, Q
<1>4. CASE ~ (cvn < CvnMax)
    <2>1. cvn' = 2 /\ Stamp(1, o) \in Line /\ Stamp(1, o).cvn = 1
        BY <1>4, ServerLines, HandlersAssumption DEF SendCommand, Stamp
    <2>2. \A s \in Q : wire'[s] = wire[s] \o <<ResetLine, Stamp(1, o)>>
        BY <1>1, <1>4 DEF SendCommand, Write, Q
    <2>3. \A s \in Q : Ahead(wire'[s], cvn') /\ Resets(wire'[s])
        BY <1>2, <2>1, <2>2, ServerLines, ServerLinesValid, ResetAndOne
    <2>4. Q = {} => missed \/ Unsettled
        BY DEF StreamInv, Followed, Unsettled, Open, Q
    <2> QED
        BY <1>1, <2>3, <2>4, NumbersPrime DEF NumberInv, ResetComes, Q
<1> QED
    BY <1>3, <1>4

LEMMA NumberConnect ==
    ASSUME TypeOK, NumberInv, NEW s \in Session, Connect(s)
    PROVE  NumberInv'
<1>1. CASE loggedIn
    <2> DEFINE Q == (live \cap auth) \cup {s}
    <2>1. cvn' = 2 /\ live' \cap auth' = Q /\ Q \subseteq Session
        BY <1>1 DEF Connect, Accept, TypeOK, Open
    <2>2. \A x \in Q : wire'[x] = wire[x] \o <<ResetLine, SinkInfoLine>> /\ wire[x] \in Seq(Line)
        BY <1>1, <2>1 DEF Connect, Accept, Write, TypeOK
    <2>3. \A x \in Q : Ahead(wire'[x], cvn') /\ Resets(wire'[x])
        BY <2>1, <2>2, ServerLines, ServerLinesValid, ResetAndOne
    <2>4. s \in Q
        OBVIOUS
    <2> HIDE DEF Q
    <2> QED
        BY <2>1, <2>3, <2>4, NumbersPrime DEF NumberInv
<1>2. CASE ~ loggedIn
    <2>1. /\ s \in denied' /\ wire' = wire /\ cvn' = cvn
          /\ live' \cap auth' = live \cap auth
        BY <1>2 DEF Connect, Refuse, TypeOK, Open
    <2> QED
        BY <2>1 DEF NumberInv, Unsettled
<1> QED
    BY <1>1, <1>2

LEMMA NumberHandle ==
    ASSUME TypeOK, SentInv, NumberInv, NEW s \in Session, HandleCommand(s)
    PROVE  NumberInv'
<1>1. /\ Unsettled' = Unsettled /\ live' = live /\ auth' = auth /\ cvn' = cvn
      /\ live \cap auth \subseteq Session /\ cvn \in Nat /\ cvn > 0
      /\ wire[s] \in Seq(Line) /\ wire[s] # <<>>
      /\ wire' = [wire EXCEPT ![s] = Tail(@)]
      /\ s \in auth /\ s \in Open
    BY DEF HandleCommand, Unsettled, Open, threads, TypeOK, SentInv, server
<1>2. wire'[s] = Tail(wire[s]) /\ \A x \in Session \ {s} : wire'[x] = wire[x]
    BY <1>1 DEF TypeOK
<1>3. \A x \in live \cap auth : Ahead(wire'[x], cvn')
    <2>1. Ahead(wire[s], cvn) => Ahead(Tail(wire[s]), cvn)
        BY <1>1, TailNumbers
    <2> QED
        BY <1>1, <1>2, <2>1 DEF NumberInv
<1>4. missed' \/ Unsettled' \/ sink'.ccvn < cvn' \/ ResetComes'
    <2> SUFFICES ASSUME ~ missed', ~ Unsettled PROVE sink'.ccvn < cvn' \/ ResetComes'
        BY <1>1
    <2>1. ~ missed /\ sink' = SinkAfter(sink, Head(wire[s]))
        BY DEF HandleCommand
    <2>2. s \in live \cap auth
        BY <1>1 DEF Unsettled
    <2>3. /\ ~ IsReset(Head(wire[s])) /\ Resets(wire[s]) => Resets(Tail(wire[s]))
          /\ ~ IsReset(Head(wire[s])) => Head(wire[s]).cvn < cvn \/ Resets(Tail(wire[s]))
        BY <1>1, <2>2, TailNumbers DEF NumberInv
    <2>4. /\ IsReset(Head(wire[s])) => sink'.ccvn = 0
          /\ ~ IsReset(Head(wire[s])) => sink'.ccvn = sink.ccvn \/ sink'.ccvn = Head(wire[s]).cvn
        <3>1. Head(wire[s]) \in Line /\ Valid(Head(wire[s]))
            BY <1>1, ValidParts DEF SentInv
        <3>2. sink \in Sinks /\ sink.ccvn < CvnMax
            BY DEF TypeOK, SentInv
        <3> QED
            BY <2>1, <3>1, <3>2, Heard
    <2>5. Resets(Tail(wire[s])) => ResetComes'
        BY <1>1, <1>2, <2>2, NumbersPrime
    <2>6. CASE IsReset(Head(wire[s]))
        BY <1>1, <2>4, <2>6
    <2>7. CASE ~ IsReset(Head(wire[s])) /\ sink.ccvn < cvn
        BY <1>1, <2>3, <2>4, <2>5, <2>7
    <2>8. CASE ~ IsReset(Head(wire[s])) /\ ResetComes
        <3>1. PICK x \in live \cap auth : Resets(wire[x])
            BY <2>8 DEF ResetComes
        <3>2. CASE x = s
            BY <2>3, <2>5, <2>8, <3>1, <3>2
        <3>3. CASE x # s
            BY <1>1, <1>2, <3>1, <3>3, NumbersPrime
        <3> QED
            BY <3>2, <3>3
    <2> QED
        BY <2>1, <2>6, <2>7, <2>8 DEF NumberInv
<1> QED
    BY <1>1, <1>3, <1>4 DEF NumberInv

LEMMA NumberSession ==
    ASSUME TypeOK, NumberInv, NEW s \in Session,
           \/ Attach(s) \/ Drop(s) \/ HandleUnauthorized(s) \/ Close(s) \/ Cut(s) \/ Lose(s)
    PROVE  NumberInv'
<1>1. cvn' = cvn /\ sink' = sink /\ live' \cap auth' \subseteq live \cap auth
    BY DEF Attach, Drop, HandleUnauthorized, Close, Cut, Lose, server, mote
<1>2. CASE Attach(s)
    <2>1. /\ wire' = wire /\ live' = live /\ auth' = auth /\ Unsettled' = Unsettled
          /\ missed' = missed
        BY <1>2 DEF Attach, Unsettled, Open, threads, counts
    <2> QED
        BY <1>1, <2>1 DEF NumberInv, ResetComes
<1>3. CASE Drop(s)
    <2>1. \A x \in live \cap auth : Ahead(wire'[x], cvn)
        <3>1. /\ \A x \in Session : wire[x] \in Seq(Line)
              /\ live \cap auth \subseteq Session /\ cvn \in Nat
            BY DEF TypeOK, Open
        <3>2. CASE wire' = wire
            BY <3>2 DEF NumberInv
        <3>3. CASE wire[s] # <<>> /\ wire' = [wire EXCEPT ![s] = Tail(@)]
            <4>1. wire'[s] = Tail(wire[s]) /\ \A x \in Session \ {s} : wire'[x] = wire[x]
                BY <3>3 DEF TypeOK
            <4>2. Ahead(wire[s], cvn) => Ahead(Tail(wire[s]), cvn)
                BY <3>1, <3>3, TailNumbers
            <4> QED
                BY <3>1, <4>1, <4>2 DEF NumberInv
        <3> QED
            BY <1>3, <3>2, <3>3 DEF Drop
    <2>2. missed'
        BY <1>3 DEF Drop
    <2> QED
        BY <1>1, <2>1, <2>2 DEF NumberInv
<1>4. CASE HandleUnauthorized(s) \/ Close(s)
    <2>1. sleeping' > 0 /\ wire' = wire
        BY <1>4 DEF HandleUnauthorized, Close, TypeOK
    <2> QED
        BY <1>1, <2>1 DEF NumberInv, Unsettled
<1>5. CASE Cut(s)
    <2>1. s \in Open' /\ s \notin live' /\ wire' = wire
        BY <1>5 DEF Cut, Open, TypeOK
    <2> QED
        BY <1>1, <2>1 DEF NumberInv, Unsettled
<1>6. CASE Lose(s)
    <2>1. s \in Open' /\ s \notin live' /\ \A x \in live \cap auth : wire'[x] = wire[x]
        BY <1>6 DEF Lose, Open, TypeOK
    <2> QED
        BY <1>1, <2>1 DEF NumberInv, Unsettled
<1> QED
    BY <1>2, <1>3, <1>4, <1>5, <1>6

LEMMA NumberOther ==
    ASSUME TypeOK, LinksInv, NumberInv,
           \/ Crash \/ Boot \/ Restart \/ Wake \/ ConnectFails \/ Login \/ ErrorStatus
           \/ OpenSerial \/ SerialEnds \/ UNCHANGED vars
    PROVE  NumberInv'
<1>1. CASE Restart
    <2>1. connecting' > 0 /\ live' = {}
        BY <1>1 DEF Restart
    <2> QED
        BY <2>1 DEF NumberInv, Unsettled
<1>2. CASE Crash
    <2>1. live' = {} /\ Open' = Open /\ sleeping' = sleeping /\ connecting' = connecting
        BY <1>2 DEF Crash, Open, threads
    <2>2. Open = {} => sleeping > 0 \/ connecting > 0
        BY FS_EmptySet DEF LinksInv, TypeOK
    <2> QED
        BY <2>1, <2>2 DEF NumberInv, Unsettled
<1>3. CASE Wake \/ ConnectFails
    <2>1. /\ sleeping' > 0 \/ connecting' > 0
          /\ wire' = wire /\ live' = live /\ auth' = auth /\ cvn' = cvn
        BY <1>3 DEF Wake, ConnectFails, TypeOK, server, sessions
    <2> QED
        BY <2>1 DEF NumberInv, Unsettled
<1>4. CASE Boot \/ Login \/ ErrorStatus \/ OpenSerial \/ SerialEnds \/ UNCHANGED vars
    <2>1. /\ wire' = wire /\ live' = live /\ auth' = auth /\ cvn' = cvn /\ sink' = sink
          /\ missed' = missed /\ Unsettled' = Unsettled
        BY <1>4 DEF Boot, Login, CheckLogin, RetryLogin, ErrorStatus, OpenSerial, SerialEnds, vars,
                    server, threads, sessions, mote, counts, Unsettled, Open
    <2> QED
        BY <2>1 DEF NumberInv, ResetComes
<1> QED
    BY <1>1, <1>2, <1>3, <1>4

LEMMA NumberStep ==
    TypeOK /\ LinksInv /\ StreamInv /\ SentInv /\ NumberInv /\ [Next]_vars => NumberInv'
<1> SUFFICES ASSUME TypeOK, LinksInv, StreamInv, SentInv, NumberInv, [Next]_vars PROVE NumberInv'
    OBVIOUS
<1>1. CASE Next
    BY <1>1, NumberSend, NumberConnect, NumberHandle, NumberSession, NumberOther DEF Next, Handle
<1>2. CASE UNCHANGED vars
    BY <1>2, NumberOther
<1> QED
    BY <1>1, <1>2

(* sendCommand(), openConnection(): for any number of sessions, refusals,  *)
(* crashes and lines under way, when nothing is under way and no message   *)
(* was lost in the gateway, the sink takes the next number of the server.  *)
THEOREM NumbersInStep == Spec => []InStep
<1>1. TypeOK /\ SentInv /\ NumberInv => InStep
    <2> SUFFICES ASSUME TypeOK, SentInv, NumberInv, Rest, ~ missed PROVE sink.ccvn < cvn
        BY DEF InStep
    <2>1. ~ Unsettled
        BY DEF Rest, Unsettled, Open, TypeOK
    <2>2. ~ ResetComes
        <3>1. \A s \in live \cap auth : Len(wire[s]) = 0
            BY DEF Rest, TypeOK, Open
        <3> QED
            BY <3>1 DEF ResetComes, Resets
    <2> QED
        BY <2>1, <2>2 DEF NumberInv
<1> QED
    BY <1>1, TypeInit, TypeStep, LinksInit, LinksStep, StreamInit, StreamStep, NumberInit,
       SentStep, NumberStep, PTL DEF Spec

===============================================================================
