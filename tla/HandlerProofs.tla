---------------------------- MODULE HandlerProofs ----------------------------
(***************************************************************************)
(* Facts about the command handlers, for every value of the constants.     *)
(***************************************************************************)
EXTENDS CommandHandlers, TLAPS

(* The cut to 16 bits yields a version, and leaves a version alone.        *)
LEMMA U16Type ==
    ASSUME NEW n \in Nat
    PROVE  U16(n) \in 0..CvnMax
BY HandlersAssumption DEF U16

LEMMA U16Id ==
    ASSUME NEW n \in 0..CvnMax
    PROVE  U16(n) = n
BY HandlersAssumption DEF U16

LEMMA Int8Type ==
    ASSUME NEW n \in Counter
    PROVE  Int8(n + 1) \in Counter
BY HandlersAssumption DEF Int8, Counter

LEMMA LineType ==
    ASSUME NEW l \in Line
    PROVE  /\ l.cvn \in Nat
           /\ l.kind \in Repeated \cup Local
           /\ [kind |-> l.kind, arg |-> l.arg] \in Order
BY HandlersAssumption DEF Line

LEMMA StampType ==
    ASSUME NEW v \in Nat, NEW o \in Order
    PROVE  Stamp(v, o) \in Line
BY HandlersAssumption DEF Stamp, Line, Order, ModuleName, Repeated, Local

LEMMA EffectType ==
    ASSUME NEW set \in Settings, NEW l \in Line
    PROVE  Effect(set, l) \in Settings
<1>1. CASE l.arg = NoArg
    BY <1>1 DEF Effect
<1>2. CASE l.arg # NoArg /\ l.kind \in {"START", "STOP"}
    <2>1. Named(l.arg) \subseteq Module
        BY DEF Named
    <2>2. /\ set.running \cup Named(l.arg) \in SUBSET Module
          /\ set.running \ Named(l.arg) \in SUBSET Module
        BY <2>1 DEF Settings
    <2> QED
        BY <1>2, <2>2 DEF Effect, Settings
<1>3. CASE l.arg # NoArg /\ l.kind = "DATA_PERIOD"
    <2>1. l.arg \in Period
        BY <1>3, LineType DEF Order, Local
    <2> QED
        BY <1>3, <2>1 DEF Effect, Settings
<1>4. CASE l.arg # NoArg /\ l.kind = "TXPOWER"
    <2>1. l.arg \in Power
        BY <1>4, LineType DEF Order, Local
    <2> QED
        BY <1>4, <2>1 DEF Effect, Settings
<1>5. CASE l.kind \in {"RESET_CVN"} \cup Local
    BY <1>5 DEF Effect, Local
<1> QED
    BY <1>1, <1>2, <1>3, <1>4, <1>5, LineType DEF Repeated

LEMMA SinkAfterType ==
    ASSUME NEW k \in Sinks, NEW l \in Line
    PROVE  SinkAfter(k, l) \in Sinks
BY LineType, U16Type, HandlersAssumption DEF SinkAfter, Sinks, Order, Repeated, Local, ModuleName

LEMMA ClearedType ==
    ASSUME NEW m \in Senders, NEW l \in Line
    PROVE  Cleared(m, l) \in [Repeated -> Counter]
<1>1. 0 \in Counter
    BY HandlersAssumption DEF Counter
<1> QED
    BY <1>1 DEF Cleared, Senders

LEMMA SenderAfterType ==
    ASSUME NEW m \in Senders, NEW l \in Line
    PROVE  SenderAfter(m, l) \in Senders
<1> DEFINE counter == IF Runs(l) THEN [Cleared(m, l) EXCEPT ![l.kind] = Counted(m, l)]
                                 ELSE Cleared(m, l)
           ccvn == IF l.kind = "RESET_CVN" THEN 0 ELSE U16(l.cvn)
<1>1. counter \in [Repeated -> Counter]
    <2>1. CASE Runs(l)
        <3>1. l.kind \in Repeated
            BY <2>1 DEF Runs, Repeated
        <3>2. Counted(m, l) \in Counter
            BY <3>1, ClearedType, Int8Type DEF Counted
        <3> QED
            BY <3>1, <3>2, ClearedType
    <2> QED
        BY <2>1, ClearedType
<1>2. ccvn \in 0..CvnMax
    <2>1. U16(l.cvn) \in 0..CvnMax
        BY LineType, U16Type
    <2>2. 0 \in 0..CvnMax
        BY HandlersAssumption
    <2> QED
        BY <2>1, <2>2
<1>3. Effect(m.set, l) \in Settings
    BY EffectType DEF Senders
<1>4. SenderAfter(m, l) =
        IF SenderAccepts(m, l)
        THEN [ccvn |-> ccvn, counter |-> counter, set |-> Effect(m.set, l)] ELSE m
    BY DEF SenderAfter
<1> HIDE DEF counter, ccvn
<1> QED
    BY <1>1, <1>2, <1>3, <1>4 DEF Senders

LEMMA BootType ==
    /\ SinkBoot \in Sinks
    /\ SenderBoot \in Senders
<1>1. 0 \in Counter
    BY HandlersAssumption DEF Counter
<1> QED
    BY <1>1, HandlersAssumption
    DEF SinkBoot, Sinks, SenderBoot, Senders, InitSettings, Settings
=============================================================================
