--------------------------- MODULE CommandHandlers ---------------------------
(***************************************************************************)
(* What a mote does with one command: the serial-line handler of the sink  *)
(* (sink_command.c) and the multicast handler of a sender                  *)
(* (sender_command.c), as functions from the mote's state and a line to    *)
(* its next state and the decision to multicast the line.                  *)
(*                                                                         *)
(* A line is the text "<version> <command> <argument>".  It is kept as a   *)
(* record of its three tokens; arguments are members of small sets, and    *)
(* NoArg stands for a token strtok() does not find.                        *)
(***************************************************************************)
EXTENDS Integers

CONSTANTS
    CvnMax,         \* largest uint16_t, 65535: the version RESET_CVN carries
    MaxRepeat,      \* MAX_REPEAT
    CounterMax,     \* largest int8_t, 127
    Module,         \* the names "START" and "STOP" accept, bar "ALL"
    InitRunning,    \* the modules that run after boot
    Period,         \* data periods
    InitPeriod,     \* PERIOD, the period after boot
    Power,          \* CC2420 transmission powers
    InitPower,      \* the power after boot
    NoArg           \* a missing argument

ASSUME HandlersAssumption ==
    /\ CvnMax \in Nat /\ CvnMax >= 2
    /\ CounterMax \in Nat
    /\ MaxRepeat \in 1..CounterMax
    /\ InitRunning \subseteq Module
    /\ InitPeriod \in Period
    /\ InitPower \in Power
    /\ "ALL" \notin Module

(* The commands a sender knows, each with a repetition counter of its own. *)
Repeated == {"START", "STOP", "DATA_PERIOD", "TXPOWER", "RESET_CVN"}

(* The commands the sink answers itself, and any word it does not know.    *)
Local == {"SINK_ID_DVN", "GLOBAL_REPAIR", "OTHER"}

(* The arguments each command is sent with.  "COMMAND" is a module of the  *)
(* senders too, whose start and stop do nothing.                           *)
ModuleName == Module \cup {"ALL", "COMMAND", NoArg}

Order ==
    [kind : {"START", "STOP"}, arg : ModuleName]
    \cup [kind : {"DATA_PERIOD"}, arg : Period \cup {NoArg}]
    \cup [kind : {"TXPOWER"}, arg : Power \cup {NoArg}]
    \cup [kind : {"RESET_CVN"} \cup Local, arg : {NoArg}]

Stamp(v, o) == [cvn |-> v, kind |-> o.kind, arg |-> o.arg]

Line ==
    {l \in [cvn : Nat, kind : Repeated \cup Local,
            arg : ModuleName \cup Period \cup Power] :
       [kind |-> l.kind, arg |-> l.arg] \in Order}

(* uint16_t cvn = atoi(...): the server's int, cut to 16 bits.             *)
U16(n) == n % (CvnMax + 1)

(* counter++ on an int8_t wraps to the most negative value.                *)
Int8(n) == IF n > CounterMax THEN n - 2 * (CounterMax + 1) ELSE n

----------------------------------------------------------------------------
(* The sink.                                                               *)

Sinks == [ccvn : 0..CvnMax, power : Power]

SinkBoot == [ccvn |-> 0, power |-> InitPower]

(* "if(cvn==0) return; ... if(ccvn < cvn)": a version must be present and  *)
(* newer than the last one.                                                *)
SinkAccepts(k, l) == U16(l.cvn) # 0 /\ k.ccvn < U16(l.cvn)

(* "The value of the txpower is missing": only TXPOWER is checked here.    *)
SinkMulticasts(k, l) ==
    /\ SinkAccepts(k, l)
    /\ l.kind \in Repeated
    /\ l.kind = "TXPOWER" => l.arg # NoArg

(* Variant: the new power is taken before the argument is checked.         *)
SinkAfterUnchecked(k, l) ==
    IF ~ SinkAccepts(k, l) THEN k
    ELSE [ccvn  |-> IF l.kind = "RESET_CVN" THEN 0 ELSE U16(l.cvn),
          power |-> IF l.kind = "TXPOWER" THEN l.arg ELSE k.power]

(* What the sink answers itself leaves its own state alone: SINK_ID_DVN    *)
(* prints, GLOBAL_REPAIR is up to RPL.                                     *)
SinkAfter(k, l) ==
    IF ~ SinkAccepts(k, l) THEN k
    ELSE [ccvn  |-> IF l.kind = "RESET_CVN" THEN 0 ELSE U16(l.cvn),
          power |-> IF l.kind = "TXPOWER" /\ l.arg # NoArg THEN l.arg ELSE k.power]

----------------------------------------------------------------------------
(* A sender.                                                               *)

Settings == [running : SUBSET Module, period : Period, power : Power]

InitSettings ==
    [running |-> InitRunning, period |-> InitPeriod, power |-> InitPower]

Counter == (-(CounterMax + 1))..CounterMax

Senders == [ccvn : 0..CvnMax, counter : [Repeated -> Counter], set : Settings]

SenderBoot ==
    [ccvn |-> 0, counter |-> [k \in Repeated |-> 0], set |-> InitSettings]

(* The modules a module name selects.                                      *)
Named(arg) == IF arg = "ALL" THEN Module ELSE {arg} \cap Module

(* The settings after one command: a missing argument changes nothing.     *)
Effect(set, l) ==
    IF l.arg = NoArg THEN set
    ELSE CASE l.kind = "START"       -> [set EXCEPT !.running = @ \cup Named(l.arg)]
           [] l.kind = "STOP"        -> [set EXCEPT !.running = @ \ Named(l.arg)]
           [] l.kind = "DATA_PERIOD" -> [set EXCEPT !.period = l.arg]
           [] l.kind = "TXPOWER"     -> [set EXCEPT !.power = l.arg]
           [] OTHER                  -> set

(* Variant: versions are not compared.                                     *)
SenderAcceptsAll(m, l) == U16(l.cvn) \in 0..CvnMax

(* "if(ccvn <= cvn)": a repetition of the current version runs again.      *)
SenderAccepts(m, l) == m.ccvn <= U16(l.cvn)

(* Variant: a new version clears all counters.                             *)
ClearedAll(m, l) ==
    IF m.ccvn < U16(l.cvn) THEN [k \in Repeated |-> 0] ELSE m.counter

(* Variant: every line clears the counters.                                *)
ClearedAlways(m, l) ==
    [k \in Repeated |-> IF k = "RESET_CVN" /\ U16(l.cvn) = CvnMax THEN m.counter[k] ELSE 0]

(* A new version clears the counters, but version 65535 leaves the one of  *)
(* RESET_CVN: each repetition of a reset looks new, the reset sets ccvn    *)
(* to 0.                                                                   *)
Cleared(m, l) ==
    IF m.ccvn < U16(l.cvn)
    THEN [k \in Repeated |->
            IF k = "RESET_CVN" /\ U16(l.cvn) = CvnMax THEN m.counter[k] ELSE 0]
    ELSE m.counter

(* Every command but RESET_CVN returns early without its argument.         *)
Runs(l) == l.kind = "RESET_CVN" \/ (l.kind \in Repeated /\ l.arg # NoArg)

Counted(m, l) == Int8(Cleared(m, l)[l.kind] + 1)

(* Variant: the command runs before the versions are compared.             *)
SenderAfterEager(m, l) ==
    IF ~ SenderAccepts(m, l) THEN [m EXCEPT !.set = Effect(m.set, l)]
    ELSE [ccvn    |-> IF l.kind = "RESET_CVN" THEN 0 ELSE U16(l.cvn),
          counter |-> IF Runs(l) THEN [Cleared(m, l) EXCEPT ![l.kind] = Counted(m, l)]
                                 ELSE Cleared(m, l),
          set     |-> Effect(m.set, l)]

(* Variant: a reset leaves the version at 65535.                           *)
SenderAfterKept(m, l) ==
    IF ~ SenderAccepts(m, l) THEN m
    ELSE [ccvn    |-> U16(l.cvn),
          counter |-> IF Runs(l) THEN [Cleared(m, l) EXCEPT ![l.kind] = Counted(m, l)]
                                 ELSE Cleared(m, l),
          set     |-> Effect(m.set, l)]

SenderAfter(m, l) ==
    IF ~ SenderAccepts(m, l) THEN m
    ELSE [ccvn    |-> IF l.kind = "RESET_CVN" THEN 0 ELSE U16(l.cvn),
          counter |-> IF Runs(l) THEN [Cleared(m, l) EXCEPT ![l.kind] = Counted(m, l)]
                                 ELSE Cleared(m, l),
          set     |-> Effect(m.set, l)]

(* Variant: only a version heard for the first time is repeated, and       *)
(* resets not at all.                                                      *)
SenderForwardsNew(m, l) ==
    m.ccvn < U16(l.cvn) /\ Runs(l) /\ l.kind # "RESET_CVN"

(* Variant: only what was heard before is repeated.                        *)
SenderForwardsAgain(m, l) ==
    SenderAccepts(m, l) /\ Runs(l) /\ Counted(m, l) \in 2..(MaxRepeat - 1)

(* "if(counter<MAX_REPEAT) forward=1", after the increment.                *)
SenderForwards(m, l) ==
    SenderAccepts(m, l) /\ Runs(l) /\ Counted(m, l) < MaxRepeat
=============================================================================
