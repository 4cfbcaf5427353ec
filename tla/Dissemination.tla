---------------------------- MODULE Dissemination ----------------------------
(***************************************************************************)
(* The way of a command from the server to the motes.                      *)
(*                                                                         *)
(* The server numbers every command (CommandManager) and writes the line   *)
(* to all connected gateways, which copy it to the serial port of their    *)
(* sink.  The sink multicasts the lines it accepts; every sender that      *)
(* hears a command runs it and multicasts it again, at most MAX_REPEAT     *)
(* times.  No multicast routing engine is configured, so a multicast is    *)
(* one radio broadcast to the motes in range: the repetition by the        *)
(* senders is what carries a command over several hops.                    *)
(*                                                                         *)
(* A line on its way is represented by its index in log, the sequence of   *)
(* all lines the server has sent.                                          *)
(***************************************************************************)
EXTENDS CommandHandlers, Sequences

CONSTANTS
    Sink, Sender,   \* the motes
    Link,           \* <<n, s>> when sender s hears n
    Orders,         \* the commands the administrator sends
    OutCap,         \* QUEUEBUF_NUM, packets a mote can have waiting
    MaxLines,       \* bound on the lines the server sends
    MaxReboots      \* bound on the reboots of motes

Node == Sink \cup Sender

ASSUME DisseminationAssumption ==
    /\ Sink \cap Sender = {}
    /\ Link \subseteq Node \X Sender
    /\ \A s \in Sender : <<s, s>> \notin Link
    /\ Orders \subseteq {o \in Order : o.kind # "RESET_CVN"}
    /\ OutCap \in Nat
    /\ MaxLines \in Nat
    /\ MaxReboots \in Nat

VARIABLES
    scvn,       \* CommandManager.commandVersionNumber
    log,        \* the lines sent by the server (history)
    serial,     \* lines on their way to each sink
    sink,       \* state of each sink
    mote,       \* state of each sender
    outq,       \* packets queued at the MAC layer of each mote
    done,       \* the line each sender ran last, 0 since boot (history)
    repeats,    \* how often a sender multicast a line since boot (history,
                \* counted up to MaxRepeat + 1)
    reboots     \* reboots so far

vars == <<scvn, log, serial, sink, mote, outq, done, repeats, reboots>>

Id == 1..Len(log)

TypeOK ==
    /\ scvn \in 1..CvnMax
    /\ log \in Seq(Line)
    /\ Len(log) <= MaxLines
    /\ serial \in [Sink -> Seq(Id)]
    /\ sink \in [Sink -> Sinks]
    /\ mote \in [Sender -> Senders]
    /\ outq \in [Node -> Seq(Id)]
    /\ \A n \in Node : Len(outq[n]) <= OutCap
    /\ done \in [Sender -> 0..Len(log)]
    /\ repeats \in [Sender -> [1..MaxLines -> 0..(MaxRepeat + 1)]]
    /\ reboots \in 0..MaxReboots

NoRepeats == [i \in 1..MaxLines |-> 0]

(* A gateway is connected and its first two lines are gone; all motes have *)
(* just booted.                                                            *)
Init ==
    /\ scvn = 2
    /\ log = <<>>
    /\ serial = [k \in Sink |-> <<>>]
    /\ sink = [k \in Sink |-> SinkBoot]
    /\ mote = [s \in Sender |-> SenderBoot]
    /\ outq = [n \in Node |-> <<>>]
    /\ done = [s \in Sender |-> 0]
    /\ repeats = [s \in Sender |-> NoRepeats]
    /\ reboots = 0

----------------------------------------------------------------------------
(* The server: WebSocket.send() writes every line to every gateway.        *)

Write(l) ==
    /\ Len(log) + 1 <= MaxLines
    /\ log' = Append(log, l)
    /\ serial' = [k \in Sink |-> Append(serial[k], Len(log) + 1)]
    /\ UNCHANGED <<sink, mote, outq, done, repeats, reboots>>

(* Variant: the second line overtakes the first.                           *)
WriteTwoSwapped(l, m) ==
    /\ Len(log) + 2 <= MaxLines
    /\ log' = Append(Append(log, l), m)
    /\ serial' = [k \in Sink |->
                    Append(Append(serial[k], Len(log) + 2), Len(log) + 1)]
    /\ UNCHANGED <<sink, mote, outq, done, repeats, reboots>>

WriteTwo(l, m) ==
    /\ Len(log) + 2 <= MaxLines
    /\ log' = Append(Append(log, l), m)
    /\ serial' = [k \in Sink |->
                    Append(Append(serial[k], Len(log) + 1), Len(log) + 2)]
    /\ UNCHANGED <<sink, mote, outq, done, repeats, reboots>>

ResetLine == Stamp(CvnMax, [kind |-> "RESET_CVN", arg |-> NoArg])

SinkInfoLine == Stamp(1, [kind |-> "SINK_ID_DVN", arg |-> NoArg])

(* sendCommand(), with a version to spare.                                 *)
SendCommand(o) ==
    /\ scvn < CvnMax
    /\ Write(Stamp(scvn, o))
    /\ scvn' = scvn + 1

(* sendCommand(), with no version left: a reset goes first.                *)
Rollover(o) ==
    /\ scvn >= CvnMax
    /\ WriteTwo(ResetLine, Stamp(1, o))
    /\ scvn' = 2

(* openConnection() of a gateway: resetCommandVersionNumber(), then        *)
(* sendCommandSinkInfo().                                                  *)
GatewayConnect ==
    /\ WriteTwo(ResetLine, SinkInfoLine)
    /\ scvn' = 2

----------------------------------------------------------------------------
(* The motes.                                                              *)

(* Variant: the packet goes first.                                         *)
EnqueueFirst(q, i) == IF Len(q) < OutCap THEN <<i>> \o q ELSE q

(* csma: a packet that finds no free buffer is dropped.                    *)
Enqueue(q, i) == IF Len(q) < OutCap THEN Append(q, i) ELSE q

(* writeSerialData() with the serial output closed, a WebSocket that went  *)
(* away: the line is gone.                                                 *)
LoseLine(k) ==
    /\ serial[k] # <<>>
    /\ serial' = [serial EXCEPT ![k] = Tail(@)]
    /\ UNCHANGED <<scvn, log, sink, mote, outq, done, repeats, reboots>>

(* command_sink_check() on a line from the serial port.                    *)
SerialLine(k) ==
    /\ serial[k] # <<>>
    /\ LET i == Head(serial[k]) IN
        /\ sink' = [sink EXCEPT ![k] = SinkAfter(@, log[i])]
        /\ outq' = IF SinkMulticasts(sink[k], log[i])
                   THEN [outq EXCEPT ![k] = Enqueue(@, i)] ELSE outq
    /\ serial' = [serial EXCEPT ![k] = Tail(@)]
    /\ UNCHANGED <<scvn, log, mote, done, repeats, reboots>>

Count(r, i) == [r EXCEPT ![i] = IF @ > MaxRepeat THEN @ ELSE @ + 1]

Hearers(n) == {s \in Sender : <<n, s>> \in Link}

(* What the radio does with the first packet of n: the senders of R        *)
(* receive it and run sender_command_check(), the others miss it.          *)
Transmit(n, R) ==
    /\ outq[n] # <<>>
    /\ R \subseteq Hearers(n)
    /\ LET i == Head(outq[n])
           Forwards(s) == s \in R /\ SenderForwards(mote[s], log[i])
           Accepts(s) == s \in R /\ SenderAccepts(mote[s], log[i])
       IN
        /\ mote' = [s \in Sender |->
                      IF s \in R THEN SenderAfter(mote[s], log[i]) ELSE mote[s]]
        /\ outq' = [x \in Node |->
                      IF x = n THEN Tail(outq[n])
                      ELSE IF x \in Sender /\ Forwards(x) THEN Enqueue(outq[x], i)
                      ELSE outq[x]]
        /\ done' = [s \in Sender |-> IF Accepts(s) THEN i ELSE done[s]]
        /\ repeats' = [s \in Sender |->
                         IF Forwards(s) THEN Count(repeats[s], i)
                         ELSE repeats[s]]
    /\ UNCHANGED <<scvn, log, serial, sink, reboots>>

RebootSink(k) ==
    /\ reboots < MaxReboots
    /\ reboots' = reboots + 1
    /\ sink' = [sink EXCEPT ![k] = SinkBoot]
    /\ outq' = [outq EXCEPT ![k] = <<>>]
    /\ UNCHANGED <<scvn, log, serial, mote, done, repeats>>

RebootSender(s) ==
    /\ reboots < MaxReboots
    /\ reboots' = reboots + 1
    /\ mote' = [mote EXCEPT ![s] = SenderBoot]
    /\ outq' = [outq EXCEPT ![s] = <<>>]
    /\ done' = [done EXCEPT ![s] = 0]
    /\ repeats' = [repeats EXCEPT ![s] = NoRepeats]
    /\ UNCHANGED <<scvn, log, serial, sink>>

----------------------------------------------------------------------------
(* The specifications.                                                     *)

Quiet == \A n \in Node : outq[n] = <<>>

(* The steps all of them share.                                            *)
Operate ==
    \/ \E o \in Orders : SendCommand(o)
    \/ \E k \in Sink : LoseLine(k)
    \/ \E n \in Node : \E R \in SUBSET Hearers(n) : Transmit(n, R)
    \/ \E k \in Sink : RebootSink(k)
    \/ \E s \in Sender : RebootSender(s)

Renumber == GatewayConnect \/ \E o \in Orders : Rollover(o)

Receive == \E k \in Sink : SerialLine(k)

(* Everything the code can do.                                             *)
Next == Operate \/ Receive \/ Renumber

Spec == Init /\ [][Next]_vars

(* Between two resets: the version number only grows.                      *)
EpochNext == Operate \/ Receive

(* The lines on the air.                                                   *)
InFlight == UNION {{outq[n][j] : j \in DOMAIN outq[n]} : n \in Node}

(* A reset is read when everything before it has died out, and the next    *)
(* line when the reset has.  Other commands may overlap.                   *)
Apart(k) ==
    serial[k] # <<>> =>
        \A i \in InFlight : \A j \in i..Head(serial[k]) : log[j].kind # "RESET_CVN"

ReceiveApart == \E k \in Sink : Apart(k) /\ SerialLine(k)

ApartNext == Operate \/ ReceiveApart \/ Renumber

(* A mote transmits what it has queued (the CSMA timer), the sink reads    *)
(* what arrives on its serial port.                                        *)
Fairness ==
    /\ \A n \in Node : WF_vars(\E R \in SUBSET Hearers(n) : Transmit(n, R))
    /\ \A k \in Sink : WF_vars(SerialLine(k))

EpochSpec == Init /\ [][EpochNext]_vars /\ Fairness

ApartSpec == Init /\ [][ApartNext]_vars

(* No packet is lost and no mote reboots.                                  *)
Broadcast == \E n \in Node : Transmit(n, Hearers(n))

LosslessNext ==
    (\E o \in Orders : SendCommand(o)) \/ ReceiveApart \/ Renumber \/ Broadcast

LosslessSpec == Init /\ [][LosslessNext]_vars
=============================================================================
