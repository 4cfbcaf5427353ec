-------------------------------- MODULE NodeData --------------------------------
(***************************************************************************)
(* When a sender measures: the two event timers of data.c.                 *)
(*                                                                         *)
(* The period timer goes off every data_period.  Its event sets the wait   *)
(* timer to a random part of a period, and the event of that one sends a   *)
(* reading.  DATA_PERIOD sets both timers anew, at any moment: also when   *)
(* the event of an expired timer is already in the queue of the process    *)
(* (etimer.c takes a timer off its list when it posts the event; packets   *)
(* are handled before queued events).  Such an event is handled after the  *)
(* command as if it belonged to the timer as it is now.                    *)
(*                                                                         *)
(* Time passes in ticks.  Events are handled in less than a tick.          *)
(***************************************************************************)
EXTENDS Integers, Sequences

CONSTANTS
    Period,         \* the periods DATA_PERIOD is sent with, in ticks
    InitPeriod      \* PERIOD, the period after boot

ASSUME NodeDataAssumption ==
    /\ Period \subseteq Nat \ {0}
    /\ InitPeriod \in Period

VARIABLES
    period,     \* data_period, and randwait, which always equals it
    started,    \* started
    armed,      \* the timers on timerlist
    left,       \* ticks until a timer expires, 0 once it has
    events,     \* timer events queued for the process
    silent,     \* ticks since the last reading, command or start (history,
                \* counted up to three periods)
    sent        \* readings since the last period event or command (history)

vars == <<period, started, armed, left, events, silent, sent>>

Timer == {"period", "wait"}

TypeOK ==
    /\ period \in Period
    /\ started \in BOOLEAN
    /\ armed \subseteq Timer
    /\ left \in [Timer -> Nat]
    /\ events \in Seq(Timer)
    /\ silent \in Nat
    /\ sent \in Nat

(* data_init(): only the period timer is set.                              *)
Init ==
    /\ period = InitPeriod
    /\ started = TRUE
    /\ armed = {"period"}
    /\ left = [t \in Timer |-> IF t = "period" THEN InitPeriod ELSE 0]
    /\ events = <<>>
    /\ silent = 0
    /\ sent = 0

----------------------------------------------------------------------------
(* Time and the timers.                                                    *)

Expired == {t \in armed : left[t] = 0}

(* Variant: all timers count down, set or not.                             *)
TickAll ==
    /\ events = <<>>
    /\ Expired = {}
    /\ left' = [t \in Timer |-> left[t] - 1]
    /\ silent' = IF started /\ silent < 3 * period THEN silent + 1 ELSE silent
    /\ UNCHANGED <<period, started, armed, events, sent>>

(* The processor is idle.                                                  *)
Tick ==
    /\ events = <<>>
    /\ Expired = {}
    /\ left' = [t \in Timer |-> IF t \in armed THEN left[t] - 1 ELSE left[t]]
    /\ silent' = IF started /\ silent < 3 * period THEN silent + 1 ELSE silent
    /\ UNCHANGED <<period, started, armed, events, sent>>

(* The queue once the events of the timers of E are posted, in the order   *)
(* of timerlist, which depends on when each timer was put on it.           *)
Posted(q, E) ==
    IF E = Timer
    THEN {Append(Append(q, "period"), "wait"), Append(Append(q, "wait"), "period")}
    ELSE {Append(q, t) : t \in E}

(* etimer_process: an expired timer leaves the list and its event is       *)
(* posted; all that have expired in one go.                                *)
Poll ==
    /\ events' \in Posted(events, Expired)
    /\ armed' = armed \ Expired
    /\ UNCHANGED <<period, started, left, silent, sent>>

----------------------------------------------------------------------------
(* data_check().                                                           *)

(* Variant: the timer of the period is not set again.                      *)
PeriodEventOnce ==
    /\ events # <<>> /\ Head(events) = "period"
    /\ events' = Tail(events)
    /\ armed' = armed \cup {"wait"}
    /\ \E w \in 0..(period - 1) : left' = [left EXCEPT !["wait"] = w]
    /\ sent' = 0
    /\ UNCHANGED <<period, started, silent>>

(* Variant: the wait may be as long as the period.                         *)
PeriodEventLong ==
    /\ events # <<>> /\ Head(events) = "period"
    /\ events' = Tail(events)
    /\ armed' = armed \cup {"period", "wait"}
    /\ \E w \in 0..period :
         left' = [t \in Timer |-> IF t = "wait" THEN w ELSE left["period"] + period]
    /\ sent' = 0
    /\ UNCHANGED <<period, started, silent>>

(* etimer_reset() adds the interval to the last start, which is now if a   *)
(* command set the timer after its event was posted.                       *)
PeriodEvent ==
    /\ events # <<>> /\ Head(events) = "period"
    /\ events' = Tail(events)
    /\ armed' = armed \cup {"period", "wait"}
    /\ \E w \in 0..(period - 1) :
         left' = [t \in Timer |-> IF t = "wait" THEN w ELSE left["period"] + period]
    /\ sent' = 0
    /\ UNCHANGED <<period, started, silent>>

(* Variant: the wait timer is set again.                                   *)
WaitEventAgain ==
    /\ events # <<>> /\ Head(events) = "wait"
    /\ events' = Tail(events)
    /\ silent' = IF started THEN 0 ELSE silent
    /\ sent' = IF started THEN sent + 1 ELSE sent
    /\ armed' = armed \cup {"wait"}
    /\ left' = [left EXCEPT !["wait"] = 0]
    /\ UNCHANGED <<period, started>>

(* data_send(), if the module is started.                                  *)
WaitEvent ==
    /\ events # <<>> /\ Head(events) = "wait"
    /\ events' = Tail(events)
    /\ silent' = IF started THEN 0 ELSE silent
    /\ sent' = IF started THEN sent + 1 ELSE sent
    /\ UNCHANGED <<period, started, armed, left>>

----------------------------------------------------------------------------
(* The commands.                                                           *)

(* set_data_period(): etimer_set() of both timers.                         *)
SetDataPeriod(p) ==
    /\ period' = p
    /\ armed' = Timer
    /\ left' = [t \in Timer |-> p]
    /\ silent' = 0
    /\ sent' = 0
    /\ UNCHANGED <<started, events>>

(* data_start(); data_stop(): the timers run on.                           *)
DataStart ==
    /\ started' = TRUE
    /\ silent' = IF started THEN silent ELSE 0
    /\ UNCHANGED <<period, armed, left, events, sent>>

DataStop ==
    /\ started' = FALSE
    /\ silent' = 0
    /\ UNCHANGED <<period, armed, left, events, sent>>

Command == (\E p \in Period : SetDataPeriod(p)) \/ DataStart \/ DataStop

Run == Tick \/ Poll \/ PeriodEvent \/ WaitEvent

Next == Run \/ Command

Spec == Init /\ [][Next]_vars

(* Time passes, and the main loop of Contiki handles what is queued.       *)
FairSpec == Spec /\ WF_vars(Run)

----------------------------------------------------------------------------
(* What the timers must do.                                                *)

(* data.c: wherever in the work of the timers a command strikes, a started *)
(* module is never silent for three periods since the last command; two    *)
(* are the rule, and the third is lost when the event of the period timer  *)
(* was queued when DATA_PERIOD set the timer anew.                         *)
Punctual == started => silent < 3 * period

(* data.c: between two events of the period timer, or of the command that  *)
(* set it anew, at most three readings are sent: one for each of two wait  *)
(* events that were queued before, and one for the wait that was set.      *)
AtMostThree == sent <= 3

(* data_check(): left alone by commands, a started module sends again and  *)
(* again: the timers keep each other going.                                *)
KeepsSending ==
    (<>[][~ Command]_vars /\ <>[]started) => []<>(events # <<>> /\ Head(events) = "wait")
=============================================================================
