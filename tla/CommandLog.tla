------------------------------ MODULE CommandLog ------------------------------
(***************************************************************************)
(* What the command path promises.  The server keeps a log of lines; every *)
(* sender goes through it in order, may leave lines out, may run the last  *)
(* one it ran again, and never goes back to an earlier one.  A sender that *)
(* reboots starts over with its boot settings.                             *)
(***************************************************************************)
EXTENDS CommandHandlers, Sequences

CONSTANT Sender

VARIABLES
    log,    \* the lines sent
    pos,    \* the last line each sender ran, 0 if none
    set     \* the settings of each sender

Init ==
    /\ log = <<>>
    /\ pos = [s \in Sender |-> 0]
    /\ set = [s \in Sender |-> InitSettings]

(* Lines are added at the end: one, or two when a reset goes with a line.  *)
Issue ==
    /\ log' \in Seq(Line)
    /\ Len(log') \in {Len(log) + 1, Len(log) + 2}
    /\ \A i \in 1..Len(log) : log'[i] = log[i]
    /\ UNCHANGED <<pos, set>>

(* Some senders run line i, none of which has run a later one.             *)
Run(i, R) ==
    /\ \A s \in R : pos[s] <= i
    /\ pos' = [s \in Sender |-> IF s \in R THEN i ELSE pos[s]]
    /\ set' = [s \in Sender |-> IF s \in R THEN Effect(set[s], log[i]) ELSE set[s]]
    /\ UNCHANGED log

Restart(s) ==
    /\ pos' = [pos EXCEPT ![s] = 0]
    /\ set' = [set EXCEPT ![s] = InitSettings]
    /\ UNCHANGED log

Next ==
    \/ Issue
    \/ \E i \in 1..Len(log) : \E R \in SUBSET Sender : Run(i, R)
    \/ \E s \in Sender : Restart(s)

Spec == Init /\ [][Next]_<<log, pos, set>>
=============================================================================
