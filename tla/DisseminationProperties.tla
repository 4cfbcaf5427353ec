----------------------- MODULE DisseminationProperties -----------------------
(***************************************************************************)
(* What the dissemination of commands must satisfy.                        *)
(***************************************************************************)
EXTENDS Dissemination

(* sender_command.c: a version older than the current one is obsolete.  A  *)
(* sender that has run a line never runs an earlier one again, reboots     *)
(* excepted.                                                               *)
InOrder == [][\A s \in Sender : done'[s] >= done[s] \/ done'[s] = 0]_vars

(* sender_command.c compares a counter with MAX_REPEAT after it was        *)
(* incremented: a sender multicasts one command at most MAX_REPEAT - 1     *)
(* times.  The comment on the macro, "the number of times the message is   *)
(* repeated by a sender", says once more; the code does not.               *)
RepeatTwice == \A s \in Sender : \A i \in 1..MaxLines : repeats[s][i] < MaxRepeat

(* Whatever is lost, a sender finds the server's next command obsolete     *)
(* only if it missed a reset: one that was sent after the line it ran last *)
(* and has yet to arrive, if ever.                                         *)
MissedReset ==
    \A s \in Sender :
        mote[s].ccvn >= scvn => \E i \in Id : done[s] < i /\ log[i].kind = "RESET_CVN"

(* The abstract log, with the line last run as the position in it.         *)
Log == INSTANCE CommandLog WITH
         pos <- done, set <- [s \in Sender |-> mote[s].set]

ImplementsLog == Log!Spec

(* The repetitions of all commands die out.                                *)
Settles == []<>Quiet

(* Lines sender s has no use for: those for the sink, those without their  *)
(* argument, and a reset when it has run nothing since the last one.  The  *)
(* counter of RESET_CVN is not cleared by a reset, so the second of two    *)
(* resets in a row is not repeated.                                        *)
Useless(s, i) == ~ Runs(log[i]) \/ (log[i].kind = "RESET_CVN" /\ mote[s].ccvn = 0)

(* Over lossless links no sender skips a command, though one version       *)
(* number serves all commands: what it runs next is the next line of the   *)
(* log it has a use for.                                                   *)
NoSkip ==
    [][\A s \in Sender : \A i \in Id : done[s] < i /\ i < done'[s] => Useless(s, i)]_vars

Idle == Quiet /\ \A k \in Sink : serial[k] = <<>>

(* csma.c drops a packet that finds no free buffer: over lossless links no *)
(* mote comes to the last of its buffers, though all repeat what all send. *)
Room == \A n \in Node : Len(outq[n]) < OutCap

(* Over lossless links the repetitions reach everyone: when nothing is     *)
(* under way, every sender has run the last command it has a use for.      *)
AllInformed ==
    Idle => \A s \in Sender : \A i \in Id : i <= done[s] \/ Useless(s, i)

(* Over lossless links, resets included: when nothing is under way, the    *)
(* next version of the server is one that every mote will accept.          *)
InStep ==
    Idle => /\ \A k \in Sink : sink[k].ccvn < scvn
            /\ \A s \in Sender : mote[s].ccvn < scvn

(* Every command of the log L came with its argument.                      *)
FullLog(L) == \A i \in 1..Len(L) : L[i].kind \in Repeated => Runs(L[i])

(* Over lossless links, resets included: when nothing is under way, all    *)
(* senders have the same settings, and the radio power of the sink, which  *)
(* takes the version of a TXPOWER without value and drops it.  They wait   *)
(* for the same version, unless a command came without its argument: that  *)
(* one is not repeated, so only those next to the sink hear its version.   *)
Agreement ==
    Idle => \A s, t \in Sender :
              /\ mote[s].set = mote[t].set
              /\ \A k \in Sink : sink[k].power = mote[s].set.power
              /\ FullLog(log) => mote[s].ccvn = mote[t].ccvn
=============================================================================
