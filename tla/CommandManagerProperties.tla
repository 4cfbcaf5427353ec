----------------------- MODULE CommandManagerProperties -----------------------
(***************************************************************************)
(* What the numbering of commands must satisfy.                            *)
(***************************************************************************)
EXTENDS CommandManager

(* sink_command.c compares versions: as long as connections open one at a  *)
(* time, no sink finds a line obsolete or without a version, though        *)
(* requests run concurrently, the numbers wrap and gateways come and go.   *)
NoneRefused ==
    [][\A s \in Session : wire[s] # <<>> /\ wire'[s] = Tail(wire[s]) /\ s \in open' =>
         SinkAccepts(sink[Gateway[s]], Head(wire[s]))]_vars

(* At rest, the number of the next command is one that every connected     *)
(* sink will accept.                                                       *)
InStep ==
    ~ Active(Thread) =>
      \A s \in open : wire[s] = <<>> =>
        sink[Gateway[s]].ccvn < cvn /\ sink[Gateway[s]].ccvn < CvnMax

(* sink_command.c: "Command must have a version number".                   *)
HasVersion == \A s \in Session : \A i \in 1..Len(wire[s]) : U16(wire[s][i].cvn) # 0

(* synchronized: a thread that has checked the version number and not yet  *)
(* increased it is alone with it, resets by openConnection() excepted, and *)
(* stays so over a reset of its own.                                       *)
Inside(t) == pc[t] \in {"check", "send", "read", "write"} \/ pending[t] # None

Exclusive == \A t, u \in Thread : Inside(t) /\ Inside(u) => t = u

(* Every request gets its answer, every connection is opened: sendCommand  *)
(* calls itself for the reset while it holds the lock and the number is    *)
(* still 65535, and the lock is released at the end of each call.          *)
Returns == \A t \in Thread : pc[t] \notin {"start", "end"} ~> pc[t] = "end"
=============================================================================
