---------------------------- MODULE CommandManager ----------------------------
(***************************************************************************)
(* The numbering of commands by the threads of the server: REST requests   *)
(* (CommandResource.add) and WebSocket openings of gateways                *)
(* (WebSocket.openConnection) share the static fields of CommandManager    *)
(* and the queue of sessions.  sendCommand() is synchronized,              *)
(* resetCommandVersionNumber() is not: a thread opening a connection       *)
(* writes the version number while another holds the lock.                 *)
(*                                                                         *)
(* One step of a thread reads or writes the version number once.  The      *)
(* lines go over one WebSocket per gateway, in order, to its sink.         *)
(***************************************************************************)
EXTENDS CommandHandlers, Sequences

CONSTANTS
    Sink,           \* the sinks, each with a gateway
    Session,        \* WebSocket sessions, opened once each
    Gateway,        \* the sink at the other end of a session
    Request,        \* REST requests, made once each
    Orders,         \* the commands the administrator sends
    None            \* no thread, no command

ASSUME ManagerAssumption ==
    /\ Gateway \in [Session -> Sink]
    /\ Session \cap Request = {}
    /\ Orders \subseteq {o \in Order : o.kind # "RESET_CVN"}
    /\ None \notin Order \cup Session \cup Request

Thread == Session \cup Request

ResetOrder == [kind |-> "RESET_CVN", arg |-> NoArg]

InfoOrder == [kind |-> "SINK_ID_DVN", arg |-> NoArg]

VARIABLES
    cvn,        \* CommandManager.commandVersionNumber
    lock,       \* the thread inside a synchronized method
    queue,      \* WebSocket.queue: sessions ever added, none is removed
    open,       \* the sessions that are open
    pc,         \* where each thread is
    job,        \* the command each thread is sending
    pending,    \* the command a thread sends after the reset it is inside
    tmp,        \* the value read by commandVersionNumber++
    answer,     \* what sendCommand() returned to each request
    wire,       \* lines under way on each session
    sink        \* state of each sink

vars == <<cvn, lock, queue, open, pc, job, pending, tmp, answer, wire, sink>>

Place == {"start", "clear", "enter", "check", "send", "read", "write", "restart", "end"}

TypeOK ==
    /\ cvn \in Nat \ {0}
    /\ lock \in Thread \cup {None}
    /\ open \subseteq queue /\ queue \subseteq Session
    /\ pc \in [Thread -> Place]
    /\ job \in [Thread -> Order \cup {None}]
    /\ pending \in [Thread -> Order \cup {None}]
    /\ tmp \in [Thread -> Nat]
    /\ answer \in [Request -> {"none", "forwarded", "no gateway"}]
    /\ wire \in [Session -> Seq(Line)]
    /\ sink \in [Sink -> Sinks]

Init ==
    /\ cvn = 1
    /\ lock = None
    /\ queue = {}
    /\ open = {}
    /\ pc = [t \in Thread |-> "start"]
    /\ job = [t \in Thread |-> None]
    /\ pending = [t \in Thread |-> None]
    /\ tmp = [t \in Thread |-> 0]
    /\ answer = [r \in Request |-> "none"]
    /\ wire = [s \in Session |-> <<>>]
    /\ sink = [k \in Sink |-> SinkBoot]

Goto(t, place) == pc' = [pc EXCEPT ![t] = place]

----------------------------------------------------------------------------
(* The threads.                                                            *)

(* openConnection(): the gateway of a sink opens a new session when it has *)
(* none; the session is queued and the version number is to be reset.      *)
Open(s) ==
    /\ pc[s] = "start"
    /\ \A x \in open : Gateway[x] # Gateway[s]
    /\ queue' = queue \cup {s}
    /\ open' = open \cup {s}
    /\ Goto(s, "clear")
    /\ UNCHANGED <<cvn, lock, job, pending, tmp, answer, wire, sink>>

(* CommandResource.add() calls sendCommand().                              *)
Submit(r, o) ==
    /\ pc[r] = "start"
    /\ job' = [job EXCEPT ![r] = o]
    /\ Goto(r, "enter")
    /\ UNCHANGED <<cvn, lock, queue, open, pending, tmp, answer, wire, sink>>

(* resetCommandVersionNumber(): "commandVersionNumber = 65535", whether or *)
(* not the thread holds the lock, then sendCommand(RESET_COMMAND, true).   *)
Clear(t) ==
    /\ pc[t] = "clear"
    /\ cvn' = CvnMax
    /\ job' = [job EXCEPT ![t] = ResetOrder]
    /\ Goto(t, "enter")
    /\ UNCHANGED <<lock, queue, open, pending, tmp, answer, wire, sink>>

(* Variant: the method is not synchronized.                                *)
LockFree(t) == pc[t] = "enter"

(* sendCommand(): the lock is reentrant.                                   *)
Lock(t) ==
    /\ pc[t] = "enter"
    /\ lock \in {None, t}

(* getConnectedGatewayNumber() counts all queued sessions.                 *)
Refuse(t) ==
    /\ Lock(t)
    /\ queue = {}
    /\ answer' = [answer EXCEPT ![t] = "no gateway"]
    /\ Goto(t, "end")
    /\ UNCHANGED <<cvn, lock, queue, open, job, pending, tmp, wire, sink>>

Enter(t) ==
    /\ Lock(t)
    /\ queue # {}
    /\ lock' = t
    /\ Goto(t, "check")
    /\ UNCHANGED <<cvn, queue, open, job, pending, tmp, answer, wire, sink>>

(* Variant: "> 65535".                                                     *)
CheckLate(t) ==
    /\ pc[t] = "check"
    /\ IF cvn > CvnMax /\ job[t] # ResetOrder
       THEN pending' = [pending EXCEPT ![t] = job[t]] /\ Goto(t, "clear")
       ELSE UNCHANGED pending /\ Goto(t, "send")
    /\ UNCHANGED <<cvn, lock, queue, open, job, tmp, answer, wire, sink>>

(* Variant: "&& !reset" is missing.                                        *)
CheckNested(t) ==
    /\ pc[t] = "check"
    /\ IF cvn >= CvnMax
       THEN pending' = [pending EXCEPT ![t] = job[t]] /\ Goto(t, "clear")
       ELSE UNCHANGED pending /\ Goto(t, "send")
    /\ UNCHANGED <<cvn, lock, queue, open, job, tmp, answer, wire, sink>>

(* "commandVersionNumber >= 65535 && !reset": a reset goes first.          *)
Check(t) ==
    /\ pc[t] = "check"
    /\ IF cvn >= CvnMax /\ job[t] # ResetOrder
       THEN pending' = [pending EXCEPT ![t] = job[t]] /\ Goto(t, "clear")
       ELSE UNCHANGED pending /\ Goto(t, "send")
    /\ UNCHANGED <<cvn, lock, queue, open, job, tmp, answer, wire, sink>>

(* The line carries the version number as it is now; WebSocket.send()      *)
(* skips the sessions that are closed.                                     *)
Send(t) ==
    /\ pc[t] = "send"
    /\ wire' = [s \in Session |-> IF s \in open THEN Append(wire[s], Stamp(cvn, job[t]))
                                                ELSE wire[s]]
    /\ Goto(t, "read")
    /\ UNCHANGED <<cvn, lock, queue, open, job, pending, tmp, answer, sink>>

(* commandVersionNumber++ reads ...                                        *)
Read(t) ==
    /\ pc[t] = "read"
    /\ tmp' = [tmp EXCEPT ![t] = cvn]
    /\ Goto(t, "write")
    /\ UNCHANGED <<cvn, lock, queue, open, job, pending, answer, wire, sink>>

(* ... and writes; sendCommand() returns.                                  *)
Write(t) ==
    /\ pc[t] = "write"
    /\ cvn' = tmp[t] + 1
    /\ lock' = IF pending[t] = None THEN None ELSE lock
    /\ answer' = IF t \in Request /\ job[t] # ResetOrder
                 THEN [answer EXCEPT ![t] = "forwarded"] ELSE answer
    /\ Goto(t, IF job[t] = ResetOrder THEN "restart" ELSE "end")
    /\ UNCHANGED <<queue, open, job, pending, tmp, wire, sink>>

(* Variant: the numbers start at 0.                                        *)
RestartAtZero(t) ==
    /\ pc[t] = "restart"
    /\ cvn' = 0
    /\ IF pending[t] # None
       THEN /\ job' = [job EXCEPT ![t] = pending[t]]
            /\ pending' = [pending EXCEPT ![t] = None]
            /\ Goto(t, "send")
       ELSE /\ job' = [job EXCEPT ![t] = InfoOrder]
            /\ UNCHANGED pending
            /\ Goto(t, "enter")
    /\ UNCHANGED <<lock, queue, open, tmp, answer, wire, sink>>

(* "commandVersionNumber = 1": a request goes on with its own command, an  *)
(* opening with sendCommandSinkInfo().                                     *)
Restart(t) ==
    /\ pc[t] = "restart"
    /\ cvn' = 1
    /\ IF pending[t] # None
       THEN /\ job' = [job EXCEPT ![t] = pending[t]]
            /\ pending' = [pending EXCEPT ![t] = None]
            /\ Goto(t, "send")
       ELSE /\ job' = [job EXCEPT ![t] = InfoOrder]
            /\ UNCHANGED pending
            /\ Goto(t, "enter")
    /\ UNCHANGED <<lock, queue, open, tmp, answer, wire, sink>>

Step(t) ==
    \/ Clear(t) \/ Enter(t) \/ Check(t) \/ Send(t)
    \/ Read(t) \/ Write(t) \/ Restart(t)
    \/ t \in Request /\ Refuse(t)

----------------------------------------------------------------------------
(* The gateways.                                                           *)

(* A session closes with what is on it; onClose() leaves it in the queue.  *)
Close(s) ==
    /\ s \in open
    /\ open' = open \ {s}
    /\ wire' = [wire EXCEPT ![s] = <<>>]
    /\ UNCHANGED <<cvn, lock, queue, pc, job, pending, tmp, answer, sink>>

(* onMessage() writes the command to the serial port, the sink handles it. *)
Deliver(s) ==
    /\ wire[s] # <<>>
    /\ sink' = [sink EXCEPT ![Gateway[s]] = SinkAfter(@, Head(wire[s]))]
    /\ wire' = [wire EXCEPT ![s] = Tail(@)]
    /\ UNCHANGED <<cvn, lock, queue, open, pc, job, pending, tmp, answer>>

----------------------------------------------------------------------------
(* The specifications.                                                     *)

Active(T) == \E t \in T : pc[t] \notin {"start", "end"}

Environment == (\E s \in Session : Close(s) \/ Deliver(s))

Threads == \E t \in Thread : Step(t)

Next ==
    \/ \E s \in Session : Open(s)
    \/ \E r \in Request, o \in Orders : Submit(r, o)
    \/ Threads
    \/ Environment

Spec == Init /\ [][Next]_vars

Fairness == \A t \in Thread : WF_vars(Step(t))

(* A gateway connects while no other thread is inside CommandManager;      *)
(* requests run side by side.                                              *)
CalmNext ==
    \/ \E s \in Session : ~ Active(Thread) /\ Open(s)
    \/ \E r \in Request, o \in Orders : ~ Active(Session) /\ Submit(r, o)
    \/ Threads
    \/ Environment

CalmSpec == Init /\ [][CalmNext]_vars /\ Fairness
=============================================================================
