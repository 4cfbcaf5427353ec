----------------------------- MODULE GatewayLink -----------------------------
(***************************************************************************)
(* How a gateway keeps its command stream to the server: the WebSocket     *)
(* client of the gateway and its reconnecting threads, the thread that     *)
(* watches the login (Router.testLogin), the sessions as the server sees   *)
(* them, and the serial port behind.                                       *)
(*                                                                         *)
(* Every end of a session, every "unauthorized" answer and every failed    *)
(* attempt makes a thread wait and connect again, so a refused session,    *)
(* which stays open, is answered by a second one: the gateway may hold     *)
(* several.  The numbering of commands, a step of several threads in       *)
(* CommandManager, is one step here.                                       *)
(***************************************************************************)
EXTENDS CommandHandlers, Sequences, FiniteSets

CONSTANTS
    Session,        \* WebSocket sessions; one that ended is used again
    Orders,         \* the commands the administrator sends
    WireMax,        \* bound on the lines under way on a session
    MaxRefused,     \* bound on the sessions refused
    MaxCrashes      \* bound on the crashes and restarts

ASSUME LinkAssumption ==
    /\ IsFiniteSet(Session)
    /\ Orders \subseteq {o \in Order : o.kind # "RESET_CVN"}
    /\ WireMax \in Nat /\ MaxRefused \in Nat /\ MaxCrashes \in Nat

VARIABLES
    up,         \* the server runs
    cvn,        \* CommandManager.commandVersionNumber, 1 until a gateway came
    loggedIn,   \* the server knows the cookie of the gateway
    checker,    \* the thread of testLogin(): "checks" or "retries"
    sleeping,   \* threads in the sleep of reconnect()
    connecting, \* threads in connect()
    opened,     \* sessions without a message handler yet
    attached,   \* sessions with one
    live,       \* open sessions neither end knows to be dead
    auth,       \* sessions in the queue of the server
    denied,     \* sessions with an "unauthorized" message under way
    wire,       \* lines under way on each session
    queue,      \* WebSocket.queue of the gateway
    serial,     \* the serialdump process: "none", "runs" or "ended"
    sink,       \* state of the sink
    missed,     \* the gateway lost a message it had received (history)
    refused,    \* sessions refused since the gateway started (history)
    crashes     \* crashes and restarts so far

server == <<up, cvn, loggedIn>>
threads == <<checker, sleeping, connecting>>
sessions == <<opened, attached, live, auth, denied, wire, queue>>
mote == <<serial, sink>>
counts == <<missed, refused, crashes>>

vars == <<server, threads, sessions, mote, counts>>

Open == opened \cup attached

TypeOK ==
    /\ up \in BOOLEAN /\ loggedIn \in BOOLEAN /\ cvn \in 1..CvnMax
    /\ checker \in {"checks", "retries"}
    /\ sleeping \in Nat /\ connecting \in Nat
    /\ opened \subseteq Session /\ attached \subseteq Session
    /\ opened \cap attached = {}
    /\ live \subseteq Open /\ auth \subseteq Open /\ denied \subseteq Open \ auth
    /\ queue \subseteq attached
    /\ wire \in [Session -> Seq(Line)]
    /\ serial \in {"none", "runs", "ended"} /\ sink \in Sinks
    /\ missed \in BOOLEAN /\ refused \in 0..MaxRefused /\ crashes \in 0..MaxCrashes

(* main(): the gateway has sent its login, which an error status does not  *)
(* end, started the thread that connects, and goes on to the serial port.  *)
(* The sink may have been running before; no command but a reset has the   *)
(* last version.                                                           *)
Init ==
    /\ up = TRUE /\ cvn = 1 /\ loggedIn \in BOOLEAN
    /\ checker = "checks" /\ sleeping = 0 /\ connecting = 1
    /\ opened = {} /\ attached = {} /\ live = {} /\ auth = {} /\ denied = {}
    /\ queue = {}
    /\ wire = [s \in Session |-> <<>>]
    /\ serial = "none"
    /\ sink \in Sinks /\ sink.ccvn < CvnMax
    /\ missed = FALSE /\ refused = 0 /\ crashes = 0

----------------------------------------------------------------------------
(* The server.                                                             *)

(* The bound: a line is sent when two more have room on every session of Q *)
(* after it, so that lines never keep a session from opening.              *)
Room(Q, n) == \A s \in Q : Len(wire[s]) + n <= WireMax

(* WebSocket.send(): the lines l go to every open session of the queue Q.  *)
Write(Q, l) ==
    /\ Room(Q, Len(l))
    /\ wire' = [s \in Session |-> IF s \in Q THEN wire[s] \o l ELSE wire[s]]

ResetLine == Stamp(CvnMax, [kind |-> "RESET_CVN", arg |-> NoArg])

SinkInfoLine == Stamp(1, [kind |-> "SINK_ID_DVN", arg |-> NoArg])

(* Variant: the number is not reset when it reaches the last one.          *)
SendCommandOn(o) ==
    /\ up /\ cvn >= 2 /\ Room(live \cap auth, 3)
    /\ Write(live \cap auth, <<Stamp(cvn, o)>>) /\ cvn' = cvn + 1
    /\ UNCHANGED <<up, loggedIn, threads, opened, attached, live, auth, denied, queue, mote, counts>>

(* sendCommand(), which counts the sessions that ended, too: it sends once *)
(* a gateway has been there.  With no version left a reset goes first.     *)
SendCommand(o) ==
    /\ up /\ cvn >= 2 /\ Room(live \cap auth, IF cvn < CvnMax THEN 3 ELSE 4)
    /\ IF cvn < CvnMax
       THEN Write(live \cap auth, <<Stamp(cvn, o)>>) /\ cvn' = cvn + 1
       ELSE Write(live \cap auth, <<ResetLine, Stamp(1, o)>>) /\ cvn' = 2
    /\ UNCHANGED <<up, loggedIn, threads, opened, attached, live, auth, denied, queue, mote, counts>>

(* The server goes down: its HTTP sessions are gone.                       *)
Crash ==
    /\ up /\ crashes < MaxCrashes
    /\ up' = FALSE /\ cvn' = 1 /\ loggedIn' = FALSE /\ live' = {}
    /\ crashes' = crashes + 1
    /\ UNCHANGED <<threads, opened, attached, auth, denied, wire, queue, mote, missed, refused>>

Boot ==
    /\ ~ up /\ up' = TRUE
    /\ UNCHANGED <<cvn, loggedIn, threads, sessions, mote, counts>>

----------------------------------------------------------------------------
(* The threads of the gateway.                                             *)

(* reconnect(), the sleep is over; connect() starts a new queue.           *)
Wake ==
    /\ sleeping > 0
    /\ sleeping' = sleeping - 1 /\ connecting' = connecting + 1 /\ queue' = {}
    /\ UNCHANGED <<server, checker, opened, attached, live, auth, denied, wire, mote, counts>>

(* Variant: a failed attempt is the last.                                  *)
ConnectFailsOnce ==
    /\ ~ up /\ connecting > 0
    /\ connecting' = connecting - 1
    /\ UNCHANGED <<server, checker, sleeping, sessions, mote, counts>>

(* connectToServer() throws.                                               *)
ConnectFails ==
    /\ ~ up /\ connecting > 0
    /\ connecting' = connecting - 1 /\ sleeping' = sleeping + 1
    /\ UNCHANGED <<server, checker, sessions, mote, counts>>

(* Variant: the server does not reset the numbering.                       *)
AcceptAsIs(s) ==
    /\ auth' = auth \cup {s} /\ Write((live \cap auth) \cup {s}, <<SinkInfoLine>>) /\ cvn' = 2
    /\ UNCHANGED <<denied, refused>>

(* openConnection() with a logged-in cookie: resetCommandVersionNumber()   *)
(* and sendCommandSinkInfo() to all sessions, the new one included.        *)
Accept(s) ==
    /\ auth' = auth \cup {s}
    /\ Write((live \cap auth) \cup {s}, <<ResetLine, SinkInfoLine>>) /\ cvn' = 2
    /\ UNCHANGED <<denied, refused>>

(* openConnection() otherwise: a message, and the session stays open.      *)
Refuse(s) ==
    /\ refused < MaxRefused
    /\ refused' = refused + 1 /\ denied' = denied \cup {s}
    /\ UNCHANGED <<auth, wire, cvn>>

(* connectToServer() succeeds with session s.                              *)
Connect(s) ==
    /\ up /\ connecting > 0 /\ s \notin Open
    /\ connecting' = connecting - 1
    /\ opened' = opened \cup {s} /\ live' = live \cup {s}
    /\ IF loggedIn THEN Accept(s) ELSE Refuse(s)
    /\ UNCHANGED <<up, loggedIn, checker, sleeping, attached, queue, mote, missed, crashes>>

(* queue.add(session) and session.addMessageHandler(this).                 *)
Attach(s) ==
    /\ s \in opened
    /\ opened' = opened \ {s} /\ attached' = attached \cup {s} /\ queue' = queue \cup {s}
    /\ UNCHANGED <<server, threads, live, auth, denied, wire, mote, counts>>

(* A message that arrives before the handler is there has no receiver.     *)
Drop(s) ==
    /\ s \in opened
    /\ \/ wire[s] # <<>> /\ wire' = [wire EXCEPT ![s] = Tail(@)] /\ UNCHANGED denied
       \/ s \in denied /\ denied' = denied \ {s} /\ UNCHANGED wire
    /\ missed' = TRUE
    /\ UNCHANGED <<server, threads, opened, attached, live, auth, queue, mote, refused, crashes>>

(* onMessage() of a command, down to writeSerialData(): without a          *)
(* serialdump process the line is gone.                                    *)
HandleCommand(s) ==
    /\ s \in attached /\ wire[s] # <<>>
    /\ wire' = [wire EXCEPT ![s] = Tail(@)]
    /\ sink' = IF serial = "runs" THEN SinkAfter(sink, Head(wire[s])) ELSE sink
    /\ missed' = (missed \/ serial # "runs")
    /\ UNCHANGED <<server, threads, opened, attached, live, auth, denied, queue, serial,
                   refused, crashes>>

(* Variant: the refused session is left to itself.                         *)
HandleUnauthorizedIdly(s) ==
    /\ s \in attached /\ s \in denied
    /\ denied' = denied \ {s}
    /\ UNCHANGED <<server, threads, opened, attached, live, auth, wire, queue, mote, counts>>

(* onMessage() of "unauthorized".                                          *)
HandleUnauthorized(s) ==
    /\ s \in attached /\ s \in denied
    /\ denied' = denied \ {s} /\ sleeping' = sleeping + 1
    /\ UNCHANGED <<server, checker, connecting, opened, attached, live, auth, wire, queue, mote, counts>>

(* onClose(), after the messages that arrived before.                      *)
Close(s) ==
    /\ s \in attached \ (live \cup denied) /\ wire[s] = <<>>
    /\ attached' = attached \ {s} /\ auth' = auth \ {s} /\ queue' = queue \ {s}
    /\ sleeping' = sleeping + 1
    /\ UNCHANGED <<server, checker, connecting, opened, live, denied, wire, mote, counts>>

(* The connection of a session breaks.                                     *)
Cut(s) ==
    /\ s \in live /\ live' = live \ {s}
    /\ UNCHANGED <<server, threads, opened, attached, auth, denied, wire, queue, mote, counts>>

(* What had not arrived by then is lost.                                   *)
Lose(s) ==
    /\ s \in Open \ live
    /\ \/ wire[s] # <<>> /\ UNCHANGED denied
          /\ wire' = [wire EXCEPT ![s] = SubSeq(@, 1, Len(@) - 1)]
       \/ s \in denied /\ denied' = denied \ {s} /\ UNCHANGED wire
    /\ UNCHANGED <<server, threads, opened, attached, live, auth, queue, mote, counts>>

(* Variant: the login is renewed only when there is no answer.             *)
CheckLoginDown ==
    /\ checker = "checks" /\ ~ up
    /\ checker' = "retries"
    /\ UNCHANGED <<server, sleeping, connecting, sessions, mote, counts>>

(* checkLogin(): logged out, or no answer.                                 *)
CheckLogin ==
    /\ checker = "checks" /\ ~ (up /\ loggedIn)
    /\ checker' = "retries"
    /\ UNCHANGED <<server, sleeping, connecting, sessions, mote, counts>>

(* retryLogin(): the attempts that fail change nothing.                    *)
RetryLogin ==
    /\ checker = "retries" /\ up
    /\ loggedIn' = TRUE /\ checker' = "checks"
    /\ UNCHANGED <<up, cvn, sleeping, connecting, sessions, mote, counts>>

(* An answer with an error status: get() throws, so a gateway that is      *)
(* logged in logs in again; login() returns, so one that is not stops      *)
(* retrying until the next check.                                          *)
ErrorStatus ==
    /\ \/ checker = "checks" /\ up /\ loggedIn /\ checker' = "retries"
       \/ checker = "retries" /\ ~ (up /\ loggedIn) /\ checker' = "checks"
    /\ UNCHANGED <<server, sleeping, connecting, sessions, mote, counts>>

(* The gateway program is started again, with the serial port closed.  It  *)
(* ends if its login fails, but not on an error status.                    *)
Restart ==
    /\ crashes < MaxCrashes /\ crashes' = crashes + 1
    /\ loggedIn' \in {FALSE, up} /\ checker' = "checks" /\ sleeping' = 0 /\ connecting' = 1
    /\ opened' = {} /\ attached' = {} /\ live' = {} /\ auth' = {} /\ denied' = {} /\ queue' = {}
    /\ wire' = [s \in Session |-> <<>>]
    /\ serial' = "none" /\ missed' = FALSE /\ refused' = 0
    /\ UNCHANGED <<up, cvn, sink>>

(* connectToSerial(): the mote is found, serialdump runs.                  *)
OpenSerial ==
    /\ serial = "none" /\ serial' = "runs"
    /\ UNCHANGED <<server, threads, sessions, sink, counts>>

(* serialdump ends: closeConnection().  Nothing opens the port again.      *)
SerialEnds ==
    /\ serial = "runs" /\ serial' = "ended"
    /\ UNCHANGED <<server, threads, sessions, sink, counts>>

----------------------------------------------------------------------------
(* The specifications.                                                     *)

Login == CheckLogin \/ RetryLogin

Handle(s) == HandleCommand(s) \/ HandleUnauthorized(s)

Next ==
    \/ \E o \in Orders : SendCommand(o)
    \/ Crash \/ Boot \/ Restart
    \/ Wake \/ ConnectFails \/ Login \/ ErrorStatus
    \/ \E s \in Session : \/ Connect(s) \/ Attach(s) \/ Drop(s) \/ Handle(s)
                          \/ Close(s) \/ Cut(s) \/ Lose(s)
    \/ OpenSerial \/ SerialEnds

Spec == Init /\ [][Next]_vars

(* Sleeps end, attempts to connect fail or succeed, messages and closes    *)
(* are handled, the login is watched.                                      *)
Fairness ==
    /\ WF_vars(Wake) /\ WF_vars(ConnectFails) /\ WF_vars(\E s \in Session : Connect(s))
    /\ WF_vars(Login)
    /\ \A s \in Session : WF_vars(Attach(s)) /\ WF_vars(Handle(s)) /\ WF_vars(Close(s))

FairSpec == Spec /\ Fairness

----------------------------------------------------------------------------
(* What the gateway must do.                                               *)

(* reconnect(): the gateway never stops trying, whatever is lost: there    *)
(* always is a session or a thread that will open one, and only refusals   *)
(* multiply them.                                                          *)
Links ==
    LET links == sleeping + connecting + Cardinality(Open)
    IN  1 <= links /\ links <= 1 + refused

(* No thread or message under way.                                         *)
Rest ==
    /\ up /\ sleeping = 0 /\ connecting = 0 /\ opened = {} /\ denied = {}
    /\ attached \subseteq live
    /\ \A s \in Session : wire[s] = <<>>

Linked == \E s \in queue : s \in live \cap auth

(* connect(), onMessage(), onClose(): when nothing is under way, the       *)
(* gateway has a session with the right to receive commands, and has it in *)
(* its queue: no attempt ends in a refused session that nobody follows up, *)
(* or in a queue that another thread replaced.                             *)
KeepsStream == Rest /\ ~ missed => Linked

(* sendCommand(): when nothing is under way the sink takes the next number *)
(* of the server, even if the server counted commands while no gateway was *)
(* there, or the sink heard the lines of several sessions mixed.           *)
InStep == Rest /\ ~ missed => sink.ccvn < cvn

(* reconnect(), retryLogin(): once the server stays up and answers, and    *)
(* connections hold, the gateway gets its stream back for good.            *)
Reachable ==
    (/\ <>[](up /\ ~ missed)
     /\ <>[][~ ErrorStatus /\ \A s \in Session : ~ Cut(s)]_vars) => <>[]Linked
==============================================================================
