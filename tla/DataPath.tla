------------------------------- MODULE DataPath -------------------------------
(***************************************************************************)
(* The way of a reading from a sender to the database, and the loss ratio  *)
(* the server computes from what arrives.                                  *)
(*                                                                         *)
(* A sender numbers its readings with a byte (data.c).  The sink prints    *)
(* what it receives on the serial line, the gateway posts each line by a   *)
(* thread of its own (Gateway.java), the server creates the mote if it     *)
(* does not know it and stores the reading (DataStream, SenderDAO,         *)
(* DataResource).  getLossRatio() reads the numbers in the order of        *)
(* storage (DataDAO).                                                      *)
(*                                                                         *)
(* Of a reading only its number is kept, and, as history, which reading of *)
(* the sender it is.                                                       *)
(***************************************************************************)
EXTENDS Integers, Sequences, FiniteSetsExt

CONSTANTS
    Sender,
    SeqMax,         \* largest uint8_t, 255
    MaxReadings,    \* bound on the readings taken
    MaxReboots      \* bound on the reboots of senders

ASSUME DataPathAssumption ==
    /\ SeqMax \in Nat /\ SeqMax % 2 = 1
    /\ MaxReadings \in Nat
    /\ MaxReboots \in Nat

(* Half the range, 128: the number after SeqMax, and the modulus with      *)
(* which the server compares.                                              *)
Window == (SeqMax + 1) \div 2

Reading == [src : Sender, seq : 1..SeqMax, n : 1..MaxReadings]

(* A thread of the gateway and of the server that carries one reading:     *)
(* before the request, before a new mote is inserted, before the reading   *)
(* is stored.                                                              *)
Carrier == [reading : Reading, at : {"post", "insert", "store"}]

VARIABLES
    seqno,      \* the static seqno of data_send() on each sender
    taken,      \* readings each sender has taken (history)
    serial,     \* lines printed by the sink
    threads,    \* the threads under way
    known,      \* the motes in the database
    store,      \* the readings in the database, by id
    dropped,    \* readings whose insertion of the mote failed (history)
    reboots     \* reboots so far

vars == <<seqno, taken, serial, threads, known, store, dropped, reboots>>

TypeOK ==
    /\ seqno \in [Sender -> 0..SeqMax]
    /\ taken \in [Sender -> 0..MaxReadings]
    /\ serial \in Seq(Reading)
    /\ threads \subseteq Carrier
    /\ known \subseteq Sender
    /\ store \in Seq(Reading)
    /\ dropped \subseteq Reading
    /\ reboots \in 0..MaxReboots

Init ==
    /\ seqno = [s \in Sender |-> 0]
    /\ taken = [s \in Sender |-> 0]
    /\ serial = <<>>
    /\ threads = {}
    /\ known = {}
    /\ store = <<>>
    /\ dropped = {}
    /\ reboots = 0

----------------------------------------------------------------------------
(* The sender and the sink.                                                *)

(* Variant: the number does not wrap to half the range.                    *)
NextSeqZero(q) == IF q = SeqMax THEN 0 ELSE q + 1

(* Variant: "Wrap to 129".                                                 *)
NextSeqLate(q) == IF q = SeqMax THEN Window + 1 ELSE q + 1

(* "seqno++; if(seqno == 0) seqno = 128"                                   *)
NextSeq(q) == IF q = SeqMax THEN Window ELSE q + 1

(* data_send(): the reading reaches the sink or is lost on the way.        *)
Take(s) ==
    /\ taken[s] < MaxReadings
    /\ seqno' = [seqno EXCEPT ![s] = NextSeq(@)]
    /\ taken' = [taken EXCEPT ![s] = @ + 1]
    /\ \/ serial' = Append(serial, [src |-> s, seq |-> seqno'[s], n |-> taken'[s]])
       \/ UNCHANGED serial
    /\ UNCHANGED <<threads, known, store, dropped, reboots>>

Reboot(s) ==
    /\ reboots < MaxReboots
    /\ reboots' = reboots + 1
    /\ seqno' = [seqno EXCEPT ![s] = 0]
    /\ UNCHANGED <<taken, serial, threads, known, store, dropped>>

----------------------------------------------------------------------------
(* The gateway and the server.                                             *)

(* handleSensorData(): a new thread posts the reading.                     *)
HandleLine ==
    /\ serial # <<>>
    /\ threads' = threads \cup {[reading |-> Head(serial), at |-> "post"]}
    /\ serial' = Tail(serial)
    /\ UNCHANGED <<seqno, taken, known, store, dropped, reboots>>

Go(t, at) == threads' = (threads \ {t}) \cup {[t EXCEPT !.at = at]}

(* The server cannot be reached: the reading is gone, nobody tries again.  *)
Fail(t) ==
    /\ t.at = "post"
    /\ threads' = threads \ {t}
    /\ UNCHANGED <<seqno, taken, serial, known, store, dropped, reboots>>

(* Variant: the mote is not looked for.                                    *)
FindNone(t) ==
    /\ t.at = "post"
    /\ Go(t, "insert")
    /\ UNCHANGED <<seqno, taken, serial, known, store, dropped, reboots>>

(* mergeSender() looks the mote up ...                                     *)
Find(t) ==
    /\ t.at = "post"
    /\ Go(t, IF t.reading.src \in known THEN "store" ELSE "insert")
    /\ UNCHANGED <<seqno, taken, serial, known, store, dropped, reboots>>

(* ... and inserts it, by a second statement of the same transaction.  Its *)
(* address is a unique key: if the transaction of another request, which   *)
(* did not find it either, came first, this one fails, with the request.   *)
Insert(t) ==
    /\ t.at = "insert"
    /\ IF t.reading.src \in known
       THEN /\ threads' = threads \ {t}
            /\ dropped' = dropped \cup {t.reading}
            /\ UNCHANGED known
       ELSE /\ known' = known \cup {t.reading.src}
            /\ Go(t, "store")
            /\ UNCHANGED dropped
    /\ UNCHANGED <<seqno, taken, serial, store, reboots>>

(* persist(values): the reading gets the next id.                          *)
Store(t) ==
    /\ t.at = "store"
    /\ store' = Append(store, t.reading)
    /\ threads' = threads \ {t}
    /\ UNCHANGED <<seqno, taken, serial, known, dropped, reboots>>

Serve == \E t \in threads : Fail(t) \/ Find(t) \/ Insert(t) \/ Store(t)

Next ==
    \/ \E s \in Sender : Take(s) \/ Reboot(s)
    \/ HandleLine
    \/ Serve

Spec == Init /\ [][Next]_vars

(* Nothing is lost on the way.                                             *)
Carry ==
    \/ \E s \in Sender : Take(s) /\ serial' # serial
    \/ \E t \in threads : Find(t) \/ Insert(t) \/ Store(t)

SafeSpec == Init /\ [][Carry \/ HandleLine]_vars

----------------------------------------------------------------------------
(* getLossRatio().                                                         *)

(* Variant: Math.max() is missing.                                         *)
DistanceZero(p, q) == (q - p + Window) % Window

(* Math.max(1, (seq_no - lastSeqNo + 128) % 128)                           *)
Distance(p, q) == Max({1, (q - p + Window) % Window})

(* receivedNb, theoryNb and lastSeqNo of a mote.                           *)
NewCount == [received |-> 0, theory |-> 0, last |-> -1]

Counted(c, q) ==
    [received |-> c.received + 1,
     theory   |-> IF c.last >= 0 THEN c.theory + Distance(c.last, q) ELSE c.theory,
     last     |-> q]

(* The counts after each round of the loop over the readings v.            *)
Loop(v) ==
    LET counts[i \in 0..Len(v)] ==
          IF i = 0 THEN [s \in Sender |-> NewCount]
          ELSE [counts[i - 1] EXCEPT ![v[i].src] = Counted(@, v[i].seq % Window)]
    IN counts

(* What the loss ratio of a mote is computed from: it is                   *)
(* 1 - received / (theory + 1).                                            *)
LossCount(s) == Loop(store)[Len(store)][s]

----------------------------------------------------------------------------
(* What the path must satisfy.                                             *)

(* DataDAO.getLossRatio(): a ratio is never negative, whatever is lost,    *)
(* reordered or rebooted.                                                  *)
RatioInRange == \A s \in Sender : LossCount(s).received <= LossCount(s).theory + 1

(* The readings of s among the first i of v, and those that follow each    *)
(* other.                                                                  *)
From(v, i, s) == {a \in 1..i : v[a].src = s}

Follow(A, a, b) == a \in A /\ b \in A /\ a < b /\ \A c \in A : c <= a \/ b <= c

(* "Wrap to 128", "% 128": between reboots, when readings are stored in    *)
(* the order they were taken, the ratio counts exactly those missing       *)
(* between the first and the last, as long as fewer than 127 are lost in a *)
(* row.                                                                    *)
Exact ==
    \A s \in Sender :
      LET A == From(store, Len(store), s) IN
        (/\ reboots = 0
         /\ \A a, b \in A : Follow(A, a, b) => store[b].n - store[a].n \in 1..(Window - 1))
          => \A a, b \in A : (\A c \in A : a <= c /\ c <= b)
                                => LossCount(s).theory = store[b].n - store[a].n

(* DataStream.getMote(), "Create a new mote or get it from persistent      *)
(* context if it already exists": no reading is dropped for its mote.      *)
Kept == dropped = {}
=============================================================================
