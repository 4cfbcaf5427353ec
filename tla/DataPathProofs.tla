---------------------------- MODULE DataPathProofs ----------------------------
(***************************************************************************)
(* The numbers of readings, for any number of senders and any width of the *)
(* number: types, and that the server counts the readings between two that *)
(* arrived right, wherever the number wraps.                               *)
(***************************************************************************)
EXTENDS DataPath, SequenceTheorems, FiniteSetTheorems, FunctionTheorems, TLAPS

----------------------------------------------------------------------------
(* Induction and recursion.                                                *)

(* A set of numbers that holds 0 and the successor of each of its numbers  *)
(* holds all: the library's induction theorem for sets.  Were k missing,   *)
(* n + 1 would map the finite set of members below k into itself, one to   *)
(* one and not onto.                                                       *)
LEMMA NatSetInduction ==
    ASSUME NEW P \in SUBSET Nat, 0 \in P, \A n \in P : n + 1 \in P
    PROVE  P = Nat
<1> SUFFICES ASSUME NEW k \in Nat, k \notin P PROVE FALSE
    OBVIOUS
<1> DEFINE D == {n \in P : n < k}
           f == [n \in D |-> n + 1]
<1>1. IsFiniteSet(D)
    BY FS_BoundedSetOfNaturals
<1>2. \A n \in D : n \in Nat /\ n + 1 \in D
    OBVIOUS
<1>3. 0 \in D
    OBVIOUS
<1> HIDE DEF D
<1>4. f \in Injection(D, D)
    BY <1>2 DEF Injection, IsInjective
<1>5. f \in Surjection(D, D)
    BY <1>1, <1>4, FS_Injection
<1>6. \E n \in D : f[n] = 0
    BY <1>3, <1>5 DEF Surjection
<1> QED
    BY <1>2, <1>6

(* A step can be iterated.                                                 *)
Iterates(f, a, step) == f[0] = a /\ \A n \in Nat : f[n + 1] = step[<<n + 1, f[n]>>]

LEMMA Iteration ==
    ASSUME NEW S, NEW a \in S, NEW step \in [Nat \X S -> S]
    PROVE  \E f \in [Nat -> S] : Iterates(f, a, step)
<1> DEFINE Good(g, n) == g[0] = a /\ \A i \in Nat : i < n => g[i + 1] = step[<<i + 1, g[i]>>]
           E == {n \in Nat : \E g \in [Nat -> S] : Good(g, n)}
<1>1. 0 \in E
    <2>1. [i \in Nat |-> a] \in [Nat -> S] /\ Good([i \in Nat |-> a], 0)
        OBVIOUS
    <2> QED
        BY <2>1
<1>2. ASSUME NEW n \in E PROVE n + 1 \in E
    <2>1. PICK g \in [Nat -> S] : Good(g, n)
        OBVIOUS
    <2>2. n \in Nat /\ n + 1 \in Nat /\ <<n + 1, g[n]>> \in Nat \X S
        OBVIOUS
    <2>3. step[<<n + 1, g[n]>>] \in S
        BY <2>2
    <2> DEFINE h == [g EXCEPT ![n + 1] = step[<<n + 1, g[n]>>]]
    <2>4. /\ h \in [Nat -> S]
          /\ h[n + 1] = step[<<n + 1, g[n]>>]
          /\ \A i \in Nat : i # n + 1 => h[i] = g[i]
        BY <2>2, <2>3
    <2> HIDE DEF h
    <2>5. ASSUME NEW i \in Nat, i < n + 1
          PROVE  h[i + 1] = step[<<i + 1, h[i]>>]
        <3>1. CASE i < n
            BY <2>1, <2>2, <2>4, <3>1
        <3>2. CASE i = n
            BY <2>2, <2>4, <3>2
        <3> QED
            BY <2>2, <2>5, <3>1, <3>2
    <2>6. Good(h, n + 1)
        BY <2>1, <2>2, <2>4, <2>5
    <2> HIDE DEF Good
    <2> QED
        BY <2>2, <2>4, <2>6
<1>3. E = Nat
    <2> HIDE DEF E
    <2>1. E \in SUBSET Nat
        BY DEF E
    <2> QED
        BY <1>1, <1>2, <2>1, NatSetInduction
<1>4. ASSUME NEW n \in Nat, NEW m \in Nat, n <= m, NEW g, NEW h, Good(g, n), Good(h, m)
      PROVE  g[n] = h[n]
    <2> DEFINE A == {i \in Nat : i <= n => g[i] = h[i]}
    <2>1. 0 \in A
        BY <1>4
    <2>2. ASSUME NEW i \in A PROVE i + 1 \in A
        <3>1. i \in Nat /\ (i <= n => g[i] = h[i])
            OBVIOUS
        <3>2. i + 1 <= n => i < n /\ i < m /\ i <= n
            BY <1>4, <3>1
        <3>3. i + 1 <= n => g[i + 1] = h[i + 1]
            BY <1>4, <3>1, <3>2
        <3> QED
            BY <3>1, <3>3
    <2>3. A = Nat
        <3> HIDE DEF A
        <3>1. A \in SUBSET Nat
            BY DEF A
        <3> QED
            BY <2>1, <2>2, <3>1, NatSetInduction
    <2> QED
        BY <2>3
<1> DEFINE G == [n \in Nat |-> CHOOSE g : g \in [Nat -> S] /\ Good(g, n)]
           f == [n \in Nat |-> G[n][n]]
<1>5. ASSUME NEW n \in Nat PROVE G[n] \in [Nat -> S] /\ Good(G[n], n)
    <2> HIDE DEF Good
    <2>1. n \in E
        BY <1>3
    <2> QED
        BY <2>1
<1> HIDE DEF G, E
<1>6. \A n \in Nat : f[n] \in S
    BY <1>5
<1>7. f[0] = a
    BY <1>5
<1>8. ASSUME NEW n \in Nat
      PROVE  f[n + 1] = step[<<n + 1, f[n]>>]
    <2>1. n + 1 \in Nat /\ n <= n + 1 /\ n < n + 1
        OBVIOUS
    <2>2. Good(G[n], n) /\ Good(G[n + 1], n + 1)
        BY <1>5, <2>1
    <2>3. G[n + 1][n + 1] = step[<<n + 1, G[n + 1][n]>>]
        BY <2>1, <2>2
    <2> HIDE DEF Good
    <2>4. G[n][n] = G[n + 1][n]
        BY <1>4, <2>1, <2>2
    <2> QED
        BY <2>1, <2>3, <2>4
<1> HIDE DEF f
<1>9. f \in [Nat -> S]
    BY <1>6 DEF f
<1> QED
    BY <1>7, <1>8, <1>9 DEF Iterates

----------------------------------------------------------------------------
(* Remainders.                                                             *)

LEMMA Division ==
    ASSUME NEW w \in Nat, w > 0, NEW m \in Nat
    PROVE  m % w \in Nat /\ m % w < w /\ m \div w \in Nat /\ m = w * (m \div w) + (m % w)
<1>1. m % w \in 0..(w - 1)
    OBVIOUS
<1>2. m \div w \in Int
    OBVIOUS
<1>3. m \div w >= 0
    OBVIOUS
<1>4. m = w * (m \div w) + (m % w)
    OBVIOUS
<1> QED
    BY <1>1, <1>2, <1>3, <1>4

LEMMA Multiple ==
    ASSUME NEW w \in Nat, w > 0, NEW d \in Int, d >= 1
    PROVE  w * d >= w
OBVIOUS

(* A remainder is unique.                                                  *)
LEMMA Remainder ==
    ASSUME NEW w \in Nat, w > 0, NEW k \in Nat, NEW r \in Nat, r < w
    PROVE  (w * k + r) % w = r
<1> DEFINE m == w * k + r
           q == m \div w
           p == m % w
<1>1. m \in Nat
    OBVIOUS
<1>2. p \in Nat /\ p < w /\ q \in Nat /\ m = w * q + p
    BY <1>1, Division
<1>3. w * k + r = w * q + p
    BY <1>2
<1> SUFFICES p = r
    OBVIOUS
<1> HIDE DEF m, q, p
<1>4. CASE k > q
    <2>1. PICK d \in Int : d >= 1 /\ k = q + d
        BY <1>2, <1>4
    <2>2. w * k = w * q + w * d
        BY <2>1, <1>2
    <2>3. w * d >= w
        BY <2>1, Multiple
    <2> QED
        BY <1>2, <1>3, <2>1, <2>2, <2>3
<1>5. CASE q > k
    <2>1. PICK d \in Int : d >= 1 /\ q = k + d
        BY <1>2, <1>5
    <2>2. w * q = w * k + w * d
        BY <2>1, <1>2
    <2>3. w * d >= w
        BY <2>1, Multiple
    <2> QED
        BY <1>2, <1>3, <2>1, <2>2, <2>3
<1>6. CASE k = q
    BY <1>2, <1>3, <1>6
<1> QED
    BY <1>2, <1>4, <1>5, <1>6

LEMMA RemainderNext ==
    ASSUME NEW w \in Nat, w > 0, NEW n \in Nat
    PROVE  (n + 1) % w = IF n % w = w - 1 THEN 0 ELSE (n % w) + 1
<1> DEFINE r == n % w
           k == n \div w
<1>1. r \in Nat /\ r < w /\ k \in Nat /\ n = w * k + r
    BY Division
<1> HIDE DEF r, k
<1>2. CASE r = w - 1
    <2>1. n + 1 = w * (k + 1) + 0
        BY <1>1, <1>2
    <2>2. (w * (k + 1) + 0) % w = 0
        BY <1>1, Remainder
    <2> QED
        BY <1>2, <2>1, <2>2 DEF r
<1>3. CASE r # w - 1
    <2>1. n + 1 = w * k + (r + 1) /\ r + 1 < w /\ r + 1 \in Nat
        BY <1>1, <1>3
    <2>2. (w * k + (r + 1)) % w = r + 1
        BY <1>1, <2>1, Remainder
    <2> QED
        BY <1>3, <2>1, <2>2 DEF r
<1> QED
    BY <1>2, <1>3

(* A difference below w can be told from the remainders.                   *)
LEMMA RemainderDifference ==
    ASSUME NEW w \in Nat, w > 0, NEW m \in Nat, NEW d \in Nat, d < w
    PROVE  (((m + d) % w) - (m % w) + w) % w = d
<1> DEFINE r == m % w
           k == m \div w
<1>1. r \in Nat /\ r < w /\ k \in Nat /\ m = w * k + r
    BY Division
<1> HIDE DEF r, k
<1>2. CASE r + d < w
    <2>1. m + d = w * k + (r + d) /\ r + d \in Nat
        BY <1>1, <1>2
    <2>2. (w * k + (r + d)) % w = r + d
        BY <1>1, <1>2, <2>1, Remainder
    <2>3. ((m + d) % w) - r + w = w * 1 + d
        BY <1>1, <2>1, <2>2
    <2>4. (w * 1 + d) % w = d
        BY Remainder
    <2> QED
        BY <2>3, <2>4 DEF r
<1>3. CASE ~ (r + d < w)
    <2>1. PICK e \in Nat : e = r + d - w
        BY <1>1, <1>3
    <2>2. PICK q \in Nat : q = k + 1
        BY <1>1
    <2>3. w * q = w * k + w
        BY <1>1, <2>2
    <2>4. m + d = w * q + e
        BY <1>1, <2>1, <2>3
    <2>5. e < w
        BY <1>1, <2>1
    <2>6. (w * q + e) % w = e
        BY <2>5, Remainder
    <2>7. (m + d) % w = e
        BY <2>4, <2>6
    <2>8. ((m + d) % w) - r + w = w * 0 + d
        BY <1>1, <2>1, <2>7
    <2>9. (w * 0 + d) % w = d
        BY Remainder
    <2> QED
        BY <2>8, <2>9 DEF r
<1> QED
    BY <1>2, <1>3

----------------------------------------------------------------------------
(* Types.                                                                  *)

LEMMA Windows ==
    /\ Window \in Nat /\ Window > 0 /\ SeqMax = 2 * Window - 1
    /\ SeqMax \in Nat /\ MaxReadings \in Nat /\ MaxReboots \in Nat
BY DataPathAssumption DEF Window

LEMMA NextSeqType ==
    ASSUME NEW q \in 0..SeqMax
    PROVE  NextSeq(q) \in 1..SeqMax
BY Windows DEF NextSeq

(* What data_send() puts on the way is a reading.                          *)
LEMMA Taken ==
    ASSUME TypeOK, NEW s \in Sender, Take(s)
    PROVE  /\ seqno' \in [Sender -> 0..SeqMax] /\ taken' \in [Sender -> 0..MaxReadings]
           /\ seqno'[s] = NextSeq(seqno[s]) /\ taken'[s] = taken[s] + 1
           /\ [src |-> s, seq |-> seqno'[s], n |-> taken'[s]] \in Reading
<1>1. seqno[s] \in 0..SeqMax /\ taken[s] \in 0..MaxReadings /\ taken[s] < MaxReadings
    BY DEF TypeOK, Take
<1>2. NextSeq(seqno[s]) \in 1..SeqMax /\ taken[s] + 1 \in 1..MaxReadings
    BY <1>1, NextSeqType, Windows
<1>3. NextSeq(seqno[s]) \in 0..SeqMax /\ taken[s] + 1 \in 0..MaxReadings
    BY <1>2
<1>4. seqno' = [seqno EXCEPT ![s] = NextSeq(seqno[s])] /\ taken' = [taken EXCEPT ![s] = taken[s] + 1]
    BY DEF Take
<1>5. seqno'[s] = NextSeq(seqno[s]) /\ taken'[s] = taken[s] + 1
    BY <1>4 DEF TypeOK
<1>6. seqno' \in [Sender -> 0..SeqMax] /\ taken' \in [Sender -> 0..MaxReadings]
    BY <1>3, <1>4 DEF TypeOK
<1> QED
    BY <1>2, <1>5, <1>6 DEF Reading

LEMMA TypeInit == Init => TypeOK
BY Windows DEF Init, TypeOK

LEMMA TypeStep == TypeOK /\ [Next]_vars => TypeOK'
<1> SUFFICES ASSUME TypeOK, [Next]_vars PROVE TypeOK'
    OBVIOUS
<1>1. ASSUME NEW s \in Sender, Take(s) PROVE TypeOK'
    <2> DEFINE r == [src |-> s, seq |-> seqno'[s], n |-> taken'[s]]
    <2>1. r \in Reading /\ seqno' \in [Sender -> 0..SeqMax] /\ taken' \in [Sender -> 0..MaxReadings]
        BY <1>1, Taken
    <2>2. serial \in Seq(Reading) /\ (serial' = Append(serial, r) \/ serial' = serial)
        BY <1>1 DEF TypeOK, Take
    <2> HIDE DEF r
    <2>3. Append(serial, r) \in Seq(Reading)
        BY <2>1, <2>2, AppendProperties
    <2>4. serial' \in Seq(Reading)
        BY <2>2, <2>3
    <2>5. UNCHANGED <<threads, known, store, dropped, reboots>>
        BY <1>1 DEF Take
    <2> QED
        BY <2>1, <2>4, <2>5 DEF TypeOK
<1>2. ASSUME NEW s \in Sender, Reboot(s) PROVE TypeOK'
    <2>1. 0 \in 0..SeqMax /\ reboots + 1 \in 0..MaxReboots
        BY <1>2, Windows DEF TypeOK, Reboot
    <2> QED
        BY <1>2, <2>1 DEF TypeOK, Reboot
<1>3. CASE HandleLine
    <2>1. Head(serial) \in Reading /\ Tail(serial) \in Seq(Reading)
        BY <1>3 DEF TypeOK, HandleLine
    <2>2. [reading |-> Head(serial), at |-> "post"] \in Carrier
        BY <2>1 DEF Carrier
    <2> QED
        BY <1>3, <2>1, <2>2 DEF TypeOK, HandleLine
<1>4. ASSUME NEW t \in threads, Fail(t) \/ Find(t) \/ Insert(t) \/ Store(t) PROVE TypeOK'
    <2>1. t \in Carrier /\ t.reading \in Reading /\ t.reading.src \in Sender
        BY DEF TypeOK, Carrier, Reading
    <2>2. \A at \in {"insert", "store"} : [t EXCEPT !.at = at] \in Carrier
        BY <2>1 DEF Carrier
    <2>3. CASE Fail(t)
        BY <2>3 DEF TypeOK, Fail
    <2>4. CASE Find(t)
        BY <2>2, <2>4 DEF TypeOK, Find, Go
    <2>5. CASE Insert(t)
        BY <2>1, <2>2, <2>5 DEF TypeOK, Insert, Go
    <2>6. CASE Store(t)
        BY <2>1, <2>6 DEF TypeOK, Store
    <2> QED
        BY <1>4, <2>3, <2>4, <2>5, <2>6
<1>5. CASE UNCHANGED vars
    BY <1>5 DEF TypeOK, vars
<1> QED
    BY <1>1, <1>2, <1>3, <1>4, <1>5 DEF Next, Serve

(* DataPath: numbers keep their width, and what is stored was taken.       *)
THEOREM PathTypeCorrect == Spec => []TypeOK
    BY TypeInit, TypeStep, PTL DEF Spec

----------------------------------------------------------------------------
(* Between reboots a number says which reading it is, up to a multiple of  *)
(* Window: 0..SeqMax is two windows, and the number after SeqMax is the    *)
(* start of the second.                                                    *)

Counts(r) == r.seq % Window = r.n % Window

CountInv ==
    reboots = 0 =>
      /\ \A s \in Sender : seqno[s] % Window = taken[s] % Window
      /\ \A i \in 1..Len(serial) : Counts(serial[i])
      /\ \A t \in threads : Counts(t.reading)
      /\ \A i \in 1..Len(store) : Counts(store[i])

LEMMA NextSeqCounts ==
    ASSUME NEW q \in 0..SeqMax, NEW n \in Nat, q % Window = n % Window
    PROVE  NextSeq(q) % Window = (n + 1) % Window
<1>1. Window \in Nat /\ Window > 0 /\ SeqMax = 2 * Window - 1 /\ q \in Nat
    BY Windows
<1>2. CASE q = SeqMax
    <2>1. q = Window * 1 + (Window - 1) /\ NextSeq(q) = Window * 1 + 0
        BY <1>1, <1>2 DEF NextSeq
    <2>2. q % Window = Window - 1 /\ NextSeq(q) % Window = 0
        <3>1. (Window * 1 + (Window - 1)) % Window = Window - 1
            BY <1>1, Remainder
        <3>2. (Window * 1 + 0) % Window = 0
            BY <1>1, Remainder
        <3> QED
            BY <2>1, <3>1, <3>2
    <2>3. (n + 1) % Window = 0
        BY <1>1, <2>2, RemainderNext
    <2> QED
        BY <2>2, <2>3
<1>3. CASE q # SeqMax
    <2>1. NextSeq(q) = q + 1
        BY <1>3 DEF NextSeq
    <2>2. (q + 1) % Window = IF q % Window = Window - 1 THEN 0 ELSE (q % Window) + 1
        BY <1>1, RemainderNext
    <2>3. (n + 1) % Window = IF n % Window = Window - 1 THEN 0 ELSE (n % Window) + 1
        BY <1>1, RemainderNext
    <2> QED
        BY <2>1, <2>2, <2>3
<1> QED
    BY <1>2, <1>3

LEMMA CountInit == Init => CountInv
<1>1. \A s \in Sender : Init => seqno[s] = 0 /\ taken[s] = 0
    BY DEF Init
<1> QED
    BY <1>1 DEF Init, CountInv

LEMMA CountStep == TypeOK /\ CountInv /\ [Next]_vars => CountInv'
<1> SUFFICES ASSUME TypeOK, CountInv, [Next]_vars, reboots' = 0
             PROVE  /\ \A s \in Sender : seqno'[s] % Window = taken'[s] % Window
                    /\ \A i \in 1..Len(serial') : Counts(serial'[i])
                    /\ \A t \in threads' : Counts(t.reading)
                    /\ \A i \in 1..Len(store') : Counts(store'[i])
    BY DEF CountInv, Counts
<1>0. CASE reboots # 0
    <2>1. reboots \in Nat
        BY DEF TypeOK
    <2>2. reboots' = reboots \/ reboots' = reboots + 1
        BY DEF Next, vars, Serve, Take, Reboot, HandleLine, Fail, Find, Insert, Store
    <2> QED
        BY <1>0, <2>1, <2>2
<1> SUFFICES ASSUME reboots = 0
             PROVE  /\ \A s \in Sender : seqno'[s] % Window = taken'[s] % Window
                    /\ \A i \in 1..Len(serial') : Counts(serial'[i])
                    /\ \A t \in threads' : Counts(t.reading)
                    /\ \A i \in 1..Len(store') : Counts(store'[i])
    BY <1>0
<1>a. /\ \A s \in Sender : seqno[s] % Window = taken[s] % Window
      /\ \A i \in 1..Len(serial) : Counts(serial[i])
      /\ \A t \in threads : Counts(t.reading)
      /\ \A i \in 1..Len(store) : Counts(store[i])
    BY DEF CountInv
<1>b. serial \in Seq(Reading) /\ store \in Seq(Reading)
    BY DEF TypeOK
<1>1. ASSUME NEW s \in Sender, Take(s)
      PROVE  /\ \A u \in Sender : seqno'[u] % Window = taken'[u] % Window
             /\ \A i \in 1..Len(serial') : Counts(serial'[i])
             /\ UNCHANGED <<threads, store>>
    <2> DEFINE r == [src |-> s, seq |-> seqno'[s], n |-> taken'[s]]
    <2>1. r \in Reading /\ seqno'[s] = NextSeq(seqno[s]) /\ taken'[s] = taken[s] + 1
        BY <1>1, Taken
    <2>2. seqno[s] \in 0..SeqMax /\ taken[s] \in Nat
        BY Windows DEF TypeOK
    <2>3. seqno'[s] % Window = taken'[s] % Window
        BY <1>a, <2>1, <2>2, NextSeqCounts
    <2>4. \A u \in Sender \ {s} : seqno'[u] = seqno[u] /\ taken'[u] = taken[u]
        BY <1>1 DEF Take, TypeOK
    <2>5. Counts(r)
        BY <2>3 DEF Counts
    <2>6. serial' = Append(serial, r) \/ serial' = serial
        BY <1>1 DEF Take
    <2>7. UNCHANGED <<threads, store>>
        BY <1>1 DEF Take
    <2> HIDE DEF r
    <2>8. \A i \in 1..Len(serial') : Counts(serial'[i])
        BY <1>a, <1>b, <2>1, <2>5, <2>6, AppendProperties
    <2> QED
        BY <1>a, <2>3, <2>4, <2>7, <2>8
<1>2. ASSUME NEW s \in Sender, Reboot(s) PROVE FALSE
    BY <1>2 DEF Reboot
<1>3. CASE HandleLine
    <2>1. Head(serial) = serial[1] /\ 1 \in 1..Len(serial)
        BY <1>3, <1>b DEF HandleLine
    <2>2. \A i \in 1..Len(serial') : i + 1 \in 1..Len(serial) /\ serial'[i] = serial[i + 1]
        BY <1>3, <1>b DEF HandleLine
    <2>3. Counts(Head(serial))
        BY <1>a, <2>1
    <2>4. \A t \in threads' : t \in threads \/ t.reading = Head(serial)
        BY <1>3 DEF HandleLine
    <2>5. \A t \in threads' : Counts(t.reading)
        BY <1>a, <2>3, <2>4
    <2>6. \A i \in 1..Len(serial') : Counts(serial'[i])
        BY <1>a, <2>2
    <2>7. UNCHANGED <<seqno, taken, store>>
        BY <1>3 DEF HandleLine
    <2> QED
        BY <1>a, <2>5, <2>6, <2>7
<1>4. ASSUME NEW t \in threads, Fail(t) \/ Find(t) \/ Insert(t) \/ Store(t)
      PROVE  /\ UNCHANGED <<seqno, taken, serial>>
             /\ \A u \in threads' : Counts(u.reading)
             /\ \A i \in 1..Len(store') : Counts(store'[i])
    <2>0. t \in Carrier /\ Counts(t.reading) /\ t.reading \in Reading
        BY <1>a DEF TypeOK, Carrier
    <2>1. \A at \in {"insert", "store"} : [t EXCEPT !.at = at].reading = t.reading
        BY <2>0 DEF Carrier
    <2>2. UNCHANGED <<seqno, taken, serial>>
        BY <1>4 DEF Fail, Find, Insert, Store
    <2>3. \A u \in threads' : u \in threads \/ u.reading = t.reading
        BY <1>4, <2>1 DEF Fail, Find, Insert, Store, Go
    <2>4. store' = store \/ store' = Append(store, t.reading)
        BY <1>4 DEF Fail, Find, Insert, Store
    <2>5. \A i \in 1..Len(store') : Counts(store'[i])
        BY <1>a, <1>b, <2>0, <2>4, AppendProperties
    <2> QED
        BY <1>a, <2>0, <2>2, <2>3, <2>5
<1>5. CASE UNCHANGED vars
    BY <1>5, <1>a DEF vars
<1> QED
    <2>1. CASE \E s \in Sender : Take(s)
        BY <1>1, <1>a, <2>1
    <2>2. CASE Serve
        BY <1>4, <1>a, <2>2 DEF Serve
    <2> QED
        BY <1>2, <1>3, <1>5, <2>1, <2>2 DEF Next

LEMMA NumbersCount == Spec => []CountInv
    BY TypeInit, TypeStep, CountInit, CountStep, PTL DEF Spec

----------------------------------------------------------------------------
(* Distances.                                                              *)

LEMMA MaxOne ==
    ASSUME NEW d \in Nat
    PROVE  Max({1, d}) = IF d >= 1 THEN d ELSE 1
BY DEF Max

LEMMA DistanceType ==
    ASSUME NEW p \in 0..(Window - 1), NEW q \in 0..(Window - 1)
    PROVE  Distance(p, q) \in Nat /\ Distance(p, q) >= 1
<1>1. q - p + Window \in Nat
    BY Windows
<1>2. (q - p + Window) % Window \in Nat
    BY <1>1, Windows, Division
<1> QED
    BY <1>2, MaxOne DEF Distance

LEMMA ReadingNumber ==
    ASSUME NEW r \in Reading
    PROVE  r.src \in Sender /\ r.n \in Nat /\ r.seq % Window \in 0..(Window - 1)
<1>1. r.src \in Sender /\ r.n \in Nat /\ r.seq \in Nat
    BY Windows DEF Reading
<1>2. r.seq % Window \in Nat /\ r.seq % Window < Window
    BY <1>1, Windows, Division
<1> QED
    BY <1>1, <1>2, Windows

(* What the numbers of two readings of a sender tell: the distance between *)
(* them, as long as it is less than Window.                                *)
GapsOf(v) ==
    \A i, j \in 1..Len(v) :
        (/\ v[i].src = v[j].src
         /\ v[j].n - v[i].n \in 1..(Window - 1))
          => Distance(v[i].seq % Window, v[j].seq % Window) = v[j].n - v[i].n

Gaps == reboots = 0 => GapsOf(store)

LEMMA GapsHold == TypeOK /\ CountInv => Gaps
<1> SUFFICES ASSUME TypeOK, CountInv, reboots = 0,
                    NEW i \in 1..Len(store), NEW j \in 1..Len(store),
                    store[j].n - store[i].n \in 1..(Window - 1)
             PROVE  Distance(store[i].seq % Window, store[j].seq % Window)
                        = store[j].n - store[i].n
    BY DEF Gaps, GapsOf
<1>1. store[i] \in Reading /\ store[j] \in Reading
    BY DEF TypeOK
<1>2. store[i].n \in Nat /\ store[j].n \in Nat
    BY <1>1 DEF Reading
<1>3. PICK m \in Nat, d \in Nat : m = store[i].n /\ d = store[j].n - store[i].n /\ store[j].n = m + d
    BY <1>2, Windows
<1>4. d >= 1 /\ d < Window
    BY <1>3, Windows
<1>5. store[i].seq % Window = m % Window /\ store[j].seq % Window = (m + d) % Window
    BY <1>3 DEF CountInv, Counts
<1>6. (((m + d) % Window) - (m % Window) + Window) % Window = d
    BY <1>4, Windows, RemainderDifference
<1>7. ((store[j].seq % Window) - (store[i].seq % Window) + Window) % Window = d
    BY <1>5, <1>6
<1>8. Max({1, d}) = d
    BY <1>4, MaxOne
<1> QED
    BY <1>3, <1>7, <1>8 DEF Distance

(* DataDAO.getLossRatio() and data_send(): for any even range of numbers   *)
(* and any losses and reorderings, the difference the server computes from *)
(* two stored numbers is how many readings apart they were taken, if that  *)
(* is less than half the range and no mote rebooted.                       *)
THEOREM GapsExact == Spec => []Gaps
    BY TypeInit, TypeStep, CountInit, CountStep, GapsHold, PTL DEF Spec

----------------------------------------------------------------------------
(* The loop of getLossRatio().                                             *)

Count == [received : Nat, theory : Nat, last : {-1} \cup 0..(Window - 1)]

Round(c, r) == [c EXCEPT ![r.src] = Counted(@, r.seq % Window)]

LEMMA CountedType ==
    ASSUME NEW c \in Count, NEW q \in 0..(Window - 1)
    PROVE  Counted(c, q) \in Count
<1>1. c.last >= 0 => c.last \in 0..(Window - 1)
    BY DEF Count
<1>2. c.last >= 0 => Distance(c.last, q) \in Nat
    BY <1>1, DistanceType
<1> QED
    BY <1>2 DEF Counted, Count

LEMMA RoundType ==
    ASSUME NEW c \in [Sender -> Count], NEW r \in Reading
    PROVE  Round(c, r) \in [Sender -> Count]
BY CountedType, ReadingNumber DEF Round

(* The loop does what it says, round after round.                          *)
LEMMA LoopRounds ==
    ASSUME NEW v \in Seq(Reading)
    PROVE  /\ Loop(v)[0] = [s \in Sender |-> NewCount]
           /\ \A i \in 0..Len(v) : Loop(v)[i] \in [Sender -> Count]
           /\ \A i \in 1..Len(v) : Loop(v)[i] = Round(Loop(v)[i - 1], v[i])
<1> DEFINE S == [Sender -> Count]
           a == [s \in Sender |-> NewCount]
           step == [p \in Nat \X S |-> IF p[1] \in 1..Len(v) THEN Round(p[2], v[p[1]]) ELSE p[2]]
           Body(f) == [i \in 0..Len(v) |->
                         IF i = 0 THEN [s \in Sender |-> NewCount]
                         ELSE [f[i - 1] EXCEPT ![v[i].src] = Counted(@, v[i].seq % Window)]]
<1>1. a \in S
    BY DEF NewCount, Count
<1>2. step \in [Nat \X S -> S]
    <2> SUFFICES ASSUME NEW p \in Nat \X S
                 PROVE  (IF p[1] \in 1..Len(v) THEN Round(p[2], v[p[1]]) ELSE p[2]) \in S
        OBVIOUS
    <2>1. p[2] \in S
        OBVIOUS
    <2>2. p[1] \in 1..Len(v) => v[p[1]] \in Reading
        OBVIOUS
    <2> QED
        BY <2>1, <2>2, RoundType
<1> HIDE DEF S, a, step, Body
<1>3. PICK f \in [Nat -> S] : Iterates(f, a, step)
    BY <1>1, <1>2, Iteration
<1> USE DEF Body
<1> DEFINE g == [i \in 0..Len(v) |-> f[i]]
<1>4. \A i \in 1..Len(v) : f[i] = Round(f[i - 1], v[i])
    <2> SUFFICES ASSUME NEW i \in 1..Len(v) PROVE f[i] = Round(f[i - 1], v[i])
        OBVIOUS
    <2>1. PICK n \in Nat : i = n + 1 /\ i - 1 = n
        OBVIOUS
    <2>2. f[i] = step[<<i, f[n]>>] /\ <<i, f[n]>> \in Nat \X S
        BY <1>3, <2>1 DEF Iterates
    <2> QED
        BY <2>1, <2>2 DEF step
<1>5. g = Body(g)
    <2>1. Len(v) \in Nat
        OBVIOUS
    <2>2. ASSUME NEW i \in 0..Len(v)
          PROVE  f[i] = IF i = 0 THEN [s \in Sender |-> NewCount]
                        ELSE [g[i - 1] EXCEPT ![v[i].src] = Counted(@, v[i].seq % Window)]
        <3>1. CASE i = 0
            BY <1>3, <3>1 DEF a, Iterates
        <3>2. CASE i # 0
            <4>1. i \in 1..Len(v) /\ i - 1 \in 0..Len(v)
                BY <2>1, <3>2
            <4>2. g[i - 1] = f[i - 1]
                BY <4>1
            <4> QED
                BY <1>4, <3>2, <4>1, <4>2 DEF Round
        <3> QED
            BY <3>1, <3>2
    <2> QED
        BY <2>2
<1>6. \E h : h = Body(h)
    BY <1>5
<1>7. Loop(v) = Body(Loop(v))
    BY <1>6, Zenon DEF Loop
<1> HIDE DEF Body, g
<1> DEFINE L == Loop(v)
<1> HIDE DEF L
<1>8. L = Body(L)
    BY <1>7 DEF L
<1>9. L[0] = a
    BY <1>8 DEF Body, a
<1>10. ASSUME NEW i \in 1..Len(v) PROVE L[i] = Round(L[i - 1], v[i])
    <2>1. i \in 0..Len(v) /\ i # 0
        OBVIOUS
    <2>2. Body(L)[i] = [L[i - 1] EXCEPT ![v[i].src] = Counted(@, v[i].seq % Window)]
        BY <2>1 DEF Body
    <2> QED
        BY <1>8, <2>2 DEF Round
<1>11. \A i \in 0..Len(v) : L[i] \in S
    <2> DEFINE P == {i \in Nat : i <= Len(v) => L[i] \in S}
    <2>1. 0 \in P
        BY <1>1, <1>9
    <2>2. ASSUME NEW i \in P PROVE i + 1 \in P
        <3> SUFFICES ASSUME i + 1 <= Len(v) PROVE L[i + 1] \in S
            OBVIOUS
        <3>1. i + 1 \in 1..Len(v) /\ (i + 1) - 1 = i /\ L[i] \in S /\ v[i + 1] \in Reading
            OBVIOUS
        <3> DEFINE c == L[i]
        <3>2. c \in [Sender -> Count]
            BY <3>1 DEF S
        <3>3. L[i + 1] = Round(c, v[i + 1])
            BY <3>1, <1>10
        <3> HIDE DEF c
        <3>4. Round(c, v[i + 1]) \in [Sender -> Count]
            BY <3>1, <3>2, RoundType
        <3> QED
            BY <3>3, <3>4 DEF S
    <2>3. P = Nat
        <3> HIDE DEF P
        <3>1. P \in SUBSET Nat
            BY DEF P
        <3> QED
            BY <2>1, <2>2, <3>1, NatSetInduction
    <2> QED
        BY <2>3
<1> QED
    BY <1>9, <1>10, <1>11 DEF L, S, a

----------------------------------------------------------------------------
(* The ratio is in range: each reading that follows another of its mote    *)
(* adds at least one to those expected.                                    *)

InRange(c) == c.received <= c.theory + 1 /\ (c.last = -1 => c.received = 0)

LEMMA CountedInRange ==
    ASSUME NEW c \in Count, InRange(c), NEW q \in 0..(Window - 1)
    PROVE  InRange(Counted(c, q))
<1>1. c.received \in Nat /\ c.theory \in Nat /\ (c.last = -1 \/ c.last \in 0..(Window - 1))
    BY DEF Count
<1>2. CASE c.last = -1
    BY <1>1, <1>2 DEF InRange, Counted
<1>3. CASE c.last \in 0..(Window - 1)
    <2>1. Distance(c.last, q) \in Nat /\ Distance(c.last, q) >= 1
        BY <1>3, DistanceType
    <2>2. c.last >= 0 /\ q # -1
        BY <1>3, Windows
    <2>3. Counted(c, q).theory = c.theory + Distance(c.last, q)
        BY <2>2 DEF Counted
    <2>4. Counted(c, q).received = c.received + 1 /\ Counted(c, q).last = q
        BY DEF Counted
    <2> QED
        BY <1>1, <2>1, <2>2, <2>3, <2>4 DEF InRange
<1> QED
    BY <1>1, <1>2, <1>3

LEMMA LoopInRange ==
    ASSUME NEW v \in Seq(Reading), NEW s \in Sender
    PROVE  \A i \in 0..Len(v) : InRange(Loop(v)[i][s])
<1> DEFINE L == Loop(v)
           P == {i \in Nat : i <= Len(v) => InRange(L[i][s])}
<1>0. /\ L[0] = [u \in Sender |-> NewCount]
      /\ \A i \in 0..Len(v) : L[i] \in [Sender -> Count]
      /\ \A i \in 1..Len(v) : L[i] = Round(L[i - 1], v[i])
    BY LoopRounds
<1> HIDE DEF L
<1>1. 0 \in P
    BY <1>0 DEF NewCount, InRange
<1>2. ASSUME NEW i \in P PROVE i + 1 \in P
    <2> SUFFICES ASSUME i + 1 <= Len(v) PROVE InRange(L[i + 1][s])
        OBVIOUS
    <2>1. /\ i + 1 \in 1..Len(v) /\ (i + 1) - 1 = i /\ i \in 0..Len(v)
          /\ v[i + 1] \in Reading /\ InRange(L[i][s])
        OBVIOUS
    <2>2. L[i] \in [Sender -> Count] /\ L[i + 1] = Round(L[i], v[i + 1])
        BY <1>0, <2>1
    <2>3. L[i + 1][s] = IF v[i + 1].src = s THEN Counted(L[i][s], v[i + 1].seq % Window)
                        ELSE L[i][s]
        BY <2>2 DEF Round
    <2>4. v[i + 1].seq % Window \in 0..(Window - 1) /\ L[i][s] \in Count
        BY <2>1, <2>2, ReadingNumber
    <2>5. InRange(Counted(L[i][s], v[i + 1].seq % Window))
        BY <2>1, <2>4, CountedInRange
    <2> QED
        BY <2>1, <2>3, <2>5
<1>3. P = Nat
    <2> HIDE DEF P
    <2>1. P \in SUBSET Nat
        BY DEF P
    <2> QED
        BY <1>1, <1>2, <2>1, NatSetInduction
<1> QED
    BY <1>3 DEF L

LEMMA RangeHolds == TypeOK => RatioInRange
<1> SUFFICES ASSUME TypeOK, NEW s \in Sender
             PROVE  LossCount(s).received <= LossCount(s).theory + 1
    BY DEF RatioInRange
<1>1. store \in Seq(Reading) /\ Len(store) \in 0..Len(store)
    BY DEF TypeOK
<1>2. InRange(Loop(store)[Len(store)][s])
    BY <1>1, LoopInRange
<1> QED
    BY <1>2 DEF InRange, LossCount

(* DataDAO.getLossRatio(): whatever is lost, reordered or renumbered by a  *)
(* reboot, and however many readings there are, a mote is never counted    *)
(* with more readings received than expected: no ratio is negative.        *)
THEOREM RatioNeverNegative == Spec => []RatioInRange
    BY TypeInit, TypeStep, RangeHolds, PTL DEF Spec

----------------------------------------------------------------------------
(* The ratio is exact.                                                     *)

(* The first and the last of a set of positions.                           *)
LastOf(A, b) == b \in A /\ \A c \in A : c <= b
FirstOf(A, a) == a \in A /\ \A c \in A : a <= c

(* No gap between two readings that follow each other is too wide.         *)
Near(v, A) == \A a, b \in A : Follow(A, a, b) => v[b].n - v[a].n \in 1..(Window - 1)

(* What the loop has counted of a mote when A are the positions of its     *)
(* readings so far.                                                        *)
CountedUpTo(v, A, c) ==
    \/ A = {} /\ c.last = -1 /\ c.theory = 0
    \/ \E b \in A :
         /\ LastOf(A, b)
         /\ c.last = v[b].seq % Window
         /\ Near(v, A) => \A a \in A : FirstOf(A, a) => c.theory = v[b].n - v[a].n

(* One more reading of the mote.                                           *)
LEMMA CountOne ==
    ASSUME NEW v \in Seq(Reading), GapsOf(v), NEW s \in Sender,
           NEW i \in 1..Len(v), v[i].src = s,
           NEW A \in SUBSET (1..(i - 1)), \A a \in A : v[a].src = s,
           NEW c \in Count, CountedUpTo(v, A, c)
    PROVE  CountedUpTo(v, A \cup {i}, Counted(c, v[i].seq % Window))
<1> DEFINE B == A \cup {i}
           d == Counted(c, v[i].seq % Window)
<1>0. /\ i \in Nat /\ i \in B /\ \A a \in A : a \in Nat /\ a < i /\ a \in 1..Len(v) /\ a \in B
      /\ \A a \in B : a \in A \/ a = i
      /\ \A a \in 1..Len(v) : v[a] \in Reading
    OBVIOUS
<1>1. \A a \in 1..Len(v) : v[a].n \in Nat
    BY <1>0, ReadingNumber
<1>2. d.last = v[i].seq % Window
    BY DEF Counted
<1>3. d.theory = IF c.last >= 0 THEN c.theory + Distance(c.last, v[i].seq % Window) ELSE c.theory
    BY DEF Counted
<1> HIDE DEF B, d
<1>4. LastOf(B, i)
    BY <1>0 DEF LastOf
<1>5. ASSUME Near(v, B), NEW a \in B, FirstOf(B, a)
      PROVE  d.theory = v[i].n - v[a].n
    <2>1. CASE A = {}
        <3>1. c.last = -1 /\ c.theory = 0
            BY <2>1 DEF CountedUpTo
        <3>2. a = i
            BY <1>0, <2>1
        <3> QED
            BY <1>1, <1>3, <3>1, <3>2
    <2>2. CASE A # {}
        <3>1. PICK b \in A :
                /\ LastOf(A, b)
                /\ c.last = v[b].seq % Window
                /\ Near(v, A) => \A e \in A : FirstOf(A, e) => c.theory = v[b].n - v[e].n
            BY <2>2 DEF CountedUpTo
        <3>2. Follow(B, b, i)
            BY <1>0, <3>1 DEF Follow, LastOf
        <3>3. v[i].n - v[b].n \in 1..(Window - 1)
            BY <1>0, <1>5, <3>2 DEF Near
        <3>4. Distance(v[b].seq % Window, v[i].seq % Window) = v[i].n - v[b].n
            BY <1>0, <3>3 DEF GapsOf
        <3>5. Near(v, A)
            <4>1. ASSUME NEW e \in A, NEW f \in A, Follow(A, e, f) PROVE Follow(B, e, f)
                BY <1>0, <4>1 DEF Follow
            <4> QED
                BY <1>0, <1>5, <4>1 DEF Near
        <3>6. a \in A /\ FirstOf(A, a)
            BY <1>0, <1>5 DEF FirstOf
        <3>7. c.theory = v[b].n - v[a].n
            BY <3>1, <3>5, <3>6
        <3>8. c.last >= 0
            BY <1>0, <3>1, ReadingNumber
        <3>9. d.theory = (v[b].n - v[a].n) + (v[i].n - v[b].n)
            BY <1>3, <3>1, <3>4, <3>7, <3>8
        <3>10. v[a].n \in Nat /\ v[b].n \in Nat /\ v[i].n \in Nat
            BY <1>0, <1>1, <3>6
        <3> QED
            BY <3>9, <3>10
    <2> QED
        BY <2>1, <2>2
<1>6. CountedUpTo(v, B, d)
    BY <1>0, <1>2, <1>4, <1>5 DEF CountedUpTo
<1> QED
    BY <1>6 DEF B, d

LEMMA LoopCounts ==
    ASSUME NEW v \in Seq(Reading), GapsOf(v), NEW s \in Sender
    PROVE  \A i \in 0..Len(v) : CountedUpTo(v, From(v, i, s), Loop(v)[i][s])
<1> DEFINE L == Loop(v)
           P == {i \in Nat : i <= Len(v) => CountedUpTo(v, From(v, i, s), L[i][s])}
<1>0. /\ L[0] = [u \in Sender |-> NewCount]
      /\ \A i \in 0..Len(v) : L[i] \in [Sender -> Count]
      /\ \A i \in 1..Len(v) : L[i] = Round(L[i - 1], v[i])
    BY LoopRounds
<1> HIDE DEF L
<1>1. 0 \in P
    <2>1. From(v, 0, s) = {}
        BY DEF From
    <2> QED
        BY <1>0, <2>1 DEF NewCount, CountedUpTo
<1>2. ASSUME NEW i \in P PROVE i + 1 \in P
    <2> SUFFICES ASSUME i + 1 <= Len(v) PROVE CountedUpTo(v, From(v, i + 1, s), L[i + 1][s])
        OBVIOUS
    <2>1. /\ i + 1 \in 1..Len(v) /\ (i + 1) - 1 = i /\ i \in 0..Len(v)
          /\ v[i + 1] \in Reading /\ CountedUpTo(v, From(v, i, s), L[i][s])
        OBVIOUS
    <2>2. L[i] \in [Sender -> Count] /\ L[i + 1] = Round(L[i], v[i + 1])
        BY <1>0, <2>1
    <2>3. L[i + 1][s] = IF v[i + 1].src = s THEN Counted(L[i][s], v[i + 1].seq % Window)
                        ELSE L[i][s]
        BY <2>2 DEF Round
    <2>4. From(v, i + 1, s) = IF v[i + 1].src = s THEN From(v, i, s) \cup {i + 1} ELSE From(v, i, s)
        BY <2>1 DEF From
    <2>5. CASE v[i + 1].src = s
        <3>1. From(v, i, s) \in SUBSET (1..((i + 1) - 1)) /\ \A a \in From(v, i, s) : v[a].src = s
            BY <2>1 DEF From
        <3>2. L[i][s] \in Count
            BY <2>2
        <3>3. CountedUpTo(v, From(v, i, s) \cup {i + 1}, Counted(L[i][s], v[i + 1].seq % Window))
            BY <2>1, <2>5, <3>1, <3>2, CountOne
        <3> QED
            BY <2>3, <2>4, <2>5, <3>3
    <2>6. CASE v[i + 1].src # s
        BY <2>1, <2>3, <2>4, <2>6
    <2> QED
        BY <2>5, <2>6
<1>3. P = Nat
    <2> HIDE DEF P
    <2>1. P \in SUBSET Nat
        BY DEF P
    <2> QED
        BY <1>1, <1>2, <2>1, NatSetInduction
<1> QED
    BY <1>3 DEF L

LEMMA ExactHolds == TypeOK /\ Gaps => Exact
<1> SUFFICES ASSUME TypeOK, Gaps, NEW s \in Sender, reboots = 0,
                    Near(store, From(store, Len(store), s)),
                    NEW a \in From(store, Len(store), s), NEW b \in From(store, Len(store), s),
                    \A c \in From(store, Len(store), s) : a <= c /\ c <= b
             PROVE  LossCount(s).theory = store[b].n - store[a].n
    BY Zenon DEF Exact, Near
<1>1. store \in Seq(Reading) /\ Len(store) \in 0..Len(store) /\ GapsOf(store)
    BY DEF TypeOK, Gaps
<1> DEFINE A == From(store, Len(store), s)
<1>2. CountedUpTo(store, A, LossCount(s))
    BY <1>1, LoopCounts DEF LossCount
<1>3. A \subseteq Nat
    BY DEF From
<1> HIDE DEF A
<1>4. a \in A /\ b \in A /\ (\A c \in A : a <= c /\ c <= b) /\ Near(store, A)
    BY DEF A
<1>5. PICK e \in A : /\ LastOf(A, e)
                     /\ \A f \in A : FirstOf(A, f) => LossCount(s).theory = store[e].n - store[f].n
    BY <1>2, <1>4 DEF CountedUpTo
<1>6. e = b
    <2>1. e \in Nat /\ b \in Nat
        BY <1>3, <1>4
    <2>2. e <= b /\ b <= e
        BY <1>4, <1>5 DEF LastOf
    <2> QED
        BY <2>1, <2>2
<1> QED
    BY <1>4, <1>5, <1>6 DEF FirstOf

(* DataDAO.getLossRatio(), "Wrap to 128", "% 128": for any even range of   *)
(* numbers and any number of motes and readings, the ratio of a mote that  *)
(* did not reboot and whose readings were stored in order counts exactly   *)
(* those missing between the first and the last, as long as fewer than     *)
(* half the range less one are lost in a row.                              *)
THEOREM RatioExact == Spec => []Exact
    BY TypeInit, TypeStep, CountInit, CountStep, GapsHold, ExactHolds, PTL DEF Spec
=============================================================================
