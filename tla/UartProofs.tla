----------------------------- MODULE UartProofs -----------------------------
(***************************************************************************)
(* Proofs about Uart, for rings, FIFOs and calls of any size and any       *)
(* number of tasks: whoever holds the port holds a working one, and no     *)
(* byte is lost uncounted, repeated or reordered on its way in or out.     *)
(***************************************************************************)
EXTENDS Uart, SequenceTheorems, TLAPS

Labels == {"idle", "start", "clear", "mask", "attach", "enable", "disable", "detach",
           "deinit", "close", "rpoll", "rlock", "pop", "rsleep", "wpoll", "wlock", "push",
           "unmask", "wsleep"}

RingType(n) ==
  [buf : [0 .. n - 1 -> Int], head : 0 .. n - 1, tail : 0 .. n - 1, len : Int]

HwType ==
  [on : BOOLEAN, attached : BOOLEAN, enabled : BOOLEAN, rxMask : BOOLEAN, txMask : BOOLEAN,
   rto : BOOLEAN, rxf : Seq(Int), txf : Seq(Int)]

\* Every variable has its type; that the numbers are never negative is for the
\* invariants below.
Shape ==
  /\ OPEN \in BOOLEAN /\ holders \subseteq Tasks /\ irqOff \in BOOLEAN
  /\ pc \in [Tasks -> Labels] /\ async \in [Tasks -> BOOLEAN]
  /\ todo \in [Tasks -> Int] /\ seen \in [Tasks -> Int]
  /\ rx \in RingType(RxRing) /\ tx \in RingType(TxRing) /\ overruns \in Nat
  /\ rxWaker \in Tasks \union {None} /\ txWaker \in Tasks \union {None}
  /\ ready \subseteq Tasks
  /\ hw \in HwType /\ Len(hw.rxf) <= Fifo /\ Len(hw.txf) <= Fifo
  /\ handler \in [at : {"out", "rx", "tx"}, rto : BOOLEAN, tx : BOOLEAN]
  /\ arrived \in Int /\ accounted \in Int /\ last \in Int /\ accepted \in Int /\ sent \in Int

-----------------------------------------------------------------------------
(* Indices of a ring.                                                      *)

LEMMA Remainder ==
  ASSUME NEW n \in Nat \ {0}, NEW q \in Int, NEW r \in 0 .. n - 1
  PROVE  (n * q + r) % n = r
  OBVIOUS

LEMMA InRange == ASSUME NEW n \in Nat \ {0}, NEW a \in Int PROVE a % n \in 0 .. n - 1
  OBVIOUS

LEMMA Wrapped ==
  ASSUME NEW n \in Nat \ {0}, NEW a \in 0 .. 2 * n - 1
  PROVE  a % n = IF a < n THEN a ELSE a - n
  <1>1. CASE a < n
    <2>1. (n * 0 + a) % n = a
      BY <1>1, Remainder
    <2> QED
      BY <1>1, <2>1
  <1>2. CASE a >= n
    <2>1. (n * 1 + (a - n)) % n = a - n
      BY <1>2, Remainder
    <2>2. n * 1 + (a - n) = a
      OBVIOUS
    <2> QED
      BY <1>2, <2>1, <2>2
  <1> QED
    BY <1>1, <1>2

LEMMA PlaceIs ==
  ASSUME NEW n \in Nat \ {0}, NEW b \in 0 .. n - 1, NEW i \in 1 .. n
  PROVE  (b + i - 1) % n = IF b + i - 1 < n THEN b + i - 1 ELSE b + i - 1 - n
  <1> DEFINE a == b + i - 1
  <1>1. a \in 0 .. 2 * n - 1
    OBVIOUS
  <1> HIDE DEF a
  <1>2. a % n = IF a < n THEN a ELSE a - n
    BY <1>1, Wrapped
  <1> QED
    BY <1>2 DEF a

LEMMA DistanceIs ==
  ASSUME NEW n \in Nat \ {0}, NEW a \in 0 .. n - 1, NEW b \in 0 .. n - 1
  PROVE  (a + n - b) % n = IF a >= b THEN a - b ELSE a + n - b
  <1> DEFINE c == a + n - b
  <1>1. c \in 0 .. 2 * n - 1 /\ (c < n <=> a < b) /\ c - n = a - b
    OBVIOUS
  <1>2. c = a + n - b
    OBVIOUS
  <1> HIDE DEF c
  <1>3. c % n = IF c < n THEN c ELSE c - n
    BY <1>1, Wrapped
  <1>4. c % n = IF a >= b THEN a - b ELSE c
    BY <1>1, <1>3
  <1> QED
    BY <1>4 DEF c

LEMMA StepIs ==
  ASSUME NEW n \in Nat \ {0}, NEW b \in 0 .. n - 1, NEW k \in 0 .. n
  PROVE  (b + k) % n = IF b + k < n THEN b + k ELSE b + k - n
  <1> DEFINE a == b + k
  <1>1. a \in 0 .. 2 * n - 1
    OBVIOUS
  <1> HIDE DEF a
  <1>2. a % n = IF a < n THEN a ELSE a - n
    BY <1>1, Wrapped
  <1> QED
    BY <1>2 DEF a

\* An index moved on by k, once around at most.
Onward(n, b, k) == IF b + k < n THEN b + k ELSE b + k - n
Apart(n, a, b) == IF a >= b THEN a - b ELSE a + n - b

LEMMA CountingOn ==
  ASSUME NEW n \in Nat \ {0}, NEW t \in 0 .. n - 1, NEW l \in 0 .. n, NEW k \in 0 .. n - l
  PROVE  /\ Onward(n, Onward(n, t, l), k) = Onward(n, t, l + k)
         /\ Onward(n, t, l + k) \in 0 .. n - 1
         /\ l + k \in 0 .. n
  BY DEF Onward

LEMMA CountingBehind ==
  ASSUME NEW n \in Nat \ {0}, NEW t \in 0 .. n - 1, NEW l \in 0 .. n, NEW k \in 0 .. n - l,
         NEW i \in 1 .. l + k
  PROVE  /\ Onward(n, t, i - 1) \in 0 .. n - 1
         /\ i <= l => ~(Apart(n, Onward(n, t, i - 1), Onward(n, t, l)) < k)
         /\ i > l => Apart(n, Onward(n, t, i - 1), Onward(n, t, l)) = i - l - 1
  BY DEF Onward, Apart

LEMMA CountingOff ==
  ASSUME NEW n \in Nat \ {0}, NEW t \in 0 .. n - 1, NEW l \in 0 .. n, NEW k \in 0 .. l
  PROVE  /\ Onward(n, Onward(n, t, k), l - k) = Onward(n, t, l)
         /\ Onward(n, t, k) \in 0 .. n - 1
         /\ l - k \in 0 .. n
  BY DEF Onward

LEMMA CountingAhead ==
  ASSUME NEW n \in Nat \ {0}, NEW t \in 0 .. n - 1, NEW l \in 0 .. n, NEW k \in 0 .. l,
         NEW i \in 1 .. l - k
  PROVE  /\ Onward(n, Onward(n, t, k), i - 1) = Onward(n, t, i + k - 1)
         /\ Onward(n, t, i + k - 1) \in 0 .. n - 1
         /\ ~(Apart(n, Onward(n, t, i + k - 1), t) < k)
  BY DEF Onward, Apart

LEMMA Indices ==
  ASSUME NEW n \in Nat \ {0}
  PROVE  /\ \A b \in 0 .. n - 1 : \A k \in 0 .. n : (b + k) % n = Onward(n, b, k)
         /\ \A b \in 0 .. n - 1 : \A i \in 1 .. n : (b + i - 1) % n = Onward(n, b, i - 1)
         /\ \A a, b \in 0 .. n - 1 : (a + n - b) % n = Apart(n, a, b)
  <1>1. ASSUME NEW b \in 0 .. n - 1, NEW k \in 0 .. n PROVE (b + k) % n = Onward(n, b, k)
    BY StepIs DEF Onward
  <1>2. ASSUME NEW b \in 0 .. n - 1, NEW i \in 1 .. n
        PROVE  (b + i - 1) % n = Onward(n, b, i - 1)
    <2>1. b + (i - 1) = b + i - 1
      OBVIOUS
    <2> QED
      BY <2>1, PlaceIs DEF Onward
  <1>3. ASSUME NEW a \in 0 .. n - 1, NEW b \in 0 .. n - 1
        PROVE  (a + n - b) % n = Apart(n, a, b)
    BY DistanceIs DEF Apart
  <1> QED
    BY <1>1, <1>2, <1>3

\* Where the i-th byte of a ring is.
Place(r, n, i) == (r.tail + i - 1) % n

LEMMA RingFacts ==
  ASSUME NEW n \in Nat \ {0}, NEW r \in RingType(n), RingOK(r, n)
  PROVE  /\ r.head \in 0 .. n - 1 /\ r.tail \in 0 .. n - 1 /\ r.len \in 0 .. n
         /\ r.buf \in [0 .. n - 1 -> Int]
         /\ r.head = Onward(n, r.tail, r.len)
         /\ \A i \in 1 .. n : Place(r, n, i) = Onward(n, r.tail, i - 1)
  <1>1. /\ r.head \in 0 .. n - 1 /\ r.tail \in 0 .. n - 1 /\ r.len \in 0 .. n
        /\ r.buf \in [0 .. n - 1 -> Int]
    BY DEF RingType, RingOK
  <1>2. r.head = Onward(n, r.tail, r.len)
    BY <1>1, Indices DEF RingOK
  <1>3. \A i \in 1 .. n : Place(r, n, i) = Onward(n, r.tail, i - 1)
    BY <1>1, Indices DEF Place
  <1> QED
    BY <1>1, <1>2, <1>3

\* push adds its bytes behind those that wait, and moves none of them.
LEMMA RingPush ==
  ASSUME NEW n \in Nat \ {0}, NEW r \in RingType(n), RingOK(r, n),
         NEW first \in Int, NEW k \in 0 .. n - r.len,
         NEW s, s = Pushed(r, n, r.len, first, k)
  PROVE  /\ s \in RingType(n) /\ RingOK(s, n) /\ s.len = r.len + k
         /\ \A i \in 1 .. r.len : s.buf[Place(s, n, i)] = r.buf[Place(r, n, i)]
         /\ \A i \in r.len + 1 .. r.len + k : s.buf[Place(s, n, i)] = first + (i - r.len - 1)
  <1>1. /\ r.head \in 0 .. n - 1 /\ r.tail \in 0 .. n - 1 /\ r.len \in 0 .. n
        /\ r.buf \in [0 .. n - 1 -> Int] /\ r.head = Onward(n, r.tail, r.len)
        /\ \A i \in 1 .. n : Place(r, n, i) = Onward(n, r.tail, i - 1)
    BY RingFacts
  <1>2. /\ s.tail = r.tail /\ s.len = r.len + k /\ s.head = (r.head + k) % n
        /\ s.buf = [i \in 0 .. n - 1 |->
                      LET j == (i + n - r.head) % n IN IF j < k THEN first + j ELSE r.buf[i]]
        /\ s = [buf |-> s.buf, head |-> s.head, tail |-> s.tail, len |-> s.len]
    BY DEF Pushed
  <1>3. k \in 0 .. n /\ k \in Nat
    BY <1>1
  <1> PICK l : l = r.len
    OBVIOUS
  <1> PICK t : t = r.tail
    OBVIOUS
  <1>l. t \in 0 .. n - 1 /\ l \in 0 .. n /\ k \in 0 .. n - l
    BY <1>1
  <1>c. /\ Onward(n, Onward(n, r.tail, r.len), k) = Onward(n, r.tail, r.len + k)
        /\ Onward(n, r.tail, r.len + k) \in 0 .. n - 1
        /\ r.len + k \in 0 .. n
    BY <1>l, CountingOn
  <1>4. s.head = Onward(n, s.tail, s.len) /\ s.head \in 0 .. n - 1 /\ s.len \in 0 .. n
    <2>1. s.head = Onward(n, Onward(n, r.tail, r.len), k)
      BY <1>1, <1>2, <1>3, Indices
    <2> QED
      BY <1>1, <1>2, <1>c, <2>1
  <1>5. RingOK(s, n)
    <2>0. s.tail \in 0 .. n - 1 /\ s.len \in 0 .. n
      BY <1>1, <1>2, <1>4
    <2>1. (s.tail + s.len) % n = s.head
      BY <1>4, <2>0, Indices
    <2> QED
      BY <1>1, <1>2, <1>4, <2>1 DEF RingOK
  <1>6. \A p \in 0 .. n - 1 :
          s.buf[p] = IF Apart(n, p, r.head) < k THEN first + Apart(n, p, r.head) ELSE r.buf[p]
    BY <1>1, <1>2, Indices
  <1>7. s.buf \in [0 .. n - 1 -> Int]
    <2>1. \A p \in 0 .. n - 1 : Apart(n, p, r.head) \in Int
      BY <1>1 DEF Apart
    <2>2. \A p \in 0 .. n - 1 : first + Apart(n, p, r.head) \in Int
      BY <2>1
    <2>5. \A p \in 0 .. n - 1 : r.buf[p] \in Int
      BY <1>1
    <2>3. \A p \in 0 .. n - 1 : s.buf[p] \in Int
      BY <1>6, <2>2, <2>5
    <2>4. \E f : s.buf = [i \in 0 .. n - 1 |-> f[i]]
      <3> DEFINE f == [i \in 0 .. n - 1 |->
                         LET j == (i + n - r.head) % n IN IF j < k THEN first + j ELSE r.buf[i]]
      <3>1. s.buf = [i \in 0 .. n - 1 |-> f[i]]
        BY <1>2
      <3> QED
        BY <3>1
    <2> QED
      BY <2>3, <2>4
  <1>8. s \in RingType(n)
    <2>1. s.tail \in 0 .. n - 1 /\ s.len \in Int
      BY <1>1, <1>2, <1>4
    <2> QED
      BY <1>2, <1>4, <1>7, <2>1 DEF RingType
  <1>9. ASSUME NEW i \in 1 .. r.len + k
        PROVE  /\ i <= r.len => s.buf[Place(s, n, i)] = r.buf[Place(r, n, i)]
               /\ i > r.len => s.buf[Place(s, n, i)] = first + (i - r.len - 1)
    <2> DEFINE p == Onward(n, r.tail, i - 1)
    <2>1. i \in 1 .. n
      BY <1>1
    <2>2. Place(s, n, i) = p /\ Place(r, n, i) = p
      BY <1>1, <1>2, <2>1 DEF Place
    <2>3. /\ p \in 0 .. n - 1
          /\ i <= r.len => ~(Apart(n, p, r.head) < k)
          /\ i > r.len => Apart(n, p, r.head) = i - r.len - 1
      <3>1. i \in 1 .. l + k
        OBVIOUS
      <3>2. /\ Onward(n, t, i - 1) \in 0 .. n - 1
            /\ i <= l => ~(Apart(n, Onward(n, t, i - 1), Onward(n, t, l)) < k)
            /\ i > l => Apart(n, Onward(n, t, i - 1), Onward(n, t, l)) = i - l - 1
        BY <1>l, <3>1, CountingBehind
      <3> QED
        BY <1>1, <3>2
    <2> HIDE DEF p
    <2>4. s.buf[p] = IF Apart(n, p, r.head) < k THEN first + Apart(n, p, r.head) ELSE r.buf[p]
      BY <1>6, <2>3
    <2> QED
      BY <1>1, <2>2, <2>3, <2>4
  <1>10. \A i \in 1 .. r.len : s.buf[Place(s, n, i)] = r.buf[Place(r, n, i)]
    BY <1>1, <1>3, <1>9
  <1>11. ASSUME NEW i \in r.len + 1 .. r.len + k
         PROVE  s.buf[Place(s, n, i)] = first + (i - r.len - 1)
    <2>1. i \in 1 .. r.len + k /\ i > r.len
      BY <1>1, <1>3
    <2> QED
      BY <1>9, <2>1
  <1> QED
    BY <1>2, <1>5, <1>8, <1>10, <1>11

\* pop takes the oldest bytes; the others stay, in their order.
LEMMA RingPop ==
  ASSUME NEW n \in Nat \ {0}, NEW r \in RingType(n), RingOK(r, n),
         NEW k \in 0 .. r.len, NEW s, s = Popped(r, n, r.len, k)
  PROVE  /\ s \in RingType(n) /\ RingOK(s, n) /\ s.len = r.len - k
         /\ \A i \in 1 .. r.len - k : s.buf[Place(s, n, i)] = r.buf[Place(r, n, i + k)]
  <1>1. /\ r.head \in 0 .. n - 1 /\ r.tail \in 0 .. n - 1 /\ r.len \in 0 .. n
        /\ r.buf \in [0 .. n - 1 -> Int] /\ r.head = Onward(n, r.tail, r.len)
        /\ \A i \in 1 .. n : Place(r, n, i) = Onward(n, r.tail, i - 1)
    BY RingFacts
  <1>2. /\ s.head = r.head /\ s.len = r.len - k /\ s.tail = (r.tail + k) % n
        /\ s.buf = [i \in 0 .. n - 1 |-> IF (i + n - r.tail) % n < k THEN 0 ELSE r.buf[i]]
        /\ s = [buf |-> s.buf, head |-> s.head, tail |-> s.tail, len |-> s.len]
    BY DEF Popped
  <1>3. k \in 0 .. n /\ k \in Nat
    BY <1>1
  <1>4. /\ s.tail = Onward(n, r.tail, k) /\ s.tail \in 0 .. n - 1 /\ s.len \in 0 .. n
        /\ s.head = Onward(n, s.tail, s.len)
    <2>1. s.tail = Onward(n, r.tail, k)
      BY <1>1, <1>2, <1>3, Indices
    <2> PICK l : l = r.len
      OBVIOUS
    <2> PICK t : t = r.tail
      OBVIOUS
    <2>2. t \in 0 .. n - 1 /\ l \in 0 .. n /\ k \in 0 .. l
      BY <1>1
    <2>3. /\ Onward(n, Onward(n, t, k), l - k) = Onward(n, t, l)
          /\ Onward(n, t, k) \in 0 .. n - 1
          /\ l - k \in 0 .. n
      BY <2>2, CountingOff
    <2> QED
      BY <1>1, <1>2, <2>1, <2>3
  <1>5. RingOK(s, n)
    <2>1. (s.tail + s.len) % n = s.head
      BY <1>4, Indices
    <2> QED
      BY <1>1, <1>2, <1>4, <2>1 DEF RingOK
  <1>6. \A p \in 0 .. n - 1 : s.buf[p] = IF Apart(n, p, r.tail) < k THEN 0 ELSE r.buf[p]
    BY <1>1, <1>2, Indices
  <1>7. s.buf \in [0 .. n - 1 -> Int]
    <2>1. s.buf = [p \in 0 .. n - 1 |-> s.buf[p]]
      BY <1>2
    <2>2. \A p \in 0 .. n - 1 : r.buf[p] \in Int
      BY <1>1
    <2>3. \A p \in 0 .. n - 1 : s.buf[p] \in Int
      BY <1>6, <2>2
    <2> QED
      BY <2>1, <2>3
  <1>8. s \in RingType(n)
    <2>1. s.head \in 0 .. n - 1 /\ s.tail \in 0 .. n - 1 /\ s.len \in Int
      BY <1>1, <1>2, <1>4
    <2> QED
      BY <1>2, <1>7, <2>1 DEF RingType
  <1>9. ASSUME NEW i \in 1 .. r.len - k
        PROVE  s.buf[Place(s, n, i)] = r.buf[Place(r, n, i + k)]
    <2> DEFINE p == Onward(n, r.tail, i + k - 1)
    <2>1. i \in 1 .. n /\ i + k \in 1 .. n
      BY <1>1, <1>3
    <2>2. Place(r, n, i + k) = p
      BY <1>1, <2>1
    <2>3. Place(s, n, i) = Onward(n, s.tail, i - 1)
      BY <1>4, <2>1, Indices DEF Place
    <2>4. /\ p \in 0 .. n - 1 /\ ~(Apart(n, p, r.tail) < k)
          /\ Onward(n, Onward(n, r.tail, k), i - 1) = p
      <3> PICK l : l = r.len
        OBVIOUS
      <3>1. r.tail \in 0 .. n - 1 /\ l \in 0 .. n /\ k \in 0 .. l /\ i \in 1 .. l - k
        BY <1>1
      <3> PICK t : t = r.tail
        OBVIOUS
      <3>2. /\ Onward(n, Onward(n, t, k), i - 1) = Onward(n, t, i + k - 1)
            /\ Onward(n, t, i + k - 1) \in 0 .. n - 1
            /\ ~(Apart(n, Onward(n, t, i + k - 1), t) < k)
        BY <3>1, CountingAhead
      <3> QED
        BY <3>2
    <2> HIDE DEF p
    <2> QED
      BY <1>4, <1>6, <2>2, <2>3, <2>4
  <1> QED
    BY <1>2, <1>5, <1>8, <1>9

-----------------------------------------------------------------------------
(* The inductive invariant of a port that works.                           *)

Calling ==
  {"rpoll", "rlock", "pop", "rsleep", "wpoll", "wlock", "push", "unmask", "wsleep"}

\* A task owns the port from the claim to the close.
Owns(t) == t \in holders \/ pc[t] # "idle"

OwnInv ==
  /\ \A t, u \in Tasks : Owns(t) /\ Owns(u) => t = u
  /\ \A t \in Tasks : Owns(t) => OPEN
  /\ \A t \in Tasks : pc[t] \in Calling => t \in holders
  /\ \A t \in holders : pc[t] \in Calling \union {"idle"}

\* How far the peripheral is brought up while a port is held, opened and dropped.
HwInv ==
  /\ holders # {} => hw.on /\ hw.attached /\ hw.enabled /\ ~hw.rxMask
  /\ \A t \in Tasks :
       /\ pc[t] \in {"clear", "mask", "attach", "enable"} => hw.on
       /\ pc[t] \in {"attach", "enable"} => ~hw.rxMask
       /\ pc[t] = "enable" => hw.attached
       /\ pc[t] = "disable" => hw.rxMask /\ hw.txMask
       /\ pc[t] = "clear" => hw.txf = << >>
  /\ hw.enabled => holders # {} \/ \E t \in Tasks : pc[t] = "disable"

\* Nothing touches a ring behind a guard, and no handler runs for a closed port.
GuardInv ==
  /\ handler.at # "out" => holders # {} /\ ~irqOff
  /\ \A t \in Tasks :
       /\ pc[t] \in {"pop", "push", "unmask"} => irqOff
       /\ pc[t] = "pop" => seen[t] = rx.len
       /\ pc[t] = "push" => seen[t] = tx.len
       /\ todo[t] >= 0

RingInv == RingOK(rx, RxRing) /\ RingOK(tx, TxRing)

\* Transmit is masked only when there is nothing to send, or when a writer is
\* about to unmask it.
MaskInv ==
  /\ \A t \in Tasks : pc[t] \in {"mask", "attach", "enable"} => tx.len = 0
  /\ holders # {} /\ tx.len > 0 /\ hw.txMask
       => \E t \in Tasks : pc[t] = "unmask" /\ seen[t] > 0

LiveInv == Shape /\ OwnInv /\ HwInv /\ GuardInv /\ RingInv /\ MaskInv


LEMMA EmptyRing ==
  ASSUME NEW n \in Nat \ {0}
  PROVE  Ring(n) \in RingType(n) /\ RingOK(Ring(n), n) /\ Ring(n).len = 0
  <1>1. Ring(n) \in RingType(n)
    BY DEF Ring, RingType
  <1>2. (0 + 0) % n = 0
    BY Indices DEF Onward
  <1> QED
    BY <1>1, <1>2 DEF Ring, RingOK

\* Bytes counted against a bound.
LEMMA LeastIs ==
  ASSUME NEW a \in Nat, NEW b \in Nat
  PROVE  Least(a, b) \in 0 .. a /\ Least(a, b) \in 0 .. b
  BY DEF Least

\* A popped ring is a ring, and what is left in it has not moved.
LEMMA ReadPops ==
  ASSUME LiveInv, NEW t \in Tasks, ReadPop(t)
  PROVE  \E k \in 0 .. rx.len :
           /\ k = Least(todo[t], seen[t]) /\ k <= todo[t]
           /\ rx' \in RingType(RxRing) /\ RingOK(rx', RxRing) /\ rx'.len = rx.len - k
           /\ \A i \in 1 .. rx.len - k :
                rx'.buf[Place(rx', RxRing, i)] = rx.buf[Place(rx, RxRing, i + k)]
  <1> PICK k : k = Least(todo[t], seen[t])
    OBVIOUS
  <1>1. /\ rx \in RingType(RxRing) /\ RingOK(rx, RxRing) /\ RxRing \in Nat \ {0}
        /\ seen[t] = rx.len /\ todo[t] \in Nat /\ rx.len \in Nat
    BY UartAssumption DEF LiveInv, Shape, RingInv, RingOK, GuardInv, ReadPop, At
  <1>2. k \in 0 .. rx.len /\ k <= todo[t]
    BY <1>1, LeastIs
  <1>3. rx' = Popped(rx, RxRing, rx.len, k)
    BY <1>1 DEF ReadPop
  <1> PICK s : s = rx'
    OBVIOUS
  <1>4. /\ s \in RingType(RxRing) /\ RingOK(s, RxRing) /\ s.len = rx.len - k
        /\ \A i \in 1 .. rx.len - k :
             s.buf[Place(s, RxRing, i)] = rx.buf[Place(rx, RxRing, i + k)]
    <2>1. s = Popped(rx, RxRing, rx.len, k)
      BY <1>3
    <2> QED
      BY <1>1, <1>2, <2>1, RingPop
  <1> QED
    BY <1>2, <1>4

LEMMA WritePushes ==
  ASSUME LiveInv, NEW t \in Tasks, WritePush(t)
  PROVE  \E k \in 0 .. TxRing - tx.len :
           /\ k = Least(todo[t], TxRing - seen[t]) /\ k <= todo[t]
           /\ tx' \in RingType(TxRing) /\ RingOK(tx', TxRing) /\ tx'.len = tx.len + k
           /\ \A i \in 1 .. tx.len :
                tx'.buf[Place(tx', TxRing, i)] = tx.buf[Place(tx, TxRing, i)]
           /\ \A i \in tx.len + 1 .. tx.len + k :
                tx'.buf[Place(tx', TxRing, i)] = accepted + 1 + (i - tx.len - 1)
  <1> PICK k : k = Least(todo[t], TxRing - seen[t])
    OBVIOUS
  <1>0. /\ tx \in RingType(TxRing) /\ RingOK(tx, TxRing) /\ TxRing \in Nat \ {0}
        /\ seen[t] = tx.len /\ todo[t] \in Nat /\ accepted \in Int
    BY UartAssumption DEF LiveInv, Shape, RingInv, GuardInv, WritePush, At
  <1>1. /\ tx \in RingType(TxRing) /\ RingOK(tx, TxRing) /\ TxRing \in Nat \ {0}
        /\ seen[t] = tx.len /\ todo[t] \in Nat /\ TxRing - seen[t] \in Nat
        /\ accepted + 1 \in Int
    BY <1>0 DEF RingOK
  <1>2. k \in 0 .. TxRing - tx.len /\ k <= todo[t]
    BY <1>1, LeastIs
  <1>3. tx' = Pushed(tx, TxRing, tx.len, accepted + 1, k)
    BY <1>1 DEF WritePush
  <1> PICK s : s = tx'
    OBVIOUS
  <1> PICK f : f = accepted + 1
    OBVIOUS
  <1>4. /\ s \in RingType(TxRing) /\ RingOK(s, TxRing) /\ s.len = tx.len + k
        /\ \A i \in 1 .. tx.len : s.buf[Place(s, TxRing, i)] = tx.buf[Place(tx, TxRing, i)]
        /\ \A i \in tx.len + 1 .. tx.len + k :
             s.buf[Place(s, TxRing, i)] = f + (i - tx.len - 1)
    <2>1. s = Pushed(tx, TxRing, tx.len, f, k) /\ f \in Int
      BY <1>1, <1>3
    <2> QED
      BY <1>1, <1>2, <2>1, RingPush
  <1> QED
    BY <1>2, <1>4

LEMMA Drains ==
  ASSUME LiveInv, Drain, rx.len < RxRing
  PROVE  /\ rx' \in RingType(RxRing) /\ RingOK(rx', RxRing) /\ rx'.len = rx.len + 1
         /\ \A i \in 1 .. rx.len :
              rx'.buf[Place(rx', RxRing, i)] = rx.buf[Place(rx, RxRing, i)]
         /\ \A i \in 1 .. rx.len + 1 :
              i > rx.len => rx'.buf[Place(rx', RxRing, i)] = hw.rxf[1]
  <1>h. hw \in HwType /\ hw.rxf # << >>
    BY DEF LiveInv, Shape, Drain
  <1>0. rx \in RingType(RxRing) /\ RingOK(rx, RxRing) /\ RxRing \in Nat \ {0}
    BY UartAssumption DEF LiveInv, Shape, RingInv
  <1>1. /\ rx \in RingType(RxRing) /\ RingOK(rx, RxRing) /\ RxRing \in Nat \ {0}
        /\ rx.len \in Nat /\ hw.rxf \in Seq(Int) /\ hw.rxf # << >>
    BY <1>0, <1>h DEF HwType, RingOK
  <1>2. Head(hw.rxf) = hw.rxf[1] /\ hw.rxf[1] \in Int
    BY <1>1
  <1>s. PICK s : s = rx'
    OBVIOUS
  <1>f. PICK f : f = hw.rxf[1]
    OBVIOUS
  <1>k. PICK k : k = 1
    OBVIOUS
  <1>3. s = Pushed(rx, RxRing, rx.len, f, k) /\ f \in Int
    BY <1>2, <1>k, <1>s, <1>f DEF Drain
  <1>4. k \in 0 .. RxRing - rx.len
    BY <1>1, <1>k
  <1>5. /\ s \in RingType(RxRing) /\ RingOK(s, RxRing) /\ s.len = rx.len + k
        /\ \A i \in 1 .. rx.len : s.buf[Place(s, RxRing, i)] = rx.buf[Place(rx, RxRing, i)]
        /\ \A i \in rx.len + 1 .. rx.len + k :
             s.buf[Place(s, RxRing, i)] = f + (i - rx.len - 1)
    BY <1>0, <1>3, <1>4, RingPush
  <1>6. ASSUME NEW i \in 1 .. rx.len + 1, i > rx.len
        PROVE  s.buf[Place(s, RxRing, i)] = f
    <2>1. i \in rx.len + 1 .. rx.len + k /\ f + (i - rx.len - 1) = f
      BY <1>1, <1>3, <1>6, <1>k
    <2> QED
      BY <1>5, <2>1
  <1> QED
    BY <1>5, <1>6, <1>k, <1>s, <1>f

LEMMA Feeds ==
  ASSUME LiveInv, Feed
  PROVE  /\ tx' \in RingType(TxRing) /\ RingOK(tx', TxRing) /\ tx'.len = tx.len - 1
         /\ \A i \in 1 .. tx.len - 1 :
              tx'.buf[Place(tx', TxRing, i)] = tx.buf[Place(tx, TxRing, i + 1)]
         /\ tx.buf[tx.tail] = tx.buf[Place(tx, TxRing, 1)] /\ tx.buf[tx.tail] \in Int
  <1>1. /\ tx \in RingType(TxRing) /\ RingOK(tx, TxRing) /\ TxRing \in Nat \ {0}
        /\ tx.len \in Nat /\ tx.len > 0
    <2>1. tx \in RingType(TxRing) /\ RingOK(tx, TxRing)
      BY DEF LiveInv, Shape, RingInv
    <2>2. TxRing \in Nat \ {0}
      BY UartAssumption DEF UartAssumption
    <2>3. tx.len > 0
      BY DEF Feed
    <2>4. tx.len \in 0 .. TxRing
      BY <2>1 DEF RingOK
    <2> QED
      BY <2>1, <2>2, <2>3, <2>4
  <1> PICK s : s = tx'
    OBVIOUS
  <1>2. s = Popped(tx, TxRing, tx.len, 1) /\ 1 \in 0 .. tx.len
    BY <1>1 DEF Feed
  <1>3. /\ s \in RingType(TxRing) /\ RingOK(s, TxRing) /\ s.len = tx.len - 1
        /\ \A i \in 1 .. tx.len - 1 :
             s.buf[Place(s, TxRing, i)] = tx.buf[Place(tx, TxRing, i + 1)]
    BY <1>1, <1>2, RingPop
  <1>4. Place(tx, TxRing, 1) = tx.tail
    <2> PICK b : b = tx.tail
      OBVIOUS
    <2>1. b \in 0 .. TxRing - 1 /\ 1 \in 1 .. TxRing
      BY <1>1 DEF RingOK
    <2>2. Onward(TxRing, b, 0) = b /\ 1 - 1 = 0
      BY <1>1, <2>1 DEF Onward
    <2>3. Place(tx, TxRing, 1) = Onward(TxRing, b, 1 - 1)
      BY <1>1, <2>1, RingFacts
    <2> QED
      BY <2>2, <2>3
  <1>5. tx.buf[tx.tail] \in Int
    BY <1>1 DEF RingType
  <1> QED
    BY <1>3, <1>4, <1>5

ControlType ==
  /\ OPEN \in BOOLEAN /\ holders \subseteq Tasks /\ irqOff \in BOOLEAN
  /\ pc \in [Tasks -> Labels] /\ async \in [Tasks -> BOOLEAN]
  /\ todo \in [Tasks -> Int] /\ seen \in [Tasks -> Int]
  /\ rxWaker \in Tasks \union {None} /\ txWaker \in Tasks \union {None}
  /\ ready \subseteq Tasks

LEMMA ControlTypes ==
  ASSUME LiveInv, [Next]_vars
  PROVE  ControlType'
  <1>0. ControlType /\ rx.len \in Int /\ tx.len \in Int
    BY DEF LiveInv, Shape, RingType, ControlType
  <1>1. ASSUME NEW t \in Tasks,
              OpenClaim(t) \/ OpenFails(t) \/ OpenStart(t) \/ OpenClear(t) \/ OpenMask(t)
                \/ OpenAttach(t) \/ OpenEnable(t)
        PROVE  ControlType'
    BY <1>0, <1>1 DEF OpenClaim, OpenFails, OpenStart, OpenClear, OpenMask, OpenAttach,
        OpenEnable, At, Goto, Return, Labels, ControlType, wakers, Least
  <1>2. ASSUME NEW t \in Tasks,
              DropMask(t) \/ DropDisable(t) \/ DropDetach(t) \/ DropDeinit(t) \/
                DropClose(t)
        PROVE  ControlType'
    BY <1>0, <1>2 DEF DropMask, DropDisable, DropDetach, DropDeinit, DropClose, At, Goto,
        Return, Labels, ControlType, wakers, Least
  <1>3. ASSUME NEW t \in Tasks,
              ReadCall(t) \/ WriteCall(t)
        PROVE  ControlType'
    BY <1>0, <1>3 DEF ReadCall, WriteCall, At, Goto, Return, Labels, ControlType, wakers, Least
  <1>4. ASSUME NEW t \in Tasks,
              ReadRegister(t) \/ ReadLock(t)
        PROVE  ControlType'
    BY <1>0, <1>4 DEF ReadRegister, ReadLock, At, Goto, Return, Labels, ControlType, wakers,
        Least
  <1>5. ASSUME NEW t \in Tasks,
              WriteRegister(t) \/ WriteLock(t)
        PROVE  ControlType'
    BY <1>0, <1>5 DEF WriteRegister, WriteLock, At, Goto, Return, Labels, ControlType, wakers,
        Least
  <1>6. ASSUME NEW t \in Tasks,
              Cancel(t)
        PROVE  ControlType'
    BY <1>0, <1>6 DEF Cancel, At, Goto, Return, Labels, ControlType, wakers, Least
  <1>7. ASSUME NEW t \in Tasks,
              Overruns(t)
        PROVE  ControlType'
    BY <1>0, <1>7 DEF Overruns, At, Goto, Return, Labels, ControlType, wakers, Least
  <1>8. ASSUME NEW t \in Tasks, ReadPop(t) PROVE ControlType'
    <2>1. pc' \in [Tasks -> Labels] /\ todo' \in [Tasks -> Int] /\ async' \in [Tasks -> BOOLEAN]
      <3>1. CASE pc' = [pc EXCEPT ![t] = "rsleep"] /\ UNCHANGED <<async, todo>>
        BY <1>0, <3>1 DEF ControlType, Labels
      <3>2. CASE Return(t)
        BY <1>0, <3>2 DEF ControlType, Labels, Return, Goto
      <3> QED
        BY <1>8, <3>1, <3>2 DEF ReadPop, Goto
    <2>2. /\ seen' = [seen EXCEPT ![t] = 0] /\ irqOff' = FALSE
          /\ UNCHANGED <<OPEN, holders, rxWaker, txWaker, ready>>
      BY <1>8 DEF ReadPop, wakers
    <2>3. seen' \in [Tasks -> Int]
      <3>1. seen \in [Tasks -> Int] /\ seen' = [seen EXCEPT ![t] = 0]
        BY <1>0, <2>2 DEF ControlType
      <3> QED
        BY <3>1
    <2>4. irqOff' \in BOOLEAN
      BY <2>2
    <2> QED
      BY <1>0, <2>1, <2>2, <2>3, <2>4 DEF ControlType
  <1>9. ASSUME NEW t \in Tasks, WritePush(t) PROVE ControlType'
    <2>1. todo[t] \in Int /\ seen[t] \in Int /\ TxRing \in Int
      BY <1>0, UartAssumption DEF ControlType
    <2>2. Least(todo[t], TxRing - seen[t]) \in Int
      BY <2>1 DEF Least
    <2>3. todo[t] - Least(todo[t], TxRing - seen[t]) \in Int
      BY <2>1, <2>2
    <2> QED
      BY <1>0, <1>9, <2>2, <2>3 DEF WritePush, Goto, Labels, ControlType, wakers
  <1>10. ASSUME NEW t \in Tasks, WriteUnmask(t) PROVE ControlType'
    <2>1. pc' \in [Tasks -> Labels] /\ todo' \in [Tasks -> Int] /\ async' \in [Tasks -> BOOLEAN]
      <3>1. CASE Goto(t, IF seen[t] > 0 THEN "wpoll" ELSE "wsleep") /\ UNCHANGED <<async, todo>>
        BY <1>0, <3>1 DEF ControlType, Labels, Goto
      <3>2. CASE Return(t)
        BY <1>0, <3>2 DEF ControlType, Labels, Return, Goto
      <3> QED
        BY <1>10, <3>1, <3>2 DEF WriteUnmask
    <2>2. /\ seen' = [seen EXCEPT ![t] = 0] /\ irqOff' = FALSE
          /\ UNCHANGED <<OPEN, holders, rxWaker, txWaker, ready>>
      BY <1>10 DEF WriteUnmask, wakers
    <2>3. seen' \in [Tasks -> Int]
      <3>1. seen \in [Tasks -> Int] /\ seen' = [seen EXCEPT ![t] = 0]
        BY <1>0, <2>2 DEF ControlType
      <3> QED
        BY <3>1
    <2>4. irqOff' \in BOOLEAN
      BY <2>2
    <2> QED
      BY <1>0, <2>1, <2>2, <2>3, <2>4 DEF ControlType
  <1>11. CASE OnInterrupt \/ Arrive \/ Timeout \/ Shift
    BY <1>0, <1>11 DEF OnInterrupt, Interrupt, Drain, Drained, Feed, Fed, Arrive, Timeout,
        Shift, ControlType, wakers
  <1>12. CASE UNCHANGED vars
    BY <1>0, <1>12 DEF vars, ControlType, wakers
  <1> QED
    BY <1>1, <1>2, <1>3, <1>4, <1>5, <1>6, <1>7, <1>8, <1>9, <1>10, <1>11, <1>12 DEF Next, Begin, Continue

PeripheralType ==
  /\ hw \in HwType /\ Len(hw.rxf) <= Fifo /\ Len(hw.txf) <= Fifo
  /\ handler \in [at : {"out", "rx", "tx"}, rto : BOOLEAN, tx : BOOLEAN]

LEMMA PeripheralTypes ==
  ASSUME LiveInv, [Next]_vars
  PROVE  PeripheralType'
  <1>0. /\ hw \in HwType /\ Len(hw.rxf) <= Fifo /\ Len(hw.txf) <= Fifo /\ Fifo \in Nat
        /\ handler \in [at : {"out", "rx", "tx"}, rto : BOOLEAN, tx : BOOLEAN]
    BY UartAssumption DEF LiveInv, Shape
  <1>f. hw.rxf \in Seq(Int) /\ hw.txf \in Seq(Int)
    BY <1>0 DEF HwType
  <1>1. ASSUME NEW t \in Tasks, OpenStart(t) PROVE PeripheralType'
    <2>1. PICK rxm, txm \in BOOLEAN :
            hw' = [hw EXCEPT !.on = TRUE, !.rxMask = rxm, !.txMask = txm,
                             !.rto = FALSE, !.rxf = << >>, !.txf = << >>]
      BY <1>1 DEF OpenStart
    <2>2. /\ handler' = handler /\ << >> \in Seq(Int) /\ Len(<< >>) <= Fifo
      BY <1>0, <1>1 DEF OpenStart
    <2> QED
      BY <1>0, <2>1, <2>2 DEF PeripheralType, HwType
  <1>2. ASSUME NEW t \in Tasks,
               OpenMask(t) \/ OpenAttach(t) \/ OpenEnable(t) \/ DropMask(t) \/ DropDisable(t)
                 \/ DropDetach(t) \/ DropDeinit(t)
        PROVE  PeripheralType'
    <2>1. CASE OpenMask(t) \/ DropMask(t)
      BY <1>0, <2>1 DEF OpenMask, DropMask, PeripheralType, HwType
    <2>2. CASE OpenAttach(t) \/ DropDetach(t)
      BY <1>0, <2>2 DEF OpenAttach, DropDetach, PeripheralType, HwType
    <2>3. CASE OpenEnable(t) \/ DropDisable(t) \/ DropDeinit(t)
      BY <1>0, <2>3 DEF OpenEnable, DropDisable, DropDeinit, PeripheralType, HwType
    <2> QED
      BY <1>2, <2>1, <2>2, <2>3
  <1>3. ASSUME NEW t \in Tasks, WriteUnmask(t) PROVE PeripheralType'
    <2>1. hw' = [hw EXCEPT !.txMask = @ /\ seen[t] = 0] /\ handler' = handler
      BY <1>3 DEF WriteUnmask
    <2> QED
      BY <1>0, <2>1 DEF PeripheralType, HwType
  <1>4. ASSUME NEW t \in Tasks,
               OpenClaim(t) \/ OpenFails(t) \/ OpenClear(t) \/ DropClose(t) \/ ReadCall(t)
                 \/ ReadRegister(t) \/ ReadLock(t) \/ ReadPop(t) \/ WriteCall(t)
                 \/ WriteRegister(t) \/ WriteLock(t) \/ WritePush(t) \/ Cancel(t) \/ Overruns(t)
        PROVE  PeripheralType'
    <2>1. hw' = hw /\ handler' = handler
      BY <1>4
      DEF OpenClaim, OpenFails, OpenClear, DropClose, ReadCall, ReadRegister, ReadLock, ReadPop,
          WriteCall, WriteRegister, WriteLock, WritePush, Cancel, Overruns
    <2> QED
      BY <1>0, <2>1 DEF PeripheralType
  <1>5. CASE Interrupt
    <2>1. PICK raw \in BOOLEAN :
            handler' = [at |-> IF RxCondition /\ (raw \/ ~hw.rxMask) THEN "rx" ELSE "tx",
                        rto |-> hw.rto, tx |-> TxRoom /\ (raw \/ ~hw.txMask)]
      BY <1>5 DEF Interrupt
    <2>2. hw' = hw /\ hw.rto \in BOOLEAN /\ (TxRoom /\ (raw \/ ~hw.txMask)) \in BOOLEAN
      BY <1>0, <1>5 DEF Interrupt, HwType
    <2> QED
      BY <1>0, <2>1, <2>2 DEF PeripheralType
  <1>6. CASE Drain
    <2>1. hw' = [hw EXCEPT !.rxf = Tail(@)] /\ handler' = handler /\ hw.rxf # << >>
      BY <1>6 DEF Drain
    <2>2. Tail(hw.rxf) \in Seq(Int) /\ Len(Tail(hw.rxf)) <= Fifo
      BY <1>0, <1>f, <2>1
    <2> QED
      BY <1>0, <2>1, <2>2 DEF PeripheralType, HwType
  <1>7. CASE Drained
    <2>1. /\ hw' = [hw EXCEPT !.rto = @ /\ ~handler.rto]
          /\ handler' = [handler EXCEPT !.at = "tx"]
      BY <1>7 DEF Drained
    <2> QED
      BY <1>0, <2>1 DEF PeripheralType, HwType
  <1>8. CASE Feed
    <2>1. /\ hw' = [hw EXCEPT !.txf = Append(@, tx.buf[tx.tail])] /\ handler' = handler
          /\ Len(hw.txf) < Fifo /\ tx.buf[tx.tail] \in Int
      BY <1>8, Feeds DEF Feed, TxRoom
    <2> PICK b : b = tx.buf[tx.tail]
      OBVIOUS
    <2>2. Append(hw.txf, b) \in Seq(Int) /\ Len(Append(hw.txf, b)) <= Fifo
      BY <1>0, <1>f, <2>1
    <2> QED
      BY <1>0, <2>1, <2>2 DEF PeripheralType, HwType
  <1>9. CASE Fed
    <2>1. /\ hw' = [hw EXCEPT !.txMask = @ \/ (handler.tx /\ TxRoom)]
          /\ handler' = [at |-> "out", rto |-> FALSE, tx |-> FALSE]
      BY <1>9 DEF Fed
    <2> QED
      BY <1>0, <2>1 DEF PeripheralType, HwType
  <1>10. CASE Arrive
    <2>1. CASE hw' = [hw EXCEPT !.rxf = Append(@, arrived + 1)] /\ Len(hw.rxf) < Fifo
      <3>1. arrived + 1 \in Int /\ handler' = handler
        BY <1>10 DEF LiveInv, Shape, Arrive
      <3>2. Append(hw.rxf, arrived + 1) \in Seq(Int) /\ Len(Append(hw.rxf, arrived + 1)) <= Fifo
        BY <1>0, <1>f, <2>1, <3>1
      <3> QED
        BY <1>0, <2>1, <3>1, <3>2 DEF PeripheralType, HwType
    <2>2. CASE hw' = hw
      BY <1>0, <1>10, <2>2 DEF Arrive, PeripheralType
    <2> QED
      BY <1>10, <2>1, <2>2 DEF Arrive
  <1>11. CASE Timeout
    BY <1>0, <1>11 DEF Timeout, PeripheralType, HwType
  <1>12. CASE Shift
    <2>1. hw' = [hw EXCEPT !.txf = Tail(@)] /\ handler' = handler /\ hw.txf # << >>
      BY <1>12 DEF Shift
    <2>2. Tail(hw.txf) \in Seq(Int) /\ Len(Tail(hw.txf)) <= Fifo
      BY <1>0, <1>f, <2>1
    <2> QED
      BY <1>0, <2>1, <2>2 DEF PeripheralType, HwType
  <1>13. CASE UNCHANGED vars
    BY <1>0, <1>13 DEF vars, PeripheralType
  <1> QED
    BY <1>1, <1>2, <1>3, <1>4, <1>5, <1>6, <1>7, <1>8, <1>9, <1>10, <1>11, <1>12, <1>13
    DEF Next, Begin, Continue, OnInterrupt


RingsAndCounts ==
  /\ rx \in RingType(RxRing) /\ tx \in RingType(TxRing) /\ RingInv
  /\ overruns \in Nat /\ arrived \in Int /\ accounted \in Int /\ last \in Int
  /\ accepted \in Int /\ sent \in Int

LEMMA RingsAndCountsStay ==
  ASSUME LiveInv, [Next]_vars
  PROVE  RingsAndCounts'
  <1>0. /\ rx \in RingType(RxRing) /\ tx \in RingType(TxRing)
        /\ RingOK(rx, RxRing) /\ RingOK(tx, TxRing)
        /\ overruns \in Nat /\ arrived \in Int /\ accounted \in Int /\ last \in Int
        /\ accepted \in Int /\ sent \in Int
        /\ RxRing \in Nat \ {0} /\ TxRing \in Nat \ {0}
    BY UartAssumption DEF LiveInv, Shape, RingInv
  <1>h. Len(hw.rxf) \in Nat /\ hw.rxf \in Seq(Int) /\ hw.txf \in Seq(Int)
    BY DEF LiveInv, Shape, HwType
  <1>1. ASSUME NEW t \in Tasks, OpenClear(t) PROVE RingsAndCounts'
    <2>1. /\ rx' = Ring(RxRing) /\ tx' = Ring(TxRing) /\ overruns' = 0
          /\ accounted' = arrived - Len(hw.rxf) /\ sent' = accepted
          /\ arrived' = arrived /\ last' = last /\ accepted' = accepted
      BY <1>1 DEF OpenClear
    <2> QED
      BY <1>0, <1>h, <2>1, EmptyRing DEF RingsAndCounts, RingInv
  <1>2. ASSUME NEW t \in Tasks, ReadPop(t) PROVE RingsAndCounts'
    <2>1. PICK k \in 0 .. rx.len :
            k = Least(todo[t], seen[t]) /\ rx' \in RingType(RxRing) /\ RingOK(rx', RxRing)
      BY <1>2, ReadPops
    <2>2. /\ accounted' = accounted + k
          /\ last' = IF k > 0 THEN rx.buf[(rx.tail + k - 1) % RxRing] ELSE last
          /\ UNCHANGED <<tx, overruns, arrived, accepted, sent>>
      BY <1>2, <2>1 DEF ReadPop
    <2>3. k > 0 => rx.buf[(rx.tail + k - 1) % RxRing] \in Int
      <3>1. rx.tail + k - 1 \in Int
        BY <1>0 DEF RingType
      <3>2. (rx.tail + k - 1) % RxRing \in 0 .. RxRing - 1
        BY <1>0, <3>1, InRange
      <3> QED
        BY <1>0, <3>2 DEF RingType
    <2>4. accounted' \in Int /\ last' \in Int
      BY <1>0, <2>2, <2>3
    <2> QED
      BY <1>0, <2>1, <2>2, <2>4 DEF RingsAndCounts, RingInv
  <1>3. ASSUME NEW t \in Tasks, WritePush(t) PROVE RingsAndCounts'
    <2>1. PICK k \in 0 .. TxRing - tx.len :
            /\ k = Least(todo[t], TxRing - seen[t])
            /\ tx' \in RingType(TxRing) /\ RingOK(tx', TxRing)
      BY <1>3, WritePushes
    <2>2. /\ accepted' = accepted + k
          /\ UNCHANGED <<rx, overruns, arrived, accounted, last, sent>>
      BY <1>3, <2>1 DEF WritePush
    <2>3. accepted' \in Int
      BY <1>0, <2>2
    <2> QED
      BY <1>0, <2>1, <2>2, <2>3 DEF RingsAndCounts, RingInv
  <1>4. ASSUME NEW t \in Tasks, Overruns(t) PROVE RingsAndCounts'
    <2>1. /\ overruns' = 0 /\ accounted' = accounted + overruns
          /\ UNCHANGED <<rx, tx, arrived, last, accepted, sent>>
      BY <1>4 DEF Overruns
    <2> QED
      BY <1>0, <2>1 DEF RingsAndCounts, RingInv
  <1>5. ASSUME NEW t \in Tasks,
               OpenClaim(t) \/ OpenFails(t) \/ OpenStart(t) \/ OpenMask(t) \/ OpenAttach(t)
                 \/ OpenEnable(t) \/ DropMask(t) \/ DropDisable(t) \/ DropDetach(t)
                 \/ DropDeinit(t) \/ DropClose(t) \/ ReadCall(t) \/ ReadRegister(t)
                 \/ ReadLock(t) \/ WriteCall(t) \/ WriteRegister(t) \/ WriteLock(t)
                 \/ WriteUnmask(t) \/ Cancel(t)
        PROVE  RingsAndCounts'
    <2>1. UNCHANGED <<rx, tx, overruns, hidden>>
      BY <1>5
      DEF OpenClaim, OpenFails, OpenStart, OpenMask, OpenAttach, OpenEnable, DropMask,
          DropDisable, DropDetach, DropDeinit, DropClose, ReadCall, ReadRegister, ReadLock,
          WriteCall, WriteRegister, WriteLock, WriteUnmask, Cancel
    <2> QED
      BY <1>0, <2>1 DEF RingsAndCounts, RingInv, hidden
  <1>6. CASE Drain
    <2>1. tx' = tx /\ UNCHANGED hidden
      BY <1>6 DEF Drain
    <2>2. CASE rx.len < RxRing
      <3>1. rx' \in RingType(RxRing) /\ RingOK(rx', RxRing) /\ overruns' = overruns
        BY <1>6, <2>2, Drains DEF Drain
      <3> QED
        BY <1>0, <2>1, <3>1 DEF RingsAndCounts, RingInv, hidden
    <2>3. CASE ~(rx.len < RxRing)
      <3>1. rx' = rx /\ overruns' = overruns + 1
        BY <1>6, <2>3 DEF Drain
      <3> QED
        BY <1>0, <2>1, <3>1 DEF RingsAndCounts, RingInv, hidden
    <2> QED
      BY <2>2, <2>3
  <1>7. CASE Feed
    <2>1. tx' \in RingType(TxRing) /\ RingOK(tx', TxRing)
      BY <1>7, Feeds
    <2>2. UNCHANGED <<rx, overruns, hidden>>
      BY <1>7 DEF Feed
    <2> QED
      BY <1>0, <2>1, <2>2 DEF RingsAndCounts, RingInv, hidden
  <1>8. CASE Interrupt \/ Drained \/ Fed \/ Timeout
    <2>1. UNCHANGED <<rx, tx, overruns, hidden>>
      BY <1>8 DEF Interrupt, Drained, Fed, Timeout
    <2> QED
      BY <1>0, <2>1 DEF RingsAndCounts, RingInv, hidden
  <1>9. CASE Arrive
    <2>1. /\ arrived' = arrived + 1 /\ accounted' \in {accounted, accounted + 1}
          /\ UNCHANGED <<rx, tx, overruns, last, accepted, sent>>
      BY <1>9 DEF Arrive
    <2> QED
      BY <1>0, <2>1 DEF RingsAndCounts, RingInv
  <1>10. CASE Shift
    <2>1. /\ sent' = Head(hw.txf) /\ hw.txf # << >>
          /\ UNCHANGED <<rx, tx, overruns, arrived, accounted, last, accepted>>
      BY <1>10 DEF Shift
    <2>2. sent' \in Int
      BY <1>h, <2>1
    <2> QED
      BY <1>0, <2>1, <2>2 DEF RingsAndCounts, RingInv
  <1>11. CASE UNCHANGED vars
    BY <1>0, <1>11 DEF vars, RingsAndCounts, RingInv, hidden
  <1> QED
    BY <1>1, <1>2, <1>3, <1>4, <1>5, <1>6, <1>7, <1>8, <1>9, <1>10, <1>11
    DEF Next, Begin, Continue, OnInterrupt

LEMMA ShapeStays ==
  ASSUME LiveInv, [Next]_vars
  PROVE  Shape' /\ RingInv'
  BY ControlTypes, PeripheralTypes, RingsAndCountsStay
  DEF Shape, ControlType, PeripheralType, RingsAndCounts

LEMMA OneOwner ==
  ASSUME LiveInv, [Next]_vars
  PROVE  OwnInv'
  <1>0. /\ pc \in [Tasks -> Labels] /\ holders \subseteq Tasks
        /\ \A t, u \in Tasks : Owns(t) /\ Owns(u) => t = u
        /\ \A t \in Tasks : Owns(t) => OPEN
        /\ \A t \in Tasks : pc[t] \in Calling => t \in holders
        /\ \A t \in holders : pc[t] \in Calling \union {"idle"}
    BY DEF LiveInv, Shape, OwnInv
  <1>1. ASSUME NEW t \in Tasks, OpenClaim(t) PROVE OwnInv'
    <2>1. /\ ~OPEN /\ OPEN' = TRUE /\ pc' = [pc EXCEPT ![t] = "start"] /\ holders' = holders
      BY <1>1 DEF OpenClaim, Goto
    <2>2. \A u \in Tasks : u \notin holders /\ pc[u] = "idle"
      BY <1>0, <2>1 DEF Owns
    <2> QED
      BY <1>0, <2>1, <2>2 DEF OwnInv, Owns, Calling
  <1>2. ASSUME NEW t \in Tasks, OpenFails(t) \/ DropClose(t) PROVE OwnInv'
    <2>1. /\ pc[t] \in {"start", "close"}
          /\ OPEN' = FALSE /\ pc' = [pc EXCEPT ![t] = "idle"] /\ holders' = holders
      BY <1>2 DEF OpenFails, DropClose, At, Goto
    <2>2. t \notin holders /\ \A u \in Tasks : u # t => u \notin holders /\ pc[u] = "idle"
      BY <1>0, <2>1 DEF Owns, Calling
    <2> QED
      BY <1>0, <2>1, <2>2 DEF OwnInv, Owns, Calling
  <1>3. ASSUME NEW t \in Tasks, OpenEnable(t) PROVE OwnInv'
    <2>1. /\ pc[t] = "enable" /\ OPEN' = OPEN
          /\ pc' = [pc EXCEPT ![t] = "idle"] /\ holders' = holders \union {t}
      BY <1>3 DEF OpenEnable, At, Goto
    <2>2. OPEN /\ \A u \in Tasks : u # t => u \notin holders /\ pc[u] = "idle"
      BY <1>0, <2>1 DEF Owns
    <2> QED
      BY <1>0, <2>1, <2>2 DEF OwnInv, Owns, Calling
  <1>4. ASSUME NEW t \in Tasks, DropMask(t) PROVE OwnInv'
    <2>1. /\ t \in holders /\ OPEN' = OPEN
          /\ pc' = [pc EXCEPT ![t] = "disable"] /\ holders' = holders \ {t}
      BY <1>4 DEF DropMask, Goto
    <2>2. OPEN /\ \A u \in Tasks : u # t => u \notin holders /\ pc[u] = "idle"
      BY <1>0, <2>1 DEF Owns
    <2> QED
      BY <1>0, <2>1, <2>2 DEF OwnInv, Owns, Calling
  <1>5. ASSUME NEW t \in Tasks,
               OpenStart(t) \/ OpenClear(t) \/ OpenMask(t) \/ OpenAttach(t)
                 \/ DropDisable(t) \/ DropDetach(t) \/ DropDeinit(t)
        PROVE  OwnInv'
    <2>1. /\ pc[t] # "idle" /\ pc[t] \notin Calling /\ UNCHANGED <<OPEN, holders>>
          /\ \E l \in Labels \ (Calling \union {"idle"}) : pc' = [pc EXCEPT ![t] = l]
      BY <1>5
      DEF OpenStart, OpenClear, OpenMask, OpenAttach, DropDisable, DropDetach, DropDeinit,
          At, Goto, Calling, Labels
    <2> QED
      BY <1>0, <2>1 DEF OwnInv, Owns
  <1>6. ASSUME NEW t \in Tasks,
               ReadCall(t) \/ ReadRegister(t) \/ ReadLock(t) \/ ReadPop(t) \/ WriteCall(t)
                 \/ WriteRegister(t) \/ WriteLock(t) \/ WritePush(t) \/ WriteUnmask(t)
                 \/ Cancel(t) \/ Overruns(t)
        PROVE  OwnInv'
    <2>1. t \in holders
      BY <1>0, <1>6
      DEF ReadCall, ReadRegister, ReadLock, ReadPop, WriteCall, WriteRegister, WriteLock,
          WritePush, WriteUnmask, Cancel, Overruns, At, Calling
    <2>2. /\ UNCHANGED <<OPEN, holders>>
          /\ \E l \in Calling \union {"idle"} : pc' = [pc EXCEPT ![t] = l]
      <3>1. UNCHANGED <<OPEN, holders>>
        BY <1>6
        DEF ReadCall, ReadRegister, ReadLock, ReadPop, WriteCall, WriteRegister, WriteLock,
            WritePush, WriteUnmask, Cancel, Overruns
      <3>2. \E l \in Calling \union {"idle"} : Goto(t, l) \/ pc' = pc
        BY <1>6
        DEF ReadCall, ReadRegister, ReadLock, ReadPop, WriteCall, WriteRegister, WriteLock,
            WritePush, WriteUnmask, Cancel, Overruns, Return, Calling
      <3>3. pc[t] \in Calling \union {"idle"} /\ pc = [pc EXCEPT ![t] = pc[t]]
        BY <1>0, <2>1
      <3> QED
        BY <3>1, <3>2, <3>3 DEF Goto
    <2> QED
      BY <1>0, <2>1, <2>2 DEF OwnInv, Owns, Calling
  <1>7. CASE OnInterrupt \/ Arrive \/ Timeout \/ Shift \/ UNCHANGED vars
    <2>1. UNCHANGED <<OPEN, holders, pc>>
      BY <1>7
      DEF OnInterrupt, Interrupt, Drain, Drained, Feed, Fed, Arrive, Timeout, Shift, vars
    <2> QED
      BY <1>0, <2>1 DEF OwnInv, Owns
  <1> QED
    BY <1>1, <1>2, <1>3, <1>4, <1>5, <1>6, <1>7 DEF Next, Begin, Continue

\* Whoever owns the port is the only one.
LEMMA Alone ==
  ASSUME LiveInv, NEW t \in Tasks, Owns(t)
  PROVE  OPEN /\ holders \subseteq {t} /\ \A u \in Tasks \ {t} : pc[u] = "idle"
  BY DEF LiveInv, Shape, OwnInv, Owns

\* In the hands of a handler the port is held, and its owner is in a call or idle.
LEMMA Handling ==
  ASSUME LiveInv, handler.at # "out"
  PROVE  /\ holders # {} /\ ~irqOff
         /\ \A t \in Tasks : pc[t] \in (Calling \ {"pop", "push", "unmask"}) \union {"idle"}
  <1>1. PICK h \in holders : handler.at # "out" /\ ~irqOff
    BY DEF LiveInv, GuardInv
  <1>2. h \in Tasks /\ Owns(h) /\ pc[h] \in Calling \union {"idle"}
    BY <1>1 DEF LiveInv, Shape, OwnInv, Owns
  <1>3. \A t \in Tasks : pc[t] \in Calling \union {"idle"}
    BY <1>2, Alone
  <1>4. \A t \in Tasks : pc[t] \notin {"pop", "push", "unmask"}
    BY <1>1 DEF LiveInv, GuardInv
  <1> QED
    BY <1>1, <1>3, <1>4

LEMMA BroughtUp ==
  ASSUME LiveInv, [Next]_vars
  PROVE  HwInv'
  <1>0. /\ pc \in [Tasks -> Labels] /\ holders \subseteq Tasks /\ hw \in HwType
        /\ pc' \in [Tasks -> Labels]
    BY ControlTypes DEF LiveInv, Shape, ControlType
  <1>i. HwInv /\ OwnInv
    BY DEF LiveInv
  <1> DEFINE Rest(t) == holders \subseteq {t} /\ \A u \in Tasks \ {t} : pc[u] = "idle"
  <1>a. ASSUME NEW t \in Tasks, pc[t] # "idle" PROVE Rest(t)
    BY <1>a, Alone DEF Owns
  <1>1. ASSUME NEW t \in Tasks, OpenClaim(t) PROVE HwInv'
    <2>1. /\ holders = {} /\ \A u \in Tasks : pc[u] = "idle"
      BY <1>0, <1>1, <1>i DEF OpenClaim, OwnInv, Owns
    <2>2. pc' = [pc EXCEPT ![t] = "start"] /\ UNCHANGED <<holders, hw>>
      BY <1>1 DEF OpenClaim, Goto
    <2> QED
      BY <1>0, <1>i, <2>1, <2>2 DEF HwInv
  <1>2. ASSUME NEW t \in Tasks, OpenFails(t) \/ DropClose(t) PROVE HwInv'
    <2>1. /\ pc[t] \in {"start", "close"}
          /\ pc' = [pc EXCEPT ![t] = "idle"] /\ UNCHANGED <<holders, hw>>
      BY <1>2 DEF OpenFails, DropClose, At, Goto
    <2> QED
      BY <1>0, <1>a, <1>i, <2>1 DEF HwInv
  <1>3. ASSUME NEW t \in Tasks, OpenStart(t) PROVE HwInv'
    <2>1. /\ pc[t] = "start" /\ pc' = [pc EXCEPT ![t] = "clear"] /\ holders' = holders
          /\ hw'.on = TRUE /\ hw'.txf = << >> /\ hw'.enabled = hw.enabled
      BY <1>0, <1>3 DEF OpenStart, At, Goto, HwType
    <2>2. holders = {} /\ ~hw.enabled
      BY <1>0, <1>a, <1>i, <2>1 DEF HwInv, OwnInv, Calling
    <2> QED
      BY <1>0, <1>a, <1>i, <2>1, <2>2 DEF HwInv
  <1>4. ASSUME NEW t \in Tasks, OpenClear(t) PROVE HwInv'
    <2>1. /\ pc[t] = "clear" /\ pc' = [pc EXCEPT ![t] = "mask"] /\ UNCHANGED <<holders, hw>>
      BY <1>4 DEF OpenClear, At, Goto
    <2> QED
      BY <1>0, <1>a, <1>i, <2>1 DEF HwInv
  <1>5. ASSUME NEW t \in Tasks, OpenMask(t) PROVE HwInv'
    <2>1. /\ pc[t] = "mask" /\ pc' = [pc EXCEPT ![t] = "attach"] /\ holders' = holders
          /\ hw'.on = hw.on /\ hw'.rxMask = FALSE /\ hw'.enabled = hw.enabled
      BY <1>0, <1>5 DEF OpenMask, At, Goto, HwType
    <2>2. holders = {}
      BY <1>0, <1>a, <1>i, <2>1 DEF OwnInv, Calling
    <2> QED
      BY <1>0, <1>a, <1>i, <2>1, <2>2 DEF HwInv
  <1>6. ASSUME NEW t \in Tasks, OpenAttach(t) PROVE HwInv'
    <2>1. /\ pc[t] = "attach" /\ pc' = [pc EXCEPT ![t] = "enable"] /\ holders' = holders
          /\ hw'.on = hw.on /\ hw'.rxMask = hw.rxMask /\ hw'.enabled = hw.enabled
          /\ hw'.attached = TRUE
      BY <1>0, <1>6 DEF OpenAttach, At, Goto, HwType
    <2>2. holders = {}
      BY <1>0, <1>a, <1>i, <2>1 DEF OwnInv, Calling
    <2> QED
      BY <1>0, <1>a, <1>i, <2>1, <2>2 DEF HwInv
  <1>7. ASSUME NEW t \in Tasks, OpenEnable(t) PROVE HwInv'
    <2>1. /\ pc[t] = "enable" /\ pc' = [pc EXCEPT ![t] = "idle"]
          /\ holders' = holders \union {t}
          /\ hw'.on = hw.on /\ hw'.rxMask = hw.rxMask /\ hw'.attached = hw.attached
          /\ hw'.enabled = TRUE
      BY <1>0, <1>7 DEF OpenEnable, At, Goto, HwType
    <2> QED
      BY <1>0, <1>a, <1>i, <2>1 DEF HwInv
  <1>8. ASSUME NEW t \in Tasks, DropMask(t) PROVE HwInv'
    <2>1. /\ t \in holders /\ pc' = [pc EXCEPT ![t] = "disable"]
          /\ holders' = holders \ {t}
          /\ hw'.rxMask = TRUE /\ hw'.txMask = TRUE
      BY <1>0, <1>8 DEF DropMask, Goto, HwType
    <2>2. Rest(t)
      BY <2>1, Alone DEF Owns
    <2> QED
      BY <1>0, <1>i, <2>1, <2>2 DEF HwInv
  <1>9. ASSUME NEW t \in Tasks, DropDisable(t) PROVE HwInv'
    <2>1. /\ pc[t] = "disable" /\ pc' = [pc EXCEPT ![t] = "detach"] /\ holders' = holders
          /\ hw'.enabled = FALSE
      BY <1>0, <1>9 DEF DropDisable, At, Goto, HwType
    <2>2. holders = {}
      BY <1>0, <1>a, <1>i, <2>1 DEF OwnInv, Calling
    <2> QED
      BY <1>0, <1>a, <1>i, <2>1, <2>2 DEF HwInv
  <1>10. ASSUME NEW t \in Tasks, DropDetach(t) \/ DropDeinit(t) PROVE HwInv'
    <2>1. /\ pc[t] \in {"detach", "deinit"} /\ holders' = holders
          /\ \E l \in {"deinit", "close"} : pc' = [pc EXCEPT ![t] = l]
          /\ hw'.enabled = hw.enabled
      BY <1>0, <1>10 DEF DropDetach, DropDeinit, At, Goto, HwType
    <2>2. holders = {} /\ ~hw.enabled
      BY <1>0, <1>a, <1>i, <2>1 DEF HwInv, OwnInv, Calling
    <2> QED
      BY <1>0, <1>a, <1>i, <2>1, <2>2 DEF HwInv
  <1>11. ASSUME NEW t \in Tasks,
               ReadCall(t) \/ ReadRegister(t) \/ ReadLock(t) \/ ReadPop(t) \/ WriteCall(t)
                 \/ WriteRegister(t) \/ WriteLock(t) \/ WritePush(t) \/ WriteUnmask(t)
                 \/ Cancel(t) \/ Overruns(t)
        PROVE  HwInv'
    <2>1. t \in holders
      BY <1>0, <1>i, <1>11
      DEF ReadCall, ReadRegister, ReadLock, ReadPop, WriteCall, WriteRegister, WriteLock,
          WritePush, WriteUnmask, Cancel, Overruns, At, OwnInv, Calling
    <2>2. /\ holders' = holders /\ hw'.on = hw.on /\ hw'.attached = hw.attached
          /\ hw'.enabled = hw.enabled /\ hw'.rxMask = hw.rxMask
      BY <1>0, <1>11
      DEF ReadCall, ReadRegister, ReadLock, ReadPop, WriteCall, WriteRegister, WriteLock,
          WritePush, WriteUnmask, Cancel, Overruns, HwType
    <2>3. t \in holders' /\ OwnInv'
      BY <2>1, <2>2, OneOwner
    <2>4. \A u \in Tasks : pc'[u] \in Calling \union {"idle"}
      BY <1>0, <2>3 DEF OwnInv, Owns
    <2> QED
      BY <1>i, <2>2, <2>3, <2>4 DEF HwInv, Calling
  <1>12. CASE Drain \/ Drained \/ Feed \/ Fed
    <2>1. handler.at # "out"
      BY <1>12 DEF Drain, Drained, Feed, Fed
    <2>2. /\ UNCHANGED <<holders, pc>> /\ hw'.on = hw.on /\ hw'.attached = hw.attached
          /\ hw'.enabled = hw.enabled /\ hw'.rxMask = hw.rxMask
      BY <1>0, <1>12 DEF Drain, Drained, Feed, Fed, HwType
    <2>3. \A u \in Tasks : pc'[u] \in Calling \union {"idle"}
      BY <2>1, <2>2, Handling
    <2>4. holders # {}
      BY <2>1, Handling
    <2> QED
      BY <1>i, <2>2, <2>3, <2>4 DEF HwInv, Calling
  <1>13. CASE Interrupt \/ Arrive \/ Timeout \/ UNCHANGED vars
    <2>1. /\ UNCHANGED <<holders, pc>> /\ hw'.on = hw.on /\ hw'.attached = hw.attached
          /\ hw'.enabled = hw.enabled /\ hw'.rxMask = hw.rxMask /\ hw'.txMask = hw.txMask
          /\ hw'.txf = hw.txf
      BY <1>0, <1>13 DEF Interrupt, Arrive, Timeout, vars, HwType
    <2> QED
      BY <1>i, <2>1 DEF HwInv
  <1>14. CASE Shift
    <2>1. /\ UNCHANGED <<holders, pc>> /\ hw'.on = hw.on /\ hw'.attached = hw.attached
          /\ hw'.enabled = hw.enabled /\ hw'.rxMask = hw.rxMask /\ hw'.txMask = hw.txMask
          /\ hw.txf # << >>
      BY <1>0, <1>14 DEF Shift, HwType
    <2> QED
      BY <1>i, <2>1 DEF HwInv
  <1> QED
    BY <1>1, <1>2, <1>3, <1>4, <1>5, <1>6, <1>7, <1>8, <1>9, <1>10, <1>11, <1>12, <1>13, <1>14
    DEF Next, Begin, Continue, OnInterrupt

LEMMA Guards ==
  ASSUME LiveInv, [Next]_vars
  PROVE  GuardInv'
  <1>0. /\ pc \in [Tasks -> Labels] /\ todo \in [Tasks -> Int] /\ seen \in [Tasks -> Int]
        /\ holders \subseteq Tasks /\ pc' \in [Tasks -> Labels] /\ GuardInv
        /\ \A t \in Tasks : todo[t] >= 0
    BY ControlTypes DEF LiveInv, Shape, ControlType, GuardInv
  <1> DEFINE Unguarded == \A u \in Tasks : pc'[u] \notin {"pop", "push", "unmask"}
  <1>a. ASSUME NEW t \in Tasks, Owns(t) PROVE \A u \in Tasks \ {t} : pc[u] = "idle"
    BY <1>a, Alone
  <1>h. ASSUME handler' = handler, handler.at = "out", Unguarded,
               \A t \in Tasks : todo'[t] >= 0
        PROVE  GuardInv'
    BY <1>h DEF GuardInv
  <1>1. ASSUME NEW t \in Tasks,
               OpenClaim(t) \/ OpenFails(t) \/ OpenStart(t) \/ OpenClear(t) \/ OpenMask(t)
                 \/ OpenAttach(t) \/ OpenEnable(t) \/ DropMask(t) \/ DropDisable(t)
                 \/ DropDetach(t) \/ DropDeinit(t) \/ DropClose(t)
        PROVE  GuardInv'
    <2>1. /\ handler' = handler /\ handler.at = "out" /\ todo' = todo
          /\ \E l \in Labels \ {"pop", "push", "unmask"} : pc' = [pc EXCEPT ![t] = l]
      BY <1>1
      DEF OpenClaim, OpenFails, OpenStart, OpenClear, OpenMask, OpenAttach, OpenEnable, DropMask,
          DropDisable, DropDetach, DropDeinit, DropClose, At, Goto, Labels
    <2>2. pc[t] # "idle" \/ t \in holders \/ ~OPEN
      BY <1>1
      DEF OpenClaim, OpenFails, OpenStart, OpenClear, OpenMask, OpenAttach, OpenEnable, DropMask,
          DropDisable, DropDetach, DropDeinit, DropClose, At
    <2>3. \A u \in Tasks \ {t} : pc[u] = "idle"
      <3>1. CASE ~OPEN
        BY <3>1 DEF LiveInv, OwnInv, Owns
      <3> QED
        BY <1>a, <2>2, <3>1 DEF Owns
    <2>4. Unguarded
      BY <1>0, <2>1, <2>3
    <2> QED
      BY <1>0, <1>h, <2>1, <2>4
  <1>2. ASSUME NEW t \in Tasks, ReadLock(t) PROVE GuardInv'
    <2>1. /\ handler' = handler /\ handler.at = "out" /\ todo' = todo /\ pc[t] = "rlock"
          /\ pc' = [pc EXCEPT ![t] = "pop"] /\ irqOff' = TRUE
          /\ seen' = [seen EXCEPT ![t] = rx.len] /\ rx' = rx
      BY <1>2 DEF ReadLock, At, Goto
    <2>2. \A u \in Tasks \ {t} : pc'[u] = "idle"
      BY <1>0, <1>a, <2>1 DEF Owns
    <2> QED
      BY <1>0, <2>1, <2>2 DEF GuardInv
  <1>3. ASSUME NEW t \in Tasks, WriteLock(t) PROVE GuardInv'
    <2>1. /\ handler' = handler /\ handler.at = "out" /\ todo' = todo /\ pc[t] = "wlock"
          /\ pc' = [pc EXCEPT ![t] = "push"] /\ irqOff' = TRUE
          /\ seen' = [seen EXCEPT ![t] = tx.len] /\ tx' = tx
      BY <1>3 DEF WriteLock, At, Goto
    <2>2. \A u \in Tasks \ {t} : pc'[u] = "idle"
      BY <1>0, <1>a, <2>1 DEF Owns
    <2> QED
      BY <1>0, <2>1, <2>2 DEF GuardInv
  <1>4. ASSUME NEW t \in Tasks, WritePush(t) PROVE GuardInv'
    <2>1. PICK k \in 0 .. TxRing - tx.len :
            k = Least(todo[t], TxRing - seen[t]) /\ k <= todo[t]
      BY <1>4, WritePushes
    <2>2. /\ handler' = handler /\ handler.at = "out" /\ pc[t] = "push"
          /\ todo' = [todo EXCEPT ![t] = @ - k]
          /\ pc' = [pc EXCEPT ![t] = "unmask"] /\ irqOff' = irqOff
      BY <1>4, <2>1 DEF WritePush, At, Goto
    <2>3. \A u \in Tasks \ {t} : pc'[u] = "idle"
      BY <1>0, <1>a, <2>2 DEF Owns
    <2>4. irqOff'
      BY <1>0, <2>2 DEF GuardInv
    <2>5. \A u \in Tasks : todo'[u] >= 0
      BY <1>0, <2>1, <2>2
    <2> QED
      BY <1>0, <2>2, <2>3, <2>4, <2>5 DEF GuardInv
  <1>5. ASSUME NEW t \in Tasks,
               ReadCall(t) \/ ReadRegister(t) \/ ReadPop(t) \/ WriteCall(t)
                 \/ WriteRegister(t) \/ WriteUnmask(t) \/ Cancel(t) \/ Overruns(t)
        PROVE  GuardInv'
    <2>1. /\ handler' = handler /\ handler.at = "out" /\ Owns(t) /\ pc[t] \in Labels
      BY <1>0, <1>5
      DEF ReadCall, ReadRegister, ReadPop, WriteCall, WriteRegister, WriteUnmask, Cancel,
          Overruns, At, Owns
    <2>2. \E l \in Labels \ {"pop", "push", "unmask"} :
            Goto(t, l) \/ (pc' = pc /\ pc[t] = "idle")
      <3>1. CASE ReadCall(t) \/ WriteCall(t)
        BY <3>1 DEF ReadCall, WriteCall, Labels
      <3>2. CASE ReadRegister(t) \/ WriteRegister(t) \/ Cancel(t) \/ Overruns(t)
        BY <3>2 DEF ReadRegister, WriteRegister, Cancel, Overruns, At, Return, Labels
      <3>3. CASE ReadPop(t) \/ WriteUnmask(t)
        <4>1. Goto(t, "rsleep") \/ Goto(t, "wpoll") \/ Goto(t, "wsleep") \/ Goto(t, "idle")
          BY <3>3 DEF ReadPop, WriteUnmask, Return
        <4> QED
          BY <4>1 DEF Labels
      <3> QED
        BY <1>5, <3>1, <3>2, <3>3
    <2>3. todo' = todo \/ \E k \in Nat : todo' = [todo EXCEPT ![t] = k]
      <3>1. CASE ReadCall(t) \/ WriteCall(t)
        BY <3>1 DEF ReadCall, WriteCall
      <3>2. CASE ~(ReadCall(t) \/ WriteCall(t))
        BY <1>5, <3>2
        DEF ReadRegister, ReadPop, WriteRegister, WriteUnmask, Cancel, Overruns, Return
      <3> QED
        BY <3>1, <3>2
    <2>4. \A u \in Tasks : todo'[u] >= 0
      BY <1>0, <2>3
    <2>5. Unguarded
      BY <1>0, <1>a, <2>1, <2>2 DEF Goto
    <2> QED
      BY <1>h, <2>1, <2>4, <2>5
  <1>6. CASE Interrupt
    <2>1. /\ ~irqOff /\ UNCHANGED <<holders, pc, todo, seen, irqOff, rx, tx>>
      BY <1>6 DEF Interrupt
    <2>2. holders # {}
      BY <1>6 DEF Interrupt, LiveInv, HwInv
    <2> QED
      BY <1>0, <2>1, <2>2 DEF GuardInv
  <1>7. CASE Drain \/ Drained \/ Feed \/ Fed
    <2>1. handler.at # "out"
      BY <1>7 DEF Drain, Drained, Feed, Fed
    <2>2. UNCHANGED <<holders, pc, todo, irqOff>>
      BY <1>7 DEF Drain, Drained, Feed, Fed
    <2>3. Unguarded /\ holders # {} /\ ~irqOff
      BY <2>1, <2>2, Handling
    <2> QED
      BY <1>0, <2>2, <2>3 DEF GuardInv
  <1>8. CASE Arrive \/ Timeout \/ Shift \/ UNCHANGED vars
    <2>1. UNCHANGED <<holders, pc, todo, seen, irqOff, rx, tx, handler>>
      BY <1>8 DEF Arrive, Timeout, Shift, vars
    <2> QED
      BY <1>0, <2>1 DEF GuardInv
  <1> QED
    BY <1>1, <1>2, <1>3, <1>4, <1>5, <1>6, <1>7, <1>8 DEF Next, Begin, Continue, OnInterrupt

LEMMA Masks ==
  ASSUME LiveInv, [Next]_vars
  PROVE  MaskInv'
  <1>0. /\ pc \in [Tasks -> Labels] /\ holders \subseteq Tasks /\ seen \in [Tasks -> Int]
        /\ hw \in HwType /\ pc' \in [Tasks -> Labels] /\ seen' \in [Tasks -> Int]
        /\ tx.len \in Nat
    <2>1. tx.len \in Nat
      BY UartAssumption DEF LiveInv, RingInv, RingOK
    <2> QED
      BY <2>1, ControlTypes DEF LiveInv, Shape, ControlType
  <1>i. MaskInv /\ OwnInv
    BY DEF LiveInv
  <1>o. OwnInv'
    BY OneOwner
  <1> DEFINE Opening == {"mask", "attach", "enable"}
  <1>a. ASSUME NEW t \in Tasks, Owns(t) PROVE \A u \in Tasks \ {t} : pc[u] = "idle"
    BY <1>a, Alone
  <1>n. ASSUME NEW t \in Tasks, t \in holders PROVE \A u \in Tasks : pc[u] \notin Opening
    BY <1>0, <1>i, <1>n DEF OwnInv, Owns, Calling
  <1>1. ASSUME NEW t \in Tasks,
               OpenClaim(t) \/ OpenFails(t) \/ OpenStart(t) \/ OpenClear(t) \/ OpenMask(t)
                 \/ OpenAttach(t) \/ DropDisable(t) \/ DropDetach(t) \/ DropDeinit(t)
                 \/ DropClose(t)
        PROVE  MaskInv'
    <2>1. holders = {} /\ holders' = holders
      <3>1. t \notin holders /\ holders' = holders /\ (~OPEN \/ pc[t] # "idle")
        BY <1>1, <1>i
        DEF OpenClaim, OpenFails, OpenStart, OpenClear, OpenMask, OpenAttach, DropDisable,
            DropDetach, DropDeinit, DropClose, At, OwnInv, Calling
      <3> QED
        BY <1>0, <1>i, <3>1 DEF OwnInv, Owns
    <2>2. \A u \in Tasks : pc'[u] \in Opening => tx'.len = 0
      <3>1. CASE OpenClear(t)
        BY <3>1, UartAssumption, EmptyRing DEF OpenClear
      <3>2. CASE OpenMask(t) \/ OpenAttach(t)
        <4>1. tx' = tx /\ pc[t] \in Opening
          BY <3>2 DEF OpenMask, OpenAttach, At
        <4> QED
          BY <1>i, <4>1 DEF MaskInv
      <3>3. CASE ~(OpenClear(t) \/ OpenMask(t) \/ OpenAttach(t))
        <4>1. tx' = tx /\ \E l \in Labels \ Opening : pc' = [pc EXCEPT ![t] = l]
          BY <1>1, <3>3
          DEF OpenClaim, OpenFails, OpenStart, DropDisable, DropDetach, DropDeinit, DropClose,
              Goto, Labels
        <4> QED
          BY <1>0, <1>i, <4>1 DEF MaskInv
      <3> QED
        BY <3>1, <3>2, <3>3
    <2> QED
      BY <2>1, <2>2 DEF MaskInv
  <1>2. ASSUME NEW t \in Tasks, OpenEnable(t) PROVE MaskInv'
    <2>1. tx' = tx /\ pc[t] = "enable"
      BY <1>2 DEF OpenEnable, At
    <2> QED
      BY <1>i, <2>1 DEF MaskInv
  <1>3. ASSUME NEW t \in Tasks, DropMask(t) PROVE MaskInv'
    <2>1. /\ t \in holders /\ holders' = holders \ {t}
          /\ pc' = [pc EXCEPT ![t] = "disable"]
      BY <1>3 DEF DropMask, Goto
    <2>2. holders' = {}
      BY <2>1, Alone DEF Owns
    <2> QED
      BY <1>0, <1>n, <2>1, <2>2 DEF MaskInv
  <1>4. ASSUME NEW t \in Tasks, WritePush(t) PROVE MaskInv'
    <2>1. PICK k \in 0 .. TxRing - tx.len :
            k = Least(todo[t], TxRing - seen[t]) /\ tx'.len = tx.len + k
      BY <1>4, WritePushes
    <2>2. /\ pc[t] = "push" /\ seen' = [seen EXCEPT ![t] = k] /\ hw' = hw /\ holders' = holders
          /\ pc' = [pc EXCEPT ![t] = "unmask"]
      BY <1>4, <2>1 DEF WritePush, At, Goto
    <2>3. \A u \in Tasks \ {t} : pc[u] = "idle"
      BY <1>a, <2>2 DEF Owns
    <2>4. k > 0 \/ k = 0
      OBVIOUS
    <2>5. CASE k > 0
      <3>1. pc'[t] = "unmask" /\ seen'[t] > 0
        BY <1>0, <2>2, <2>5
      <3> QED
        BY <1>0, <2>2, <2>3, <3>1 DEF MaskInv
    <2>6. CASE k = 0
      <3>1. tx'.len = tx.len
        BY <1>0, <2>1, <2>6
      <3>2. ~(holders # {} /\ tx.len > 0 /\ hw.txMask)
        BY <1>i, <2>2, <2>3 DEF MaskInv
      <3> QED
        BY <1>0, <2>2, <2>3, <3>1, <3>2 DEF MaskInv
    <2> QED
      BY <2>4, <2>5, <2>6
  <1>5. ASSUME NEW t \in Tasks, WriteUnmask(t) PROVE MaskInv'
    <2>1. /\ pc[t] = "unmask" /\ tx' = tx /\ holders' = holders
          /\ \E l \in Labels \ Opening : pc' = [pc EXCEPT ![t] = l]
      BY <1>5 DEF WriteUnmask, At, Return, Goto, Labels
    <2>2. hw'.txMask <=> hw.txMask /\ seen[t] = 0
      BY <1>0, <1>5 DEF WriteUnmask, HwType
    <2>3. \A u \in Tasks \ {t} : pc[u] = "idle"
      BY <1>a, <2>1 DEF Owns
    <2>4. ~(holders' # {} /\ tx'.len > 0 /\ hw'.txMask)
      BY <1>i, <2>1, <2>2, <2>3 DEF MaskInv
    <2> QED
      BY <1>0, <2>1, <2>3, <2>4 DEF MaskInv
  <1>6. ASSUME NEW t \in Tasks,
               ReadCall(t) \/ ReadRegister(t) \/ ReadLock(t) \/ ReadPop(t) \/ WriteCall(t)
                 \/ WriteRegister(t) \/ WriteLock(t) \/ Cancel(t) \/ Overruns(t)
        PROVE  MaskInv'
    <2>1. t \in holders /\ pc[t] # "unmask"
      BY <1>i, <1>6
      DEF ReadCall, ReadRegister, ReadLock, ReadPop, WriteCall, WriteRegister, WriteLock,
          Cancel, Overruns, At, OwnInv, Calling
    <2>2. UNCHANGED <<tx, holders, hw>>
      BY <1>6
      DEF ReadCall, ReadRegister, ReadLock, ReadPop, WriteCall, WriteRegister, WriteLock,
          Cancel, Overruns
    <2>3. ~(holders # {} /\ tx.len > 0 /\ hw.txMask)
      BY <1>a, <1>i, <2>1 DEF MaskInv, Owns
    <2>4. \A u \in Tasks : pc'[u] \notin Opening
      BY <1>0, <1>o, <2>1, <2>2 DEF OwnInv, Owns, Calling
    <2> QED
      BY <2>2, <2>3, <2>4 DEF MaskInv
  <1>7. CASE Feed
    <2>1. /\ handler.at # "out" /\ tx'.len = tx.len - 1 /\ UNCHANGED <<pc, seen, holders>>
          /\ hw'.txMask = hw.txMask
      BY <1>0, <1>7, Feeds DEF Feed, HwType
    <2>2. \A u \in Tasks : pc[u] \notin Opening \union {"unmask"}
      BY <2>1, Handling DEF Calling
    <2> QED
      BY <1>0, <1>i, <2>1, <2>2 DEF MaskInv
  <1>8. CASE Fed
    <2>1. /\ handler.at # "out" /\ UNCHANGED <<pc, seen, holders, tx>>
          /\ hw'.txMask => hw.txMask \/ ~(tx.len > 0)
      BY <1>0, <1>8 DEF Fed, HwType
    <2> QED
      BY <1>i, <2>1 DEF MaskInv
  <1>9. CASE Interrupt \/ Drain \/ Drained \/ Arrive \/ Timeout \/ Shift \/ UNCHANGED vars
    <2>1. UNCHANGED <<pc, seen, holders, tx>> /\ hw'.txMask = hw.txMask
      BY <1>0, <1>9 DEF Interrupt, Drain, Drained, Arrive, Timeout, Shift, vars, HwType
    <2> QED
      BY <1>i, <2>1 DEF MaskInv
  <1> QED
    BY <1>1, <1>2, <1>3, <1>4, <1>5, <1>6, <1>7, <1>8, <1>9
    DEF Next, Begin, Continue, OnInterrupt

LEMMA LiveInit == Init => LiveInv
  <1>1. SUFFICES ASSUME Init PROVE LiveInv
    OBVIOUS
  <1>2. /\ OPEN = FALSE /\ holders = {} /\ irqOff = FALSE
        /\ pc = [t \in Tasks |-> "idle"] /\ async = [t \in Tasks |-> FALSE]
        /\ todo = [t \in Tasks |-> 0] /\ seen = [t \in Tasks |-> 0]
        /\ rx = Ring(RxRing) /\ tx = Ring(TxRing) /\ overruns = 0
        /\ rxWaker = None /\ txWaker = None /\ ready = {}
        /\ hw = [on |-> FALSE, attached |-> FALSE, enabled |-> FALSE, rxMask |-> TRUE,
                 txMask |-> TRUE, rto |-> FALSE, rxf |-> << >>, txf |-> << >>]
        /\ handler = [at |-> "out", rto |-> FALSE, tx |-> FALSE]
        /\ arrived = 0 /\ accounted = 0 /\ last = 0 /\ accepted = 0 /\ sent = 0
    BY <1>1 DEF Init
  <1>3. RingInv /\ rx \in RingType(RxRing) /\ tx \in RingType(TxRing) /\ tx.len = 0
    BY <1>2, EmptyRing, UartAssumption DEF RingInv
  <1>4. hw \in HwType /\ Len(hw.rxf) <= Fifo /\ Len(hw.txf) <= Fifo
    <2>1. << >> \in Seq(Int) /\ Len(<< >>) <= Fifo
      BY UartAssumption
    <2> QED
      BY <1>2, <2>1 DEF HwType
  <1>5. Shape
    <2>1. /\ pc \in [Tasks -> Labels] /\ async \in [Tasks -> BOOLEAN]
          /\ todo \in [Tasks -> Int] /\ seen \in [Tasks -> Int]
      BY <1>2 DEF Labels
    <2>2. handler \in [at : {"out", "rx", "tx"}, rto : BOOLEAN, tx : BOOLEAN]
      BY <1>2
    <2>3. OPEN \in BOOLEAN /\ irqOff \in BOOLEAN
      BY <1>2
    <2> QED
      BY <1>2, <1>3, <1>4, <2>1, <2>2, <2>3 DEF Shape
  <1>6. OwnInv /\ HwInv /\ GuardInv /\ MaskInv
    BY <1>2, <1>3 DEF OwnInv, HwInv, GuardInv, MaskInv, Owns, Calling
  <1> QED
    BY <1>3, <1>5, <1>6 DEF LiveInv

LEMMA LiveNext ==
  ASSUME LiveInv, [Next]_vars
  PROVE  LiveInv'
  BY ShapeStays, OneOwner, BroughtUp, Guards, Masks DEF LiveInv

\* A task that holds a Uart holds a working one, alone: its handler is attached
\* and enabled, receive is unmasked, and transmit is unmasked whenever bytes wait
\* to be sent and neither a guard nor a handler is about to see to it.
THEOREM PortsWork == Spec => []PortLive
  <1>1. LiveInv => PortLive
    <2> SUFFICES ASSUME LiveInv, NEW t \in holders
                 PROVE  /\ OPEN /\ holders = {t}
                        /\ hw.on /\ hw.attached /\ hw.enabled /\ ~hw.rxMask
                        /\ handler.at = "out" /\ ~irqOff /\ tx.len > 0 => ~hw.txMask
      BY DEF PortLive
    <2>1. OPEN /\ holders = {t}
      <3>1. t \in Tasks /\ Owns(t)
        BY DEF LiveInv, Shape, Owns
      <3> QED
        BY <3>1, Alone
    <2>2. hw.on /\ hw.attached /\ hw.enabled /\ ~hw.rxMask
      BY DEF LiveInv, HwInv
    <2>3. ~irqOff /\ tx.len > 0 => ~hw.txMask
      BY DEF LiveInv, MaskInv, GuardInv
    <2> QED
      BY <2>1, <2>2, <2>3
  <1>2. LiveInv /\ [Next]_vars => LiveInv'
    BY LiveNext
  <1> QED
    BY LiveInit, <1>1, <1>2, PTL DEF Spec

-----------------------------------------------------------------------------
(* The inductive invariant of the bytes on their way in and out.           *)

Byte(r, n, i) == r.buf[Place(r, n, i)]

NotCleared == \A t \in Tasks : pc[t] # "clear"

\* The bytes in the receive ring and those in the FIFO behind it, in one order.
InInv ==
  /\ last <= arrived
  /\ \A i \in 1 .. rx.len : last < Byte(rx, RxRing, i) /\ Byte(rx, RxRing, i) <= arrived
  /\ \A i, j \in 1 .. rx.len : i < j => Byte(rx, RxRing, i) < Byte(rx, RxRing, j)
  /\ \A i \in 1 .. Len(hw.rxf) : last < hw.rxf[i] /\ hw.rxf[i] <= arrived
  /\ \A i, j \in 1 .. Len(hw.rxf) : i < j => hw.rxf[i] < hw.rxf[j]
  /\ \A i \in 1 .. rx.len, j \in 1 .. Len(hw.rxf) : Byte(rx, RxRing, i) < hw.rxf[j]

CountInv == NotCleared => arrived = accounted + overruns + rx.len + Len(hw.rxf)

OutInv ==
  NotCleared =>
    /\ sent + Len(hw.txf) + tx.len = accepted
    /\ \A i \in 1 .. Len(hw.txf) : hw.txf[i] = sent + i
    /\ \A i \in 1 .. tx.len : Byte(tx, TxRing, i) = sent + Len(hw.txf) + i

KeepInv == LiveInv /\ InInv /\ CountInv /\ OutInv

\* A byte that leaves the FIFO is in the ring or counted lost.
LEMMA OneMoves ==
  ASSUME NEW a \in Int, NEW c \in Int, NEW o \in Int, NEW l \in Int, NEW f \in Int,
         a = c + o + l + f
  PROVE  a = c + o + (l + 1) + (f - 1) /\ a = c + (o + 1) + l + (f - 1)
  OBVIOUS

\* A byte's number, from the ring's end and from the last one sent.
LEMMA CountedOn ==
  ASSUME NEW a \in Int, NEW n \in Int, NEW f \in Int, NEW l \in Int, NEW i \in Int,
         n + f + l = a
  PROVE  a + 1 + (i - l - 1) = n + f + i
  OBVIOUS

\* What LiveInv says of the data, and of who may be opening the port.
LEMMA KeepFacts ==
  ASSUME LiveInv
  PROVE  /\ rx \in RingType(RxRing) /\ tx \in RingType(TxRing)
         /\ RxRing \in Nat \ {0} /\ TxRing \in Nat \ {0}
         /\ rx.len \in 0 .. RxRing /\ tx.len \in 0 .. TxRing
         /\ hw.rxf \in Seq(Int) /\ hw.txf \in Seq(Int)
         /\ Len(hw.rxf) \in Nat /\ Len(hw.txf) \in Nat
         /\ overruns \in Nat /\ arrived \in Int /\ accounted \in Int /\ last \in Int
         /\ accepted \in Int /\ sent \in Int
         /\ pc \in [Tasks -> Labels]
  <1>1. /\ rx \in RingType(RxRing) /\ tx \in RingType(TxRing) /\ hw \in HwType
        /\ RxRing \in Nat \ {0} /\ TxRing \in Nat \ {0}
        /\ rx.len \in 0 .. RxRing /\ tx.len \in 0 .. TxRing
    BY UartAssumption DEF LiveInv, Shape, RingInv, RingOK
  <1>2. /\ hw.rxf \in Seq(Int) /\ hw.txf \in Seq(Int)
    BY <1>1 DEF HwType
  <1>3. /\ overruns \in Nat /\ arrived \in Int /\ accounted \in Int /\ last \in Int
        /\ accepted \in Int /\ sent \in Int /\ pc \in [Tasks -> Labels]
    BY DEF LiveInv, Shape
  <1>4. Len(hw.rxf) \in Nat /\ Len(hw.txf) \in Nat
    BY <1>2
  <1> QED
    BY <1>1, <1>2, <1>3, <1>4

LEMMA BytesAreNumbers ==
  ASSUME NEW n \in Nat \ {0}, NEW r \in RingType(n), NEW i \in Int
  PROVE  Byte(r, n, i) \in Int
  <1>1. r.tail + i - 1 \in Int /\ r.buf \in [0 .. n - 1 -> Int]
    BY DEF RingType
  <1>2. Place(r, n, i) \in 0 .. n - 1
    BY <1>1, InRange DEF Place
  <1> QED
    BY <1>1, <1>2 DEF Byte

\* Arriving bytes stay in order.
LEMMA InStays ==
  ASSUME KeepInv, [Next]_vars
  PROVE  InInv'
  <1>0. /\ LiveInv /\ InInv /\ rx.len \in Nat /\ Len(hw.rxf) \in Nat /\ hw.rxf \in Seq(Int)
        /\ hw \in HwType /\ arrived \in Int /\ last \in Int
    BY KeepFacts DEF KeepInv, LiveInv, Shape
  <1>b. /\ \A i \in 1 .. rx.len : Byte(rx, RxRing, i) \in Int
        /\ \A j \in 1 .. Len(hw.rxf) : hw.rxf[j] \in Int
    <2>1. rx \in RingType(RxRing) /\ RxRing \in Nat \ {0}
      BY <1>0, KeepFacts
    <2>2. \A i \in Int : Byte(rx, RxRing, i) \in Int
      BY <2>1, BytesAreNumbers
    <2>3. \A i \in 1 .. rx.len : i \in Int
      BY <1>0
    <2>4. \A i \in 1 .. rx.len : Byte(rx, RxRing, i) \in Int
      BY <2>2, <2>3
    <2>5. \A j \in 1 .. Len(hw.rxf) : hw.rxf[j] \in Int
      BY <1>0
    <2> QED
      BY <2>4, <2>5
  <1>i. /\ last <= arrived
        /\ \A i \in 1 .. rx.len : last < Byte(rx, RxRing, i) /\ Byte(rx, RxRing, i) <= arrived
        /\ \A i, j \in 1 .. rx.len : i < j => Byte(rx, RxRing, i) < Byte(rx, RxRing, j)
        /\ \A i \in 1 .. Len(hw.rxf) : last < hw.rxf[i] /\ hw.rxf[i] <= arrived
        /\ \A i, j \in 1 .. Len(hw.rxf) : i < j => hw.rxf[i] < hw.rxf[j]
        /\ \A i \in 1 .. rx.len, j \in 1 .. Len(hw.rxf) : Byte(rx, RxRing, i) < hw.rxf[j]
    BY <1>0 DEF InInv
  <1>1. ASSUME NEW t \in Tasks, OpenStart(t) PROVE InInv'
    <2>1. hw'.rxf = << >> /\ UNCHANGED <<rx, arrived, last>>
      BY <1>0, <1>1 DEF OpenStart, HwType, hidden
    <2>2. Len(hw'.rxf) = 0
      BY <2>1
    <2>3. \A j \in 1 .. Len(hw'.rxf) : FALSE
      BY <2>2
    <2> QED
      BY <1>0, <2>1, <2>3 DEF InInv, Byte, Place
  <1>2. ASSUME NEW t \in Tasks, OpenClear(t) PROVE InInv'
    <2>1. rx' = Ring(RxRing) /\ UNCHANGED <<hw, arrived, last>>
      BY <1>2 DEF OpenClear
    <2>2. rx'.len = 0
      BY <2>1 DEF Ring
    <2>3. \A i \in 1 .. rx'.len : FALSE
      BY <2>2
    <2> QED
      BY <1>0, <2>1, <2>3 DEF InInv
  <1>3. ASSUME NEW t \in Tasks, ReadPop(t) PROVE InInv'
    <2>1. PICK k \in 0 .. rx.len :
            /\ k = Least(todo[t], seen[t]) /\ rx'.len = rx.len - k
            /\ \A i \in 1 .. rx.len - k :
                 rx'.buf[Place(rx', RxRing, i)] = rx.buf[Place(rx, RxRing, i + k)]
      BY <1>0, <1>3, ReadPops
    <2>2. /\ last' = IF k > 0 THEN Byte(rx, RxRing, k) ELSE last
          /\ UNCHANGED <<hw, arrived>>
      BY <1>3, <2>1 DEF ReadPop, Byte, Place
    <2>3. ASSUME NEW i \in 1 .. rx'.len
          PROVE  \E m \in 1 .. rx.len :
                   m = i + k /\ Byte(rx', RxRing, i) = Byte(rx, RxRing, m)
      <3>1. i + k \in 1 .. rx.len /\ i \in 1 .. rx.len - k
        BY <1>0, <2>1
      <3> QED
        BY <2>1, <3>1 DEF Byte
    <2>4. last' <= arrived /\ last' \in Int
      <3>1. k > 0 => k \in 1 .. rx.len
        BY <1>0
      <3>2. k > 0 => Byte(rx, RxRing, k) <= arrived /\ Byte(rx, RxRing, k) \in Int
        BY <1>b, <1>i, <3>1
      <3> QED
        BY <1>0, <1>i, <2>2, <3>2
    <2>5. \A i \in 1 .. rx'.len : last' < Byte(rx', RxRing, i) /\ Byte(rx', RxRing, i) <= arrived
      <3> TAKE i \in 1 .. rx'.len
      <3>1. PICK m \in 1 .. rx.len : m = i + k /\ Byte(rx', RxRing, i) = Byte(rx, RxRing, m)
        BY <2>3
      <3>2. k > 0 => k \in 1 .. rx.len /\ k < m
        BY <1>0, <3>1
      <3> QED
        BY <1>i, <2>2, <3>1, <3>2
    <2>6. \A i, j \in 1 .. rx'.len : i < j => Byte(rx', RxRing, i) < Byte(rx', RxRing, j)
      <3> TAKE i, j \in 1 .. rx'.len
      <3>1. PICK m \in 1 .. rx.len : m = i + k /\ Byte(rx', RxRing, i) = Byte(rx, RxRing, m)
        BY <2>3
      <3>2. PICK o \in 1 .. rx.len : o = j + k /\ Byte(rx', RxRing, j) = Byte(rx, RxRing, o)
        BY <2>3
      <3>3. i < j => m < o
        BY <2>1, <3>1, <3>2
      <3> QED
        BY <1>i, <3>1, <3>2, <3>3
    <2>7. \A j \in 1 .. Len(hw.rxf) : last' < hw.rxf[j]
      <3>1. k > 0 => k \in 1 .. rx.len
        BY <1>0
      <3> QED
        BY <1>i, <2>2, <3>1
    <2>8. \A i \in 1 .. rx'.len, j \in 1 .. Len(hw.rxf) : Byte(rx', RxRing, i) < hw.rxf[j]
      BY <1>i, <2>3
    <2> QED
      BY <1>i, <2>2, <2>4, <2>5, <2>6, <2>7, <2>8 DEF InInv
  <1>4. CASE Drain
    <2>1. hw.rxf # << >> /\ hw'.rxf = Tail(hw.rxf) /\ UNCHANGED <<arrived, last>>
      BY <1>0, <1>4 DEF Drain, HwType, hidden
    <2>2. /\ Len(hw'.rxf) = Len(hw.rxf) - 1 /\ 1 \in 1 .. Len(hw.rxf)
          /\ \A j \in 1 .. Len(hw'.rxf) :
               hw'.rxf[j] = hw.rxf[j + 1] /\ j + 1 \in 2 .. Len(hw.rxf)
      BY <1>0, <2>1
    <2>3. CASE rx' = rx
      BY <1>0, <1>b, <2>1, <2>2, <2>3 DEF InInv, Byte, Place
    <2>4. CASE rx.len < RxRing
      <3>1. /\ rx'.len = rx.len + 1
            /\ \A i \in 1 .. rx.len : Byte(rx', RxRing, i) = Byte(rx, RxRing, i)
            /\ \A i \in 1 .. rx.len + 1 : i > rx.len => Byte(rx', RxRing, i) = hw.rxf[1]
        BY <1>0, <1>4, <2>4, Drains DEF Byte
      <3>2. \A i \in 1 .. rx'.len :
              \/ i \in 1 .. rx.len /\ Byte(rx', RxRing, i) = Byte(rx, RxRing, i)
              \/ i = rx.len + 1 /\ Byte(rx', RxRing, i) = hw.rxf[1]
        BY <1>0, <3>1
      <3>3. \A i \in 1 .. rx'.len :
              last < Byte(rx', RxRing, i) /\ Byte(rx', RxRing, i) <= arrived
        BY <1>i, <2>2, <3>2
      <3>4. \A i, j \in 1 .. rx'.len : i < j => Byte(rx', RxRing, i) < Byte(rx', RxRing, j)
        <4> TAKE i, j \in 1 .. rx'.len
        <4>1. i < j => i \in 1 .. rx.len /\ Byte(rx', RxRing, i) = Byte(rx, RxRing, i)
          BY <1>0, <3>1
        <4>2. j \in 1 .. rx.len => Byte(rx', RxRing, j) = Byte(rx, RxRing, j)
          BY <3>1
        <4>3. j \notin 1 .. rx.len => Byte(rx', RxRing, j) = hw.rxf[1]
          BY <3>2
        <4> QED
          BY <1>i, <2>2, <4>1, <4>2, <4>3
      <3>t. \A j \in 1 .. Len(hw'.rxf) :
              \E o \in 1 .. Len(hw.rxf) : o = j + 1 /\ hw'.rxf[j] = hw.rxf[o]
        BY <1>0, <2>2
      <3>5. \A j \in 1 .. Len(hw'.rxf) : last < hw'.rxf[j] /\ hw'.rxf[j] <= arrived
        <4> TAKE j \in 1 .. Len(hw'.rxf)
        <4>1. PICK o \in 1 .. Len(hw.rxf) : o = j + 1 /\ hw'.rxf[j] = hw.rxf[o]
          BY <1>0, <2>2
        <4> QED
          BY <1>i, <4>1
      <3>6. \A i, j \in 1 .. Len(hw'.rxf) : i < j => hw'.rxf[i] < hw'.rxf[j]
        <4> TAKE i, j \in 1 .. Len(hw'.rxf)
        <4>1. PICK m \in 1 .. Len(hw.rxf) : m = i + 1 /\ hw'.rxf[i] = hw.rxf[m]
          BY <1>0, <2>2
        <4>2. PICK o \in 1 .. Len(hw.rxf) : o = j + 1 /\ hw'.rxf[j] = hw.rxf[o]
          BY <1>0, <2>2
        <4>3. i < j => m < o
          BY <1>0, <4>1, <4>2
        <4> QED
          BY <1>i, <4>1, <4>2, <4>3
      <3>7. \A i \in 1 .. rx'.len, j \in 1 .. Len(hw'.rxf) : Byte(rx', RxRing, i) < hw'.rxf[j]
        <4> TAKE i \in 1 .. rx'.len, j \in 1 .. Len(hw'.rxf)
        <4>1. PICK o \in 1 .. Len(hw.rxf) : o = j + 1 /\ hw'.rxf[j] = hw.rxf[o]
          BY <3>t
        <4>2. 1 < o
          BY <1>0, <2>2, <4>1
        <4> QED
          BY <1>b, <1>i, <2>2, <3>2, <4>1, <4>2
      <3> QED
        BY <1>i, <2>1, <3>3, <3>4, <3>5, <3>6, <3>7 DEF InInv
    <2> QED
      BY <1>4, <2>3, <2>4 DEF Drain
  <1>5. CASE Arrive
    <2>1. arrived' = arrived + 1 /\ UNCHANGED <<rx, last>>
      BY <1>5 DEF Arrive
    <2>2. CASE hw' = hw
      BY <1>0, <1>b, <2>1, <2>2 DEF InInv, Byte, Place
    <2>3. CASE hw' = [hw EXCEPT !.rxf = Append(@, arrived + 1)]
      <3>1. hw'.rxf = Append(hw.rxf, arrived + 1)
        BY <1>0, <2>3 DEF HwType
      <3>2. /\ Len(hw'.rxf) = Len(hw.rxf) + 1
            /\ \A j \in 1 .. Len(hw'.rxf) :
                 hw'.rxf[j] = IF j <= Len(hw.rxf) THEN hw.rxf[j] ELSE arrived + 1
        BY <1>0, <3>1
      <3>3. \A j \in 1 .. Len(hw'.rxf) :
              \/ j \in 1 .. Len(hw.rxf) /\ hw'.rxf[j] = hw.rxf[j]
              \/ j = Len(hw.rxf) + 1 /\ hw'.rxf[j] = arrived + 1
        BY <1>0, <3>2
      <3>a. \A j \in 1 .. Len(hw.rxf) : hw.rxf[j] <= arrived + 1 /\ hw.rxf[j] < arrived + 1
        BY <1>0, <1>b, <1>i
      <3>b. last < arrived + 1 /\ last <= arrived + 1
        BY <1>0, <1>i
      <3>4. \A j \in 1 .. Len(hw'.rxf) : last < hw'.rxf[j] /\ hw'.rxf[j] <= arrived + 1
        <4> TAKE j \in 1 .. Len(hw'.rxf)
        <4>1. CASE j \in 1 .. Len(hw.rxf)
          BY <1>i, <3>2, <3>3, <3>a, <4>1
        <4>2. CASE j \notin 1 .. Len(hw.rxf)
          <5>1. hw'.rxf[j] = arrived + 1 /\ arrived + 1 <= arrived + 1
            BY <1>0, <3>3, <4>2
          <5> QED
            BY <3>b, <5>1
        <4> QED
          BY <4>1, <4>2
      <3>5. \A i, j \in 1 .. Len(hw'.rxf) : i < j => hw'.rxf[i] < hw'.rxf[j]
        <4> TAKE i, j \in 1 .. Len(hw'.rxf)
        <4>1. i < j => i \in 1 .. Len(hw.rxf)
          BY <1>0, <3>2
        <4>2. i \in 1 .. Len(hw.rxf) => hw'.rxf[i] = hw.rxf[i] /\ hw.rxf[i] < arrived + 1
          BY <1>0, <3>2, <3>a
        <4> QED
          BY <1>i, <3>3, <4>1, <4>2
      <3>6. \A i \in 1 .. rx.len :
              /\ last < Byte(rx, RxRing, i) /\ Byte(rx, RxRing, i) <= arrived + 1
              /\ \A j \in 1 .. Len(hw'.rxf) : Byte(rx, RxRing, i) < hw'.rxf[j]
        <4> TAKE i \in 1 .. rx.len
        <4> PICK b : b = Byte(rx, RxRing, i)
          OBVIOUS
        <4>1. b \in Int /\ b <= arrived /\ last < b
          BY <1>b, <1>i
        <4>2. b < arrived + 1 /\ b <= arrived + 1
          BY <1>0, <4>1
        <4>3. \A j \in 1 .. Len(hw'.rxf) : b < hw'.rxf[j]
          BY <1>i, <3>3, <4>2
        <4> QED
          BY <4>1, <4>2, <4>3
      <3> QED
        BY <1>i, <2>1, <3>4, <3>5, <3>6, <3>b DEF InInv, Byte, Place
    <2> QED
      BY <1>5, <2>2, <2>3 DEF Arrive
  <1>6. ASSUME UNCHANGED <<rx, arrived, last>>, hw'.rxf = hw.rxf PROVE InInv'
    BY <1>0, <1>6 DEF InInv, Byte, Place
  <1>7. ASSUME NEW t \in Tasks,
               OpenClaim(t) \/ OpenFails(t) \/ OpenMask(t) \/ OpenAttach(t) \/ OpenEnable(t)
                 \/ DropMask(t) \/ DropDisable(t) \/ DropDetach(t) \/ DropDeinit(t)
                 \/ DropClose(t) \/ ReadCall(t) \/ ReadRegister(t) \/ ReadLock(t)
                 \/ WriteCall(t) \/ WriteRegister(t) \/ WriteLock(t) \/ WritePush(t)
                 \/ WriteUnmask(t) \/ Cancel(t) \/ Overruns(t)
        PROVE  InInv'
    <2>1. UNCHANGED <<rx, arrived, last>>
      BY <1>7
      DEF OpenClaim, OpenFails, OpenMask, OpenAttach, OpenEnable, DropMask, DropDisable,
          DropDetach, DropDeinit, DropClose, ReadCall, ReadRegister, ReadLock, WriteCall,
          WriteRegister, WriteLock, WritePush, WriteUnmask, Cancel, Overruns, hidden
    <2>2. hw'.rxf = hw.rxf
      BY <1>0, <1>7
      DEF OpenClaim, OpenFails, OpenMask, OpenAttach, OpenEnable, DropMask, DropDisable,
          DropDetach, DropDeinit, DropClose, ReadCall, ReadRegister, ReadLock, WriteCall,
          WriteRegister, WriteLock, WritePush, WriteUnmask, Cancel, Overruns, HwType
    <2> QED
      BY <1>6, <2>1, <2>2
  <1>8. CASE Interrupt \/ Drained \/ Feed \/ Fed \/ Timeout \/ Shift \/ UNCHANGED vars
    <2>1. UNCHANGED <<rx, arrived, last>> /\ hw'.rxf = hw.rxf
      BY <1>0, <1>8 DEF Interrupt, Drained, Feed, Fed, Timeout, Shift, vars, HwType, hidden
    <2> QED
      BY <1>6, <2>1
  <1> QED
    BY <1>1, <1>2, <1>3, <1>4, <1>5, <1>7, <1>8 DEF Next, Begin, Continue, OnInterrupt

\* Only a task that opens the port gets to the point where the rings are cleared.
LEMMA Clearing ==
  ASSUME LiveInv, [Next]_vars, NotCleared'
  PROVE  NotCleared \/ \E t \in Tasks : OpenClear(t)
  <1>0. pc \in [Tasks -> Labels]
    BY DEF LiveInv, Shape
  <1>1. ASSUME NEW t \in Tasks, pc[t] = "clear", ~OpenClear(t) PROVE pc'[t] = "clear"
    <2>1. \A u \in Tasks \ {t} : pc[u] = "idle" /\ u \notin holders
      BY <1>1, Alone DEF Owns
    <2>2. OPEN
      BY <1>1, Alone DEF Owns
    <2>3. ASSUME NEW u \in Tasks, Begin(u) \/ Continue(u) PROVE FALSE
      <3>1. pc[u] # "idle" \/ u \in holders \/ ~OPEN
        BY <2>3
        DEF Begin, Continue, OpenClaim, OpenFails, OpenStart, OpenClear, OpenMask, OpenAttach,
            OpenEnable, DropMask, DropDisable, DropDetach, DropDeinit, DropClose, ReadCall,
            ReadRegister, ReadLock, ReadPop, WriteCall, WriteRegister, WriteLock, WritePush,
            WriteUnmask, Cancel, Overruns, At
      <3>2. u = t /\ t \notin holders
        <4>1. u = t
          BY <2>1, <2>2, <3>1
        <4>2. t \notin holders
          BY <1>1 DEF LiveInv, OwnInv, Calling
        <4> QED
          BY <4>1, <4>2
      <3> QED
        BY <1>1, <2>3, <3>2
        DEF Begin, Continue, OpenClaim, OpenFails, OpenStart, OpenMask, OpenAttach,
            OpenEnable, DropMask, DropDisable, DropDetach, DropDeinit, DropClose, ReadCall,
            ReadRegister, ReadLock, ReadPop, WriteCall, WriteRegister, WriteLock, WritePush,
            WriteUnmask, Cancel, Overruns, At
    <2>4. CASE OnInterrupt \/ Arrive \/ Timeout \/ Shift \/ UNCHANGED vars
      BY <1>1, <2>4
      DEF OnInterrupt, Interrupt, Drain, Drained, Feed, Fed, Arrive, Timeout, Shift, vars
    <2> QED
      BY <2>3, <2>4 DEF Next
  <1> QED
    BY <1>1 DEF NotCleared

\* Every byte off the wire stays accounted for.
LEMMA CountStays ==
  ASSUME KeepInv, [Next]_vars
  PROVE  CountInv'
  <1>0. /\ LiveInv /\ CountInv /\ rx.len \in Nat /\ hw \in HwType
        /\ Len(hw.rxf) \in Nat /\ hw.rxf \in Seq(Int) /\ overruns \in Nat
        /\ arrived \in Int /\ accounted \in Int /\ pc \in [Tasks -> Labels]
    BY KeepFacts DEF KeepInv, LiveInv, Shape
  <1> SUFFICES ASSUME NotCleared'
               PROVE  (arrived = accounted + overruns + rx.len + Len(hw.rxf))'
    BY DEF CountInv
  <1> DEFINE Equal == arrived = accounted + overruns + rx.len + Len(hw.rxf)
  <1> HIDE DEF Equal
  <1>1. ASSUME NEW t \in Tasks, OpenClear(t) PROVE Equal'
    <2>1. /\ rx' = Ring(RxRing) /\ overruns' = 0 /\ hw' = hw /\ arrived' = arrived
          /\ accounted' = arrived - Len(hw.rxf)
      BY <1>1 DEF OpenClear
    <2>2. rx'.len = 0
      BY <2>1 DEF Ring
    <2> QED
      BY <1>0, <2>1, <2>2 DEF Equal
  <1>2. ASSUME NotCleared PROVE Equal'
    <2>0. Equal
      BY <1>0, <1>2 DEF CountInv, Equal
    <2>1. ASSUME NEW t \in Tasks, ReadPop(t) PROVE Equal'
      <3>1. PICK k \in 0 .. rx.len : k = Least(todo[t], seen[t]) /\ rx'.len = rx.len - k
        BY <1>0, <2>1, ReadPops
      <3>2. accounted' = accounted + k /\ UNCHANGED <<overruns, hw, arrived>>
        BY <2>1, <3>1 DEF ReadPop
      <3>3. k \in Int
        BY <1>0
      <3> PICK f : f = Len(hw.rxf)
        OBVIOUS
      <3>4. arrived = accounted + overruns + rx.len + f /\ f \in Int
        BY <1>0, <2>0 DEF Equal
      <3>5. arrived = (accounted + k) + overruns + (rx.len - k) + f
        BY <1>0, <3>3, <3>4
      <3> QED
        BY <3>1, <3>2, <3>5 DEF Equal
    <2>2. ASSUME NEW t \in Tasks, Overruns(t) PROVE Equal'
      <3>1. /\ accounted' = accounted + overruns /\ overruns' = 0
            /\ UNCHANGED <<rx, hw, arrived>>
        BY <2>2 DEF Overruns
      <3> QED
        BY <1>0, <2>0, <3>1 DEF Equal
    <2>3. CASE Drain
      <3>1. /\ hw.rxf # << >> /\ hw'.rxf = Tail(hw.rxf) /\ UNCHANGED <<arrived, accounted>>
        BY <1>0, <2>3 DEF Drain, HwType, hidden
      <3>2. Len(hw'.rxf) = Len(hw.rxf) - 1
        BY <1>0, <3>1
      <3>3. \/ rx'.len = rx.len + 1 /\ overruns' = overruns
            \/ rx' = rx /\ overruns' = overruns + 1
        BY <1>0, <2>3, Drains DEF Drain
      <3> PICK f : f = Len(hw.rxf)
        OBVIOUS
      <3>4. /\ arrived = accounted + overruns + rx.len + f /\ f \in Int
            /\ rx.len \in Int /\ overruns \in Int /\ accounted \in Int
            /\ arrived \in Int
        BY <1>0, <2>0 DEF Equal
      <3> PICK l : l = rx.len
        OBVIOUS
      <3>5. /\ arrived = accounted + overruns + (l + 1) + (f - 1)
            /\ arrived = accounted + (overruns + 1) + l + (f - 1)
        BY <3>4, OneMoves, Z3
      <3>6. Len(hw'.rxf) = f - 1
        BY <3>2
      <3>7. UNCHANGED <<arrived, accounted>>
        BY <3>1
      <3> QED
        BY <3>3, <3>5, <3>6, <3>7 DEF Equal
    <2>4. CASE Arrive
      <3>1. arrived' = arrived + 1 /\ UNCHANGED <<rx, overruns>>
        BY <2>4 DEF Arrive
      <3>2. \/ Len(hw'.rxf) = Len(hw.rxf) + 1 /\ accounted' = accounted
            \/ hw' = hw /\ accounted' = accounted + 1
        <4>1. CASE hw' = [hw EXCEPT !.rxf = Append(@, arrived + 1)] /\ accounted' = accounted
          <5>1. hw'.rxf = Append(hw.rxf, arrived + 1)
            BY <1>0, <4>1 DEF HwType
          <5>2. Len(hw'.rxf) = Len(hw.rxf) + 1
            BY <1>0, <5>1
          <5> QED
            BY <4>1, <5>2
        <4> QED
          BY <2>4, <4>1 DEF Arrive
      <3> PICK f : f = Len(hw.rxf)
        OBVIOUS
      <3>4. /\ arrived = accounted + overruns + rx.len + f /\ f \in Int
            /\ rx.len \in Int /\ overruns \in Int /\ accounted \in Int
        BY <1>0, <2>0 DEF Equal
      <3>5. /\ arrived + 1 = accounted + overruns + rx.len + (f + 1)
            /\ arrived + 1 = (accounted + 1) + overruns + rx.len + f
        BY <3>4
      <3> QED
        BY <3>1, <3>2, <3>5 DEF Equal
    <2>5. ASSUME UNCHANGED <<rx, overruns, arrived, accounted>>, hw'.rxf = hw.rxf PROVE Equal'
      BY <2>0, <2>5 DEF Equal
    <2>6. ASSUME NEW t \in Tasks, OpenStart(t) PROVE Equal'
      BY <1>0, <2>6 DEF OpenStart, Goto, NotCleared
    <2>7. ASSUME NEW t \in Tasks,
                 OpenClaim(t) \/ OpenFails(t) \/ OpenMask(t) \/ OpenAttach(t) \/ OpenEnable(t)
                   \/ DropMask(t) \/ DropDisable(t) \/ DropDetach(t) \/ DropDeinit(t)
                   \/ DropClose(t) \/ ReadCall(t) \/ ReadRegister(t) \/ ReadLock(t)
                   \/ WriteCall(t) \/ WriteRegister(t) \/ WriteLock(t) \/ WritePush(t)
                   \/ WriteUnmask(t) \/ Cancel(t)
          PROVE  Equal'
      <3>1. UNCHANGED <<rx, overruns, arrived, accounted>>
        BY <2>7
        DEF OpenClaim, OpenFails, OpenMask, OpenAttach, OpenEnable, DropMask, DropDisable,
            DropDetach, DropDeinit, DropClose, ReadCall, ReadRegister, ReadLock, WriteCall,
            WriteRegister, WriteLock, WritePush, WriteUnmask, Cancel, hidden
      <3>2. hw'.rxf = hw.rxf
        BY <1>0, <2>7
        DEF OpenClaim, OpenFails, OpenMask, OpenAttach, OpenEnable, DropMask, DropDisable,
            DropDetach, DropDeinit, DropClose, ReadCall, ReadRegister, ReadLock, WriteCall,
            WriteRegister, WriteLock, WritePush, WriteUnmask, Cancel, HwType
      <3> QED
        BY <2>5, <3>1, <3>2
    <2>8. CASE Interrupt \/ Drained \/ Feed \/ Fed \/ Timeout \/ Shift \/ UNCHANGED vars
      <3>1. UNCHANGED <<rx, overruns, arrived, accounted>> /\ hw'.rxf = hw.rxf
        BY <1>0, <2>8 DEF Interrupt, Drained, Feed, Fed, Timeout, Shift, vars, HwType, hidden
      <3> QED
        BY <2>5, <3>1
    <2> QED
      BY <1>1, <2>1, <2>2, <2>3, <2>4, <2>6, <2>7, <2>8 DEF Next, Begin, Continue, OnInterrupt
  <1> QED
    BY <1>0, <1>1, <1>2, Clearing DEF Equal

\* What was accepted and has not left is in the FIFO and the ring, in order.
OutOrder ==
  /\ sent + Len(hw.txf) + tx.len = accepted
  /\ \A i \in 1 .. Len(hw.txf) : hw.txf[i] = sent + i
  /\ \A i \in 1 .. tx.len : Byte(tx, TxRing, i) = sent + Len(hw.txf) + i

LEMMA OutStays ==
  ASSUME KeepInv, [Next]_vars
  PROVE  OutInv'
  <1>0. /\ LiveInv /\ OutInv /\ tx.len \in Nat /\ hw \in HwType
        /\ Len(hw.txf) \in Nat /\ hw.txf \in Seq(Int)
        /\ accepted \in Int /\ sent \in Int /\ pc \in [Tasks -> Labels]
    BY KeepFacts DEF KeepInv, LiveInv, Shape
  <1> SUFFICES ASSUME NotCleared' PROVE OutOrder'
    BY DEF OutInv, OutOrder
  <1>1. ASSUME NEW t \in Tasks, OpenClear(t) PROVE OutOrder'
    <2>1. /\ tx' = Ring(TxRing) /\ sent' = accepted /\ hw' = hw /\ accepted' = accepted
          /\ hw.txf = << >>
      BY <1>0, <1>1 DEF OpenClear, At, LiveInv, HwInv
    <2>2. tx'.len = 0 /\ Len(hw'.txf) = 0
      BY <2>1 DEF Ring
    <2>3. (\A i \in 1 .. tx'.len : FALSE) /\ (\A i \in 1 .. Len(hw'.txf) : FALSE)
      BY <2>2
    <2>4. sent' + Len(hw'.txf) + tx'.len = accepted'
      BY <1>0, <2>1, <2>2
    <2> QED
      BY <2>3, <2>4 DEF OutOrder
  <1>2. CASE NotCleared
    <2>0. /\ sent + Len(hw.txf) + tx.len = accepted
          /\ \A i \in 1 .. Len(hw.txf) : hw.txf[i] = sent + i
          /\ \A i \in 1 .. tx.len : Byte(tx, TxRing, i) = sent + Len(hw.txf) + i
      BY <1>0, <1>2 DEF OutInv
    <2>a. \A i \in Int : accepted + 1 + (i - tx.len - 1) = sent + Len(hw.txf) + i
      <3>1. accepted \in Int /\ sent \in Int /\ Len(hw.txf) \in Int /\ tx.len \in Int
        BY <1>0
      <3>2. sent + Len(hw.txf) + tx.len = accepted
        BY <2>0
      <3> QED
        BY <3>1, <3>2, CountedOn
    <2>1. ASSUME NEW t \in Tasks, WritePush(t) PROVE OutOrder'
      <3>1. PICK k \in 0 .. TxRing - tx.len :
              /\ k = Least(todo[t], TxRing - seen[t]) /\ tx'.len = tx.len + k
              /\ \A i \in 1 .. tx.len : Byte(tx', TxRing, i) = Byte(tx, TxRing, i)
              /\ \A i \in tx.len + 1 .. tx.len + k :
                   Byte(tx', TxRing, i) = accepted + 1 + (i - tx.len - 1)
        BY <1>0, <2>1, WritePushes DEF Byte
      <3>2. accepted' = accepted + k /\ UNCHANGED <<hw, sent>>
        BY <2>1, <3>1 DEF WritePush
      <3>3. k \in Int
        OBVIOUS
      <3>4. ASSUME NEW i \in 1 .. tx'.len
            PROVE  Byte(tx', TxRing, i) = sent + Len(hw.txf) + i
        <4>1. CASE i <= tx.len
          <5>1. i \in 1 .. tx.len
            BY <1>0, <4>1
          <5> QED
            BY <2>0, <3>1, <5>1
        <4>2. CASE ~(i <= tx.len)
          <5>1. i \in tx.len + 1 .. tx.len + k
            BY <1>0, <3>1, <3>3, <4>2
          <5>2. accepted + 1 + (i - tx.len - 1) = sent + Len(hw.txf) + i
            BY <2>a
          <5>3. Byte(tx', TxRing, i) = accepted + 1 + (i - tx.len - 1)
            BY <3>1, <5>1
          <5> QED
            BY <5>2, <5>3
        <4> QED
          BY <4>1, <4>2
      <3>5. sent + Len(hw.txf) + tx'.len = accepted + k
        BY <1>0, <2>0, <3>1, <3>3
      <3> QED
        BY <2>0, <3>2, <3>4, <3>5 DEF OutOrder
    <2>2. CASE Feed
      <3>1. /\ tx'.len = tx.len - 1 /\ tx.len > 0
            /\ \A i \in 1 .. tx.len - 1 : Byte(tx', TxRing, i) = Byte(tx, TxRing, i + 1)
            /\ tx.buf[tx.tail] = Byte(tx, TxRing, 1)
        BY <1>0, <2>2, Feeds DEF Feed, Byte
      <3>2. /\ hw'.txf = Append(hw.txf, tx.buf[tx.tail]) /\ UNCHANGED <<accepted, sent>>
        BY <1>0, <2>2 DEF Feed, HwType, hidden
      <3>3. tx.buf[tx.tail] = sent + Len(hw.txf) + 1 /\ 1 \in 1 .. tx.len
        BY <1>0, <2>0, <3>1
      <3> PICK b : b = tx.buf[tx.tail]
        OBVIOUS
      <3>4. b \in Int
        BY <1>0, <3>3
      <3>5. /\ Len(hw'.txf) = Len(hw.txf) + 1
            /\ \A i \in 1 .. Len(hw'.txf) :
                 hw'.txf[i] = IF i <= Len(hw.txf) THEN hw.txf[i] ELSE b
        BY <1>0, <3>2, <3>4
      <3>6. ASSUME NEW i \in 1 .. Len(hw'.txf) PROVE hw'.txf[i] = sent + i
        <4>1. CASE i <= Len(hw.txf)
          <5>1. i \in 1 .. Len(hw.txf)
            BY <1>0, <4>1
          <5> QED
            BY <2>0, <3>5, <4>1, <5>1
        <4>2. CASE ~(i <= Len(hw.txf))
          <5>1. i = Len(hw.txf) + 1
            BY <1>0, <3>5, <4>2
          <5>2. sent + Len(hw.txf) + 1 = sent + i
            BY <1>0, <5>1
          <5> QED
            BY <3>3, <3>5, <4>2, <5>2
        <4> QED
          BY <4>1, <4>2
      <3>7. ASSUME NEW i \in 1 .. tx'.len
            PROVE  Byte(tx', TxRing, i) = sent + Len(hw'.txf) + i
        <4>1. i \in 1 .. tx.len - 1 /\ i + 1 \in 1 .. tx.len
          BY <1>0, <3>1
        <4>2. sent + Len(hw.txf) + (i + 1) = sent + Len(hw'.txf) + i
          <5>f. PICK f : f = Len(hw.txf)
            OBVIOUS
          <5>1. Len(hw'.txf) = f + 1
            BY <3>5, <5>f
          <5>2. i \in Int /\ f \in Int /\ sent \in Int
            BY <1>0, <5>f
          <5>3. sent + f + (i + 1) = sent + (f + 1) + i
            BY <5>2
          <5> QED
            BY <5>1, <5>3, <5>f
        <4> PICK m : m = i + 1
          OBVIOUS
        <4>3. Byte(tx, TxRing, m) = sent + Len(hw.txf) + m
          BY <2>0, <4>1
        <4> QED
          BY <3>1, <4>1, <4>2, <4>3
      <3>8. sent + Len(hw'.txf) + tx'.len = accepted
        BY <1>0, <2>0, <3>1, <3>5
      <3> QED
        BY <3>2, <3>6, <3>7, <3>8 DEF OutOrder
    <2>3. CASE Shift
      <3>1. /\ hw.txf # << >> /\ hw'.txf = Tail(hw.txf) /\ sent' = Head(hw.txf)
            /\ UNCHANGED <<tx, accepted>>
        BY <1>0, <2>3 DEF Shift, HwType
      <3>2. /\ Len(hw'.txf) = Len(hw.txf) - 1 /\ 1 \in 1 .. Len(hw.txf)
            /\ Head(hw.txf) = hw.txf[1]
            /\ \A i \in 1 .. Len(hw'.txf) :
                 i + 1 \in 1 .. Len(hw.txf) /\ hw'.txf[i] = hw.txf[i + 1]
        BY <1>0, <3>1
      <3>3. sent' = sent + 1
        BY <2>0, <3>1, <3>2
      <3>4. ASSUME NEW i \in 1 .. Len(hw'.txf) PROVE hw'.txf[i] = sent' + i
        <4> PICK m : m = i + 1
          OBVIOUS
        <4>1. hw.txf[m] = sent + m /\ hw'.txf[i] = hw.txf[m]
          BY <2>0, <3>2
        <4>2. sent + m = sent' + i
          BY <1>0, <3>3
        <4> QED
          BY <4>1, <4>2
      <3>5. sent' + Len(hw'.txf) = sent + Len(hw.txf)
        <4>f. PICK f : f = Len(hw.txf)
          OBVIOUS
        <4>1. Len(hw'.txf) = f - 1
          BY <3>2, <4>f
        <4>2. f \in Int /\ sent \in Int
          BY <1>0, <4>f
        <4>3. (sent + 1) + (f - 1) = sent + f
          BY <4>2
        <4> QED
          BY <3>3, <4>1, <4>3, <4>f
      <3> QED
        BY <2>0, <3>1, <3>4, <3>5 DEF OutOrder, Byte, Place
    <2>4. ASSUME UNCHANGED <<tx, accepted, sent>>, hw'.txf = hw.txf PROVE OutOrder'
      BY <2>0, <2>4 DEF OutOrder, Byte, Place
    <2>5. ASSUME NEW t \in Tasks, OpenStart(t) PROVE OutOrder'
      BY <1>0, <2>5 DEF OpenStart, Goto, NotCleared
    <2>6. ASSUME NEW t \in Tasks,
                 OpenClaim(t) \/ OpenFails(t) \/ OpenMask(t) \/ OpenAttach(t) \/ OpenEnable(t)
                   \/ DropMask(t) \/ DropDisable(t) \/ DropDetach(t) \/ DropDeinit(t)
                   \/ DropClose(t) \/ ReadCall(t) \/ ReadRegister(t) \/ ReadLock(t)
                   \/ ReadPop(t) \/ WriteCall(t) \/ WriteRegister(t) \/ WriteLock(t)
                   \/ WriteUnmask(t) \/ Cancel(t) \/ Overruns(t)
          PROVE  OutOrder'
      <3>1. UNCHANGED <<tx, accepted, sent>>
        BY <2>6
        DEF OpenClaim, OpenFails, OpenMask, OpenAttach, OpenEnable, DropMask, DropDisable,
            DropDetach, DropDeinit, DropClose, ReadCall, ReadRegister, ReadLock, ReadPop,
            WriteCall, WriteRegister, WriteLock, WriteUnmask, Cancel, Overruns, hidden
      <3>2. hw'.txf = hw.txf
        BY <1>0, <2>6
        DEF OpenClaim, OpenFails, OpenMask, OpenAttach, OpenEnable, DropMask, DropDisable,
            DropDetach, DropDeinit, DropClose, ReadCall, ReadRegister, ReadLock, ReadPop,
            WriteCall, WriteRegister, WriteLock, WriteUnmask, Cancel, Overruns, HwType
      <3> QED
        BY <2>4, <3>1, <3>2
    <2>7. CASE Interrupt \/ Drain \/ Drained \/ Fed \/ Arrive \/ Timeout \/ UNCHANGED vars
      <3>1. UNCHANGED <<tx, accepted, sent>> /\ hw'.txf = hw.txf
        BY <1>0, <2>7 DEF Interrupt, Drain, Drained, Fed, Arrive, Timeout, vars, HwType, hidden
      <3> QED
        BY <2>4, <3>1
    <2> QED
      BY <1>1, <2>1, <2>2, <2>3, <2>5, <2>6, <2>7 DEF Next, Begin, Continue, OnInterrupt
  <1> QED
    BY <1>0, <1>1, <1>2, Clearing

LEMMA KeepInit == Init => KeepInv
  <1>1. SUFFICES ASSUME Init PROVE KeepInv
    OBVIOUS
  <1>2. /\ LiveInv /\ rx = Ring(RxRing) /\ tx = Ring(TxRing) /\ overruns = 0
        /\ hw.rxf = << >> /\ hw.txf = << >>
        /\ arrived = 0 /\ accounted = 0 /\ last = 0 /\ accepted = 0 /\ sent = 0
    BY <1>1, LiveInit DEF Init
  <1>3. rx.len = 0 /\ tx.len = 0 /\ Len(hw.rxf) = 0 /\ Len(hw.txf) = 0
    BY <1>2 DEF Ring
  <1>4. /\ \A i \in 1 .. rx.len : FALSE
        /\ \A i \in 1 .. tx.len : FALSE
        /\ \A i \in 1 .. Len(hw.rxf) : FALSE
        /\ \A i \in 1 .. Len(hw.txf) : FALSE
    BY <1>3
  <1>5. InInv
    BY <1>2, <1>4 DEF InInv
  <1>6. CountInv /\ OutInv
    BY <1>2, <1>3, <1>4 DEF CountInv, OutInv
  <1> QED
    BY <1>2, <1>5, <1>6 DEF KeepInv

LEMMA KeepNext ==
  ASSUME KeepInv, [Next]_vars
  PROVE  KeepInv'
  BY LiveNext, InStays, CountStays, OutStays DEF KeepInv

\* What waits in a ring is a sequence of numbers.
LEMMA ContentsAre ==
  ASSUME NEW n \in Nat \ {0}, NEW r \in RingType(n), r.len \in Nat
  PROVE  /\ Contents(r, n) \in Seq(Int) /\ Len(Contents(r, n)) = r.len
         /\ \A i \in 1 .. r.len : Contents(r, n)[i] = Byte(r, n, i)
  <1> DEFINE c == [i \in 1 .. r.len |-> Byte(r, n, i)]
  <1>1. \A i \in 1 .. r.len : Byte(r, n, i) \in Int
    <2>1. \A i \in Int : Byte(r, n, i) \in Int
      BY BytesAreNumbers
    <2>2. \A i \in 1 .. r.len : i \in Int
      OBVIOUS
    <2> QED
      BY <2>1, <2>2
  <1>2. c \in [1 .. r.len -> Int]
    BY <1>1
  <1>3. c \in Seq(Int) /\ Len(c) = r.len
    BY <1>2
  <1>4. Contents(r, n) = c
    BY DEF Contents, Byte, Place
  <1> QED
    BY <1>3, <1>4

\* No byte is lost uncounted, repeated or reordered on its way in or out, however
\* the handler, the peripheral and the tasks interleave: while a port is held,
\* what came off the wire is read, counted lost or waiting, in order, and what
\* try_write accepted has left or waits, in order.
THEOREM NoByteIsLost == Spec => []BytesKept
  <1>1. KeepInv => TypeOK
    <2> SUFFICES ASSUME KeepInv PROVE TypeOK
      OBVIOUS
    <2>1. Shape /\ RingInv
      BY DEF KeepInv, LiveInv
    <2> QED
      BY <2>1 DEF Shape, RingInv, TypeOK, Labels
  <1>a. ASSUME KeepInv, holders # {} PROVE NotCleared
    <2>1. PICK h \in holders : h \in Tasks /\ Owns(h) /\ pc[h] \in Calling \union {"idle"}
      BY <1>a DEF KeepInv, LiveInv, Shape, OwnInv, Owns
    <2>2. \A t \in Tasks \ {h} : pc[t] = "idle"
      BY <1>a, <2>1, Alone DEF KeepInv
    <2> QED
      BY <2>1, <2>2 DEF NotCleared, Calling
  <1>2. ASSUME KeepInv, holders # {}
        PROVE  LET waiting == <<last>> \o Contents(rx, RxRing) \o hw.rxf IN
                 /\ arrived = accounted + overruns + rx.len + Len(hw.rxf)
                 /\ \A i \in 1 .. Len(waiting) - 1 : waiting[i] < waiting[i + 1]
    <2>c. PICK c : c = Contents(rx, RxRing)
      OBVIOUS
    <2>f. PICK f : f = hw.rxf
      OBVIOUS
    <2> DEFINE a == <<last>> \o c
               w == a \o f
    <2>0. /\ f \in Seq(Int) /\ Len(f) \in Nat /\ last \in Int /\ InInv
          /\ RxRing \in Nat \ {0} /\ rx \in RingType(RxRing) /\ rx.len \in Nat
      BY <1>2, <2>f, KeepFacts DEF KeepInv
    <2>1. /\ f \in Seq(Int) /\ Len(f) \in Nat /\ last \in Int /\ rx.len \in Nat
          /\ c \in Seq(Int) /\ Len(c) = rx.len /\ InInv
          /\ \A i \in 1 .. Len(c) : c[i] = Byte(rx, RxRing, i)
      BY <2>0, <2>c, ContentsAre
    <2>2. /\ \A i \in 1 .. Len(c) : last < c[i]
          /\ \A i, j \in 1 .. Len(c) : i < j => c[i] < c[j]
          /\ \A i \in 1 .. Len(f) : last < f[i]
          /\ \A i, j \in 1 .. Len(f) : i < j => f[i] < f[j]
          /\ \A i \in 1 .. Len(c), j \in 1 .. Len(f) : c[i] < f[j]
      <3>1. /\ \A i \in 1 .. rx.len : last < Byte(rx, RxRing, i)
            /\ \A i, j \in 1 .. rx.len : i < j => Byte(rx, RxRing, i) < Byte(rx, RxRing, j)
            /\ \A i \in 1 .. Len(f) : last < f[i]
            /\ \A i, j \in 1 .. Len(f) : i < j => f[i] < f[j]
            /\ \A i \in 1 .. rx.len, j \in 1 .. Len(f) : Byte(rx, RxRing, i) < f[j]
        BY <2>1, <2>f DEF InInv
      <3> QED
        BY <2>1, <3>1
    <2>3. <<last>> \in Seq(Int) /\ Len(<<last>>) = 1 /\ <<last>>[1] = last
      BY <2>1
    <2>4. /\ a \in Seq(Int) /\ Len(a) = 1 + Len(c)
          /\ \A i \in 1 .. 1 + Len(c) : a[i] = IF i <= 1 THEN <<last>>[i] ELSE c[i - 1]
      BY <2>1, <2>3, ConcatProperties
    <2> HIDE DEF a
    <2>5. /\ Len(w) = Len(a) + Len(f)
          /\ \A i \in 1 .. Len(a) + Len(f) : w[i] = IF i <= Len(a) THEN a[i] ELSE f[i - Len(a)]
      BY <2>1, <2>4, ConcatProperties
    <2> HIDE DEF w
    <2>6. PICK m : m = Len(c)
      OBVIOUS
    <2>7. PICK k : k = Len(f)
      OBVIOUS
    <2>8. /\ m \in Nat /\ k \in Nat /\ Len(w) = 1 + m + k
          /\ w[1] = last
          /\ \A i \in 2 .. 1 + m : w[i] = c[i - 1]
          /\ \A i \in 2 + m .. 1 + m + k : w[i] = f[i - (1 + m)]
      <3>1. m \in Nat /\ k \in Nat /\ Len(a) = 1 + m /\ Len(w) = 1 + m + k
        BY <2>1, <2>4, <2>5, <2>6, <2>7
      <3>2. ASSUME NEW i \in 1 .. 1 + m + k
            PROVE  w[i] = IF i <= 1 + m THEN a[i] ELSE f[i - (1 + m)]
        BY <2>5, <2>7, <3>1, <3>2
      <3>3. ASSUME NEW i \in 1 .. 1 + m
            PROVE  a[i] = IF i <= 1 THEN <<last>>[i] ELSE c[i - 1]
        BY <2>4, <2>6, <3>3
      <3>4. w[1] = last
        <4>1. 1 \in 1 .. 1 + m + k /\ 1 \in 1 .. 1 + m /\ 1 <= 1 + m
          BY <3>1
        <4> QED
          BY <2>3, <3>2, <3>3, <4>1
      <3>5. ASSUME NEW i \in 2 .. 1 + m PROVE w[i] = c[i - 1]
        <4>1. i \in 1 .. 1 + m + k /\ i \in 1 .. 1 + m /\ i <= 1 + m /\ ~(i <= 1)
          BY <3>1
        <4> QED
          BY <3>2, <3>3, <4>1
      <3>6. ASSUME NEW i \in 2 + m .. 1 + m + k PROVE w[i] = f[i - (1 + m)]
        <4>1. i \in 1 .. 1 + m + k /\ ~(i <= 1 + m)
          BY <3>1
        <4> QED
          BY <3>2, <4>1
      <3> QED
        BY <3>1, <3>4, <3>5, <3>6
    <2>9. ASSUME NEW i \in 1 .. Len(w) - 1 PROVE w[i] < w[i + 1]
      <3>1. i \in 1 .. m + k /\ i + 1 \in 2 .. 1 + m + k
        BY <2>8
      <3>2. CASE i = 1 /\ m > 0
        <4>1. 1 + 1 \in 2 .. 1 + m /\ 1 + 1 - 1 = 1 /\ 1 \in 1 .. m
          BY <2>8, <3>2
        <4> QED
          BY <2>2, <2>6, <2>8, <3>2, <4>1
      <3>3. CASE i = 1 /\ m = 0
        <4>1. 1 + 1 \in 2 + m .. 1 + m + k /\ 1 + 1 - (1 + m) = 1 /\ 1 \in 1 .. k
          BY <2>8, <3>1, <3>3
        <4> QED
          BY <2>2, <2>7, <2>8, <3>3, <4>1
      <3>4. CASE i > 1 /\ i < 1 + m
        <4>1. /\ i \in 2 .. 1 + m /\ i + 1 \in 2 .. 1 + m
              /\ i - 1 \in 1 .. m /\ i + 1 - 1 \in 1 .. m /\ i - 1 < i + 1 - 1
          BY <2>8, <3>4
        <4> QED
          BY <2>2, <2>6, <2>8, <4>1
      <3>5. CASE i > 1 /\ i = 1 + m
        <4>1. /\ i \in 2 .. 1 + m /\ i + 1 \in 2 + m .. 1 + m + k
              /\ i - 1 \in 1 .. m /\ i + 1 - (1 + m) \in 1 .. k
          BY <2>8, <3>1, <3>5
        <4>2. w[i] = c[i - 1] /\ w[i + 1] = f[i + 1 - (1 + m)]
          BY <2>8, <4>1
        <4> QED
          BY <2>2, <2>6, <2>7, <4>1, <4>2
      <3>6. CASE i > 1 + m
        <4>1. /\ i \in 2 + m .. 1 + m + k /\ i + 1 \in 2 + m .. 1 + m + k
              /\ i - (1 + m) \in 1 .. k /\ i + 1 - (1 + m) \in 1 .. k
              /\ i - (1 + m) < i + 1 - (1 + m)
          BY <2>8, <3>1, <3>6
        <4>2. w[i] = f[i - (1 + m)] /\ w[i + 1] = f[i + 1 - (1 + m)]
          BY <2>8, <4>1
        <4> QED
          BY <2>2, <2>7, <4>1, <4>2
      <3> QED
        BY <2>8, <3>1, <3>2, <3>3, <3>4, <3>5, <3>6
    <2>10. arrived = accounted + overruns + rx.len + Len(hw.rxf)
      BY <1>2, <1>a DEF KeepInv, CountInv
    <2> QED
      BY <2>9, <2>10, <2>c, <2>f DEF w, a
  <1>3. ASSUME KeepInv, holders # {}
        PROVE  hw.txf \o Contents(tx, TxRing) = [i \in 1 .. accepted - sent |-> sent + i]
    <2>c. PICK c : c = Contents(tx, TxRing)
      OBVIOUS
    <2>f. PICK f : f = hw.txf
      OBVIOUS
    <2>0. /\ f \in Seq(Int) /\ Len(f) \in Nat /\ sent \in Int /\ accepted \in Int
          /\ TxRing \in Nat \ {0} /\ tx \in RingType(TxRing) /\ tx.len \in Nat
      BY <1>3, <2>f, KeepFacts DEF KeepInv
    <2>1. /\ f \in Seq(Int) /\ Len(f) \in Nat /\ sent \in Int /\ accepted \in Int
          /\ c \in Seq(Int) /\ Len(c) = tx.len /\ tx.len \in Nat
          /\ \A i \in 1 .. Len(c) : c[i] = Byte(tx, TxRing, i)
      BY <2>0, <2>c, ContentsAre
    <2>2. /\ sent + Len(f) + Len(c) = accepted
          /\ \A i \in 1 .. Len(f) : f[i] = sent + i
          /\ \A i \in 1 .. Len(c) : c[i] = sent + Len(f) + i
      BY <1>3, <1>a, <2>1, <2>f DEF KeepInv, OutInv
    <2> DEFINE w == f \o c
               o == [i \in 1 .. accepted - sent |-> sent + i]
    <2>3. /\ w \in Seq(Int) /\ Len(w) = Len(f) + Len(c)
          /\ \A i \in 1 .. Len(f) + Len(c) : w[i] = IF i <= Len(f) THEN f[i] ELSE c[i - Len(f)]
      BY <2>1, ConcatProperties
    <2> HIDE DEF w
    <2>4. PICK k : k = Len(f)
      OBVIOUS
    <2>5. PICK m : m = Len(c)
      OBVIOUS
    <2>6. k \in Nat /\ m \in Nat /\ accepted - sent = k + m
      <3>1. sent + k + m = accepted /\ k \in Nat /\ m \in Nat
        BY <2>1, <2>2, <2>4, <2>5
      <3> QED
        BY <2>1, <3>1
    <2>7. ASSUME NEW i \in 1 .. k + m PROVE w[i] = sent + i
      <3>1. w[i] = IF i <= k THEN f[i] ELSE c[i - k]
        BY <2>3, <2>4, <2>5
      <3>2. CASE i <= k
        <4>1. i \in 1 .. k
          BY <2>6, <3>2
        <4> QED
          BY <2>2, <2>4, <3>1, <3>2, <4>1
      <3>3. CASE ~(i <= k)
        <4>1. i - k \in 1 .. m /\ sent + k + (i - k) = sent + i
          BY <2>1, <2>6, <3>3
        <4> QED
          BY <2>2, <2>4, <2>5, <3>1, <3>3, <4>1
      <3> QED
        BY <3>2, <3>3
    <2>8. o \in Seq(Int) /\ Len(o) = k + m /\ \A i \in 1 .. k + m : o[i] = sent + i
      <3>1. o \in [1 .. k + m -> Int] /\ k + m \in Nat
        BY <2>1, <2>6
      <3>2. \A i \in 1 .. k + m : o[i] = sent + i
        BY <2>6
      <3> HIDE DEF o
      <3> QED
        BY <3>1, <3>2
    <2> HIDE DEF o
    <2>9. w = o
      <3>1. Len(w) = k + m
        BY <2>3, <2>4, <2>5
      <3>2. \A i \in 1 .. Len(w) : w[i] = o[i]
        BY <2>7, <2>8, <3>1
      <3> QED
        BY <2>3, <2>8, <3>1, <3>2, SeqEqual
    <2> QED
      BY <2>9, <2>c, <2>f DEF w, o
  <1>4. KeepInv => BytesKept
    BY <1>1, <1>2, <1>3 DEF BytesKept, RxAccounted, TxInOrder
  <1>5. KeepInv /\ [Next]_vars => KeepInv'
    BY KeepNext
  <1> QED
    BY KeepInit, <1>4, <1>5, PTL DEF Spec
=============================================================================
