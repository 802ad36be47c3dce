---------------------------- MODULE ReceiveProofs ---------------------------
(***************************************************************************)
(* Proofs about RxRing, for a ring of any size, any interfaces and any     *)
(* interleaving of its two sides: what is popped is what was pushed, whole *)
(* and in order, and the ring implements the bounded queue of RxFifo.      *)
(*                                                                         *)
(* The indices count modulo Width and select a slot modulo Ring.  The two  *)
(* agree as long as Width is a multiple of Ring or no index has wrapped    *)
(* yet; the code's 12 slots and 32-bit indices are the second case, for    *)
(* the first 2^32 - 1 frames (rx_ring_wrap.cfg shows what happens then).   *)
(*                                                                         *)
(* And about Embassy, the ring's consumer in an application that runs on   *)
(* embassy, for any numbers of frames, buffers and packets: no frame is    *)
(* left without somebody on the way to it, and the executor does not sleep *)
(* past work.                                                              *)
(***************************************************************************)
EXTENDS RxRing, Embassy, TLAPS

IndicesAgree == Width % Ring = 0 \/ MaxInput < Width

-----------------------------------------------------------------------------
(* Remainders.                                                             *)

LEMMA DivMod ==
  ASSUME NEW w \in Nat \ {0}, NEW a \in Int
  PROVE  \E q \in Int, r \in 0 .. w - 1 : a = w * q + r /\ a % w = r
  <1>1. a = w * (a \div w) + (a % w) /\ a % w \in 0 .. w - 1 /\ a \div w \in Int
    OBVIOUS
  <1> QED
    BY <1>1

LEMMA Remainder ==
  ASSUME NEW w \in Nat \ {0}, NEW q \in Int, NEW r \in 0 .. w - 1
  PROVE  (w * q + r) % w = r
  OBVIOUS

LEMMA RemainderOfSmall ==
  ASSUME NEW w \in Nat \ {0}, NEW r \in 0 .. w - 1
  PROVE  r % w = r
  OBVIOUS

LEMMA AddMultiple ==
  ASSUME NEW w \in Nat \ {0}, NEW a \in Int, NEW k \in Int
  PROVE  (a + w * k) % w = a % w
  <1>1. PICK q \in Int, r \in 0 .. w - 1 : a = w * q + r /\ a % w = r
    BY DivMod
  <1>2. a + w * k = w * (q + k) + r
    <2>1. w * (q + k) = w * q + w * k
      OBVIOUS
    <2> QED
      BY <2>1, <1>1
  <1>3. (w * (q + k) + r) % w = r
    BY Remainder
  <1> QED
    BY <1>1, <1>2, <1>3

\* Adding to an index that wrapped is adding to the count it stands for.
LEMMA AddToRemainder ==
  ASSUME NEW w \in Nat \ {0}, NEW a \in Int, NEW b \in Int
  PROVE  ((a % w) + b) % w = (a + b) % w
  <1>1. PICK q \in Int, r \in 0 .. w - 1 : a = w * q + r /\ a % w = r
    BY DivMod
  <1>2. r + b \in Int /\ a + b = (r + b) + w * q
    BY <1>1
  <1> DEFINE c == r + b
  <1>3. c \in Int
    BY <1>2
  <1> HIDE DEF c
  <1>4. (c + w * q) % w = c % w
    BY <1>3, AddMultiple
  <1> QED
    BY <1>1, <1>2, <1>4 DEF c

\* wrapping_sub of two indices is the difference of the counts.
LEMMA SubtractRemainders ==
  ASSUME NEW w \in Nat \ {0}, NEW a \in Int, NEW b \in Int, 0 <= a - b, a - b < w
  PROVE  ((a % w) - (b % w)) % w = a - b
  <1>1. PICK i \in Int, r \in 0 .. w - 1 : a = w * i + r /\ a % w = r
    BY DivMod
  <1>2. PICK j \in Int, s \in 0 .. w - 1 : b = w * j + s /\ b % w = s
    BY DivMod
  <1>3. r - s = w * (j - i) + (a - b)
    <2>1. w * (j - i) = w * j - w * i
      OBVIOUS
    <2> QED
      BY <2>1, <1>1, <1>2
  <1>4. a - b \in 0 .. w - 1 /\ j - i \in Int
    OBVIOUS
  <1>5. (w * (j - i) + (a - b)) % w = a - b
    BY <1>4, Remainder
  <1> QED
    BY <1>1, <1>2, <1>3, <1>5

\* Fewer than w counts apart, two frames have different slots.
LEMMA DistinctSlots ==
  ASSUME NEW w \in Nat \ {0}, NEW a \in Int, NEW b \in Int, 0 < a - b, a - b < w
  PROVE  a % w # b % w
  <1> SUFFICES ASSUME a % w = b % w PROVE FALSE
    OBVIOUS
  <1>1. PICK i \in Int, r \in 0 .. w - 1 : a = w * i + r /\ a % w = r
    BY DivMod
  <1>2. PICK j \in Int, s \in 0 .. w - 1 : b = w * j + s /\ b % w = s
    BY DivMod
  <1> DEFINE d == i - j
  <1>3. a - b = w * d
    <2>1. w * (i - j) = w * i - w * j
      OBVIOUS
    <2> QED
      BY <2>1, <1>1, <1>2
  <1>4. d \in Int /\ (d <= 0 \/ d >= 1)
    OBVIOUS
  <1> HIDE DEF d
  <1>5. w * d <= 0 \/ w * d >= w
    BY <1>4
  <1> QED
    BY <1>3, <1>5

LEMMA IndexSelectsSlot ==
  ASSUME IndicesAgree, NEW n \in 0 .. MaxInput
  PROVE  (n % Width) % Ring = n % Ring
  <1> USE RingAssumption DEF RingAssumption
  <1>1. CASE MaxInput < Width
    BY <1>1, RemainderOfSmall
  <1>2. CASE Width % Ring = 0
    <2>1. PICK k \in Int : Width = Ring * k
      <3>1. PICK k \in Int, r \in 0 .. Ring - 1 : Width = Ring * k + r /\ Width % Ring = r
        BY DivMod
      <3> QED
        BY <3>1, <1>2
    <2>2. Width \in Nat \ {0} /\ n \in Int
      OBVIOUS
    <2>3. PICK q \in Int, r \in 0 .. Width - 1 : n = Width * q + r /\ n % Width = r
      BY <2>2, DivMod
    <2> DEFINE c == k * q
    <2>4. c \in Int /\ r \in Int /\ n = r + Ring * c
      BY <2>1, <2>3
    <2> HIDE DEF c
    <2>5. (r + Ring * c) % Ring = r % Ring
      BY <2>4, AddMultiple
    <2> QED
      BY <2>3, <2>4, <2>5
  <1> QED
    BY <1>1, <1>2 DEF IndicesAgree

-----------------------------------------------------------------------------
(* The inductive invariant, in terms of the frames pushed and popped.      *)

P == Len(pushed)
Q == Len(popped)

\* The indices are the counts, at most a ring apart.
Counting ==
  /\ Q <= P /\ P - Q <= Ring /\ P <= serial
  /\ head = P % Width /\ tail = Q % Width

\* A frame in hand is a new one; while it is copied its slot is nobody's, and
\* what has been copied is there.
Pushing ==
  /\ ppc # "idle" => P < serial /\ frame.serial = serial
  /\ ppc \in {"copy", "copied", "publish"} => P - Q < Ring /\ frame.iface \in Ifaces
  /\ ppc \in {"copied", "publish"} => slots[P % Ring].lo = frame.serial
  /\ ppc = "publish" =>
       slots[P % Ring].hi = frame.serial /\ slots[P % Ring].iface = frame.iface

\* Every frame between the counts lies whole in its slot.
Stored ==
  \A k \in Q + 1 .. P :
    slots[(k - 1) % Ring] \in Whole /\ slots[(k - 1) % Ring].lo = pushed[k]

\* What the consumer has copied is the oldest of them.
Popping ==
  /\ cpc # "idle" => Q < P
  /\ cpc = "copied" => out.lo = pushed[Q + 1]
  /\ cpc = "release" => out = slots[Q % Ring]

RingInv == TypeOK /\ OldestFirst /\ Counting /\ Pushing /\ Stored /\ Popping

\* What the two sides read of the shared indices, in counts.
LEMMA Readings ==
  ASSUME IndicesAgree, RingInv
  PROVE  /\ P \in Nat /\ Q \in Nat /\ P <= MaxInput
         /\ Slot(head) = P % Ring /\ Slot(tail) = Q % Ring
         /\ Pending = P - Q
         /\ (head + 1) % Width = (P + 1) % Width
         /\ (tail + 1) % Width = (Q + 1) % Width
         /\ (tail # head) = (Q < P)
         /\ P % Ring \in 0 .. Ring - 1 /\ Q % Ring \in 0 .. Ring - 1
  <1> USE RingAssumption DEF RingAssumption, RingInv
  <1>1. P \in Nat /\ Q \in Nat /\ P \in 0 .. MaxInput /\ Q \in 0 .. MaxInput
    BY DEF TypeOK, Counting, P, Q
  <1>2. Slot(head) = P % Ring /\ Slot(tail) = Q % Ring
    BY <1>1, IndexSelectsSlot DEF Counting, Slot
  <1> DEFINE w == Width
             p == P
             q == Q
  <1>3. w \in Nat \ {0} /\ p \in Int /\ q \in Int /\ 0 <= p - q /\ p - q < w /\ 1 \in Int
        /\ head = p % w /\ tail = q % w
    BY <1>1 DEF Counting
  <1> HIDE DEF w, p, q
  <1>4. ((p % w) - (q % w)) % w = p - q
    BY <1>3, SubtractRemainders
  <1>5. ((p % w) + 1) % w = (p + 1) % w /\ ((q % w) + 1) % w = (q + 1) % w
    BY <1>3, AddToRemainder
  <1>6. q < p => p % w # q % w
    <2> SUFFICES ASSUME q < p PROVE p % w # q % w
      OBVIOUS
    <2>1. 0 < p - q
      BY <1>3
    <2> QED
      BY <2>1, <1>3, DistinctSlots
  <1>7. P % Ring \in 0 .. Ring - 1 /\ Q % Ring \in 0 .. Ring - 1
    BY <1>1
  <1>8. Pending = P - Q /\ (head + 1) % Width = (P + 1) % Width
        /\ (tail + 1) % Width = (Q + 1) % Width
    BY <1>3, <1>4, <1>5 DEF w, p, q, Pending
  <1>9. (tail # head) = (Q < P)
    BY <1>3, <1>6 DEF p, q
  <1> QED
    BY <1>1, <1>2, <1>7, <1>8, <1>9

LEMMA InitHolds == Init => RingInv
  <1> SUFFICES ASSUME Init PROVE RingInv
    OBVIOUS
  <1> USE RingAssumption DEF RingAssumption, Init
  <1>1. TypeOK
    BY DEF TypeOK, Contents, Unwritten, NoFrame, Kinds, Serials
  <1>2. OldestFirst /\ Pushing /\ Popping /\ Stored
    BY DEF OldestFirst, Pushing, Popping, Stored, P, Q
  <1>3. Counting
    BY RemainderOfSmall DEF Counting, P, Q
  <1> QED
    BY <1>1, <1>2, <1>3 DEF RingInv

\* Steps that leave the ring and the consumer alone.
LEMMA InputKeeps ==
  ASSUME RingInv,
         \/ \E i \in Ifaces \cup {Bogus}, k \in Kinds : Receive(i, k)
         \/ Discard \/ CommitL2 \/ PushDrop \/ PushClaim
         \/ \E i \in Ifaces : L2SocketCreate(i) \/ L2SocketDelete(i),
         IndicesAgree
  PROVE  RingInv'
  <1> USE RingAssumption DEF RingAssumption, RingInv
  <1>1. UNCHANGED <<head, slots, pushed, consumer>>
    BY DEF Receive, Discard, CommitL2, PushDrop, PushClaim, L2SocketCreate, L2SocketDelete, producer
  <1>2. P' = P /\ Q' = Q
    BY <1>1 DEF P, Q, consumer
  <1>3. P \in Nat /\ Q \in Nat /\ Pending = P - Q
    BY Readings
  <1>4. CASE \E i \in Ifaces \cup {Bogus}, k \in Kinds : Receive(i, k)
    <2>1. serial' = serial + 1 /\ serial' \in 0 .. MaxInput /\ ppc' = "input" /\ frame'.serial = serial'
          /\ frame' \in [serial : 0 .. MaxInput, kind : Kinds, iface : Ifaces \cup {Bogus}]
          /\ UNCHANGED <<dropped, eloop, ethertype>>
      BY <1>4 DEF TypeOK, Receive
    <2>2. TypeOK'
      BY <1>1, <2>1 DEF TypeOK, consumer
    <2>3. OldestFirst' /\ Stored' /\ Popping'
      BY <1>1, <1>2 DEF OldestFirst, Stored, Popping, consumer
    <2>4. Counting'
      <3>1. P <= serial'
        BY <1>3, <2>1 DEF Counting, TypeOK
      <3> QED
        BY <1>1, <1>2, <3>1 DEF Counting, consumer
    <2>5. Pushing'
      BY <1>1, <1>2, <1>3, <2>1 DEF TypeOK, Pushing, Counting
    <2> QED
      BY <2>2, <2>3, <2>4, <2>5
  <1>5. CASE Discard \/ CommitL2 \/ PushDrop
    <2>1. ppc' = "idle" /\ frame' = NoFrame /\ UNCHANGED <<serial, ethertype>>
      BY <1>5 DEF Discard, CommitL2, PushDrop
    <2>2. dropped' \subseteq Serials /\ eloop' \in Seq(Serials)
      <3>1. ppc = "input"
        BY <1>5 DEF Discard, CommitL2, PushDrop, ForStack
      <3>2. frame.serial \in Serials
        BY <3>1, <1>3 DEF Pushing, TypeOK, Serials
      <3>3. CASE Discard \/ PushDrop
        BY <3>2, <3>3 DEF TypeOK, Discard, PushDrop
      <3>4. CASE CommitL2
        BY <3>2, <3>4 DEF TypeOK, CommitL2
      <3> QED
        BY <1>5, <3>3, <3>4
    <2>3. TypeOK'
      BY <1>1, <2>1, <2>2 DEF TypeOK, consumer, NoFrame, Kinds
    <2>4. OldestFirst' /\ Stored' /\ Popping' /\ Counting' /\ Pushing'
      BY <1>1, <1>2, <2>1 DEF OldestFirst, Stored, Popping, Counting, Pushing, consumer
    <2> QED
      BY <2>3, <2>4
  <1>6. CASE PushClaim
    <2>1. ppc = "input" /\ ppc' = "copy" /\ frame.iface \in Ifaces /\ P - Q < Ring
          /\ UNCHANGED <<frame, serial, dropped, eloop, ethertype>>
      BY <1>3, <1>6 DEF PushClaim, ForStack, Full
    <2>2. TypeOK'
      BY <1>1, <2>1 DEF TypeOK, consumer
    <2>3. OldestFirst' /\ Stored' /\ Popping' /\ Counting' /\ Pushing'
      BY <1>1, <1>2, <2>1 DEF OldestFirst, Stored, Popping, Counting, Pushing, consumer
    <2> QED
      BY <2>2, <2>3
  <1>7. CASE \E i \in Ifaces : L2SocketCreate(i) \/ L2SocketDelete(i)
    <2>1. ethertype' \subseteq Ifaces /\ UNCHANGED producer
      BY <1>7 DEF L2SocketCreate, L2SocketDelete, TypeOK
    <2>2. TypeOK'
      BY <1>1, <2>1 DEF TypeOK, consumer, producer
    <2>3. OldestFirst' /\ Stored' /\ Popping' /\ Counting' /\ Pushing'
      BY <1>1, <1>2, <2>1 DEF OldestFirst, Stored, Popping, Counting, Pushing, consumer, producer
    <2> QED
      BY <2>2, <2>3
  <1> QED
    BY <1>4, <1>5, <1>6, <1>7

\* Copying a frame writes no slot with a frame the consumer may read.
LEMMA CopyKeeps ==
  ASSUME RingInv, PushCopy \/ PushFill, IndicesAgree
  PROVE  RingInv'
  <1> USE RingAssumption DEF RingAssumption, RingInv
  <1>1. UNCHANGED <<head, frame, serial, pushed, dropped, eloop, consumer, ethertype>>
        /\ ppc \in {"copy", "copied"} /\ ppc' \in {"copied", "publish"}
    BY DEF PushCopy, PushFill
  <1>2. P' = P /\ Q' = Q
    BY <1>1 DEF P, Q, consumer
  <1>3. P \in Nat /\ Q \in Nat /\ Slot(head) = P % Ring /\ P % Ring \in 0 .. Ring - 1
        /\ Q % Ring \in 0 .. Ring - 1
    BY Readings
  <1>4. /\ slots' \in [0 .. Ring - 1 -> Contents]
        /\ \A s \in 0 .. Ring - 1 : s # P % Ring => slots'[s] = slots[s]
        /\ slots'[P % Ring].lo = frame.serial
        /\ ppc' = "publish" => slots'[P % Ring].hi = frame.serial
                               /\ slots'[P % Ring].iface = frame.iface
    <2>1. slots[P % Ring] \in Contents /\ frame.serial \in 0 .. MaxInput
          /\ frame.iface \in Ifaces \cup {Bogus}
      BY <1>3 DEF TypeOK
    <2>2. CASE PushCopy
      BY <1>3, <2>1, <2>2 DEF PushCopy, TypeOK, Contents
    <2>3. CASE PushFill
      BY <1>3, <2>1, <2>3 DEF PushFill, TypeOK, Contents, Pushing
    <2> QED
      BY <2>2, <2>3
  <1>5. \A k \in Q + 1 .. P : (k - 1) % Ring # P % Ring /\ (k - 1) % Ring \in 0 .. Ring - 1
    <2>1. P - Q < Ring
      BY <1>1 DEF Pushing
    <2> TAKE k \in Q + 1 .. P
    <2> DEFINE i == k - 1
    <2>2. i \in Int /\ P \in Int /\ 0 < P - i /\ P - i < Ring
      BY <1>3, <2>1
    <2> HIDE DEF i
    <2>3. P % Ring # i % Ring
      BY <2>2, DistinctSlots
    <2>4. i % Ring \in 0 .. Ring - 1
      BY <2>2
    <2> QED
      BY <2>3, <2>4 DEF i
  <1>6. TypeOK'
    BY <1>1, <1>4 DEF TypeOK, consumer
  <1>7. OldestFirst' /\ Counting'
    BY <1>1, <1>2 DEF OldestFirst, Counting, consumer
  <1>8. Pushing'
    BY <1>1, <1>2, <1>4 DEF Pushing
  <1>9. Stored'
    BY <1>1, <1>2, <1>4, <1>5 DEF Stored
  <1>10. Popping'
    <2>1. cpc # "idle" => Q + 1 \in Q + 1 .. P /\ (Q + 1) - 1 = Q
      BY <1>3 DEF Popping
    <2>2. cpc # "idle" => Q % Ring # P % Ring
      BY <1>5, <2>1
    <2> QED
      BY <1>1, <1>2, <1>3, <1>4, <2>2 DEF Popping, consumer
  <1> QED
    BY <1>6, <1>7, <1>8, <1>9, <1>10

LEMMA PublishKeeps ==
  ASSUME RingInv, PushPublish, IndicesAgree
  PROVE  RingInv'
  <1> USE RingAssumption DEF RingAssumption, RingInv
  <1>1. ppc = "publish" /\ ppc' = "idle" /\ frame' = NoFrame
        /\ pushed' = Append(pushed, frame.serial)
        /\ UNCHANGED <<serial, dropped, eloop, consumer, slots, ethertype>>
    BY DEF PushPublish
  <1>2. P \in Nat /\ Q \in Nat /\ P % Ring \in 0 .. Ring - 1 /\ head' = (P + 1) % Width
    BY Readings DEF PushPublish
  <1>3. frame.serial \in Serials /\ P < serial /\ P - Q < Ring
    BY <1>1, <1>2 DEF Pushing, TypeOK, Serials
  <1>4. P' = P + 1 /\ Q' = Q /\ pushed' \in Seq(Serials)
        /\ pushed'[P + 1] = frame.serial /\ \A k \in 1 .. P : pushed'[k] = pushed[k]
    BY <1>1, <1>3 DEF P, Q, TypeOK, consumer
  <1>5. TypeOK'
    BY <1>1, <1>2, <1>4 DEF TypeOK, consumer, NoFrame, Kinds
  <1>6. OldestFirst'
    BY <1>1, <1>2, <1>4 DEF OldestFirst, P, Q, consumer
  <1>7. Counting' /\ Pushing'
    BY <1>1, <1>2, <1>3, <1>4 DEF Counting, Pushing, consumer, TypeOK
  <1>8. Stored'
    <2>1. slots[P % Ring] \in Whole /\ slots[P % Ring].lo = frame.serial
      <3>1. slots[P % Ring] \in Contents
        BY <1>2 DEF TypeOK
      <3>2. slots[P % Ring].lo = frame.serial /\ slots[P % Ring].hi = frame.serial
            /\ slots[P % Ring].iface \in Ifaces
        BY <1>1 DEF Pushing
      <3> QED
        BY <1>3, <3>1, <3>2 DEF Whole, Serials
    <2> SUFFICES ASSUME NEW k \in Q + 1 .. P + 1
                 PROVE  slots[(k - 1) % Ring] \in Whole /\ slots[(k - 1) % Ring].lo = pushed'[k]
      BY <1>1, <1>4 DEF Stored
    <2>2. CASE k = P + 1
      <3>1. k - 1 = P
        BY <1>2, <2>2
      <3> QED
        BY <1>4, <2>1, <2>2, <3>1
    <2>3. CASE k # P + 1
      <3>1. k \in Q + 1 .. P /\ k \in 1 .. P
        BY <1>2, <2>3
      <3> QED
        BY <1>4, <3>1 DEF Stored
    <2> QED
      BY <2>2, <2>3
  <1>9. Popping'
    <2>1. cpc # "idle" => Q + 1 \in 1 .. P
      BY <1>2 DEF Popping
    <2>2. cpc # "idle" => pushed'[Q + 1] = pushed[Q + 1]
      BY <1>4, <2>1
    <2>3. UNCHANGED <<cpc, out, slots>>
      BY <1>1 DEF consumer
    <2>4. cpc # "idle" => Q' < P'
      <3>1. cpc # "idle" => Q < P
        BY DEF Popping
      <3> QED
        BY <1>2, <1>4, <3>1
    <2>5. cpc = "copied" => out.lo = pushed'[Q + 1]
      BY <2>2 DEF Popping
    <2> QED
      BY <1>4, <2>3, <2>4, <2>5 DEF Popping
  <1> QED
    BY <1>5, <1>6, <1>7, <1>8, <1>9

LEMMA PopKeeps ==
  ASSUME RingInv, PopClaim \/ PopCopy \/ PopFinish, IndicesAgree
  PROVE  RingInv'
  <1> USE RingAssumption DEF RingAssumption, RingInv
  <1>1. UNCHANGED <<producer, tail, popped, slots, ethertype>>
    BY DEF PopClaim, PopCopy, PopFinish
  <1>2. P' = P /\ Q' = Q
    BY <1>1 DEF P, Q, producer
  <1>3. P \in Nat /\ Q \in Nat /\ Slot(tail) = Q % Ring /\ (tail # head) = (Q < P)
        /\ Q % Ring \in 0 .. Ring - 1
    BY Readings
  <1>4. slots[Q % Ring] \in Contents /\ Unwritten \in Contents
    BY <1>3 DEF TypeOK, Contents, Unwritten
  <1>5. cpc # "idle" =>
          slots[Q % Ring] \in Whole /\ slots[Q % Ring].lo = pushed[Q + 1]
    <2>1. cpc # "idle" => Q + 1 \in Q + 1 .. P /\ (Q + 1) - 1 = Q
      BY <1>3 DEF Popping
    <2> QED
      BY <2>1 DEF Stored
  <1>6. out' \in Contents /\ cpc' \in {"copy", "copied", "release"} /\ Popping'
    <2>1. CASE PopClaim
      BY <1>1, <1>2, <1>3, <2>1 DEF PopClaim, TypeOK, Popping, producer
    <2>2. CASE PopCopy
      BY <1>1, <1>2, <1>3, <1>4, <1>5, <2>2 DEF PopCopy, Contents, Popping, producer
    <2>3. CASE PopFinish
      <3>1. cpc = "copied" /\ cpc' = "release" /\ out \in Contents
            /\ out' = [out EXCEPT !.hi = slots[Q % Ring].hi, !.iface = slots[Q % Ring].iface]
        BY <1>3, <2>3 DEF PopFinish, TypeOK
      <3>2. out.lo = slots[Q % Ring].lo
        BY <1>5, <3>1 DEF Popping
      <3>3. out' = slots[Q % Ring]
        BY <1>4, <3>1, <3>2 DEF Contents
      <3> QED
        BY <1>1, <1>2, <1>4, <3>1, <3>3 DEF Popping, producer
    <2> QED
      BY <2>1, <2>2, <2>3
  <1>7. TypeOK'
    BY <1>1, <1>6 DEF TypeOK, producer
  <1>8. OldestFirst' /\ Counting' /\ Pushing' /\ Stored'
    BY <1>1, <1>2 DEF OldestFirst, Counting, Pushing, Stored, producer
  <1> QED
    BY <1>6, <1>7, <1>8

LEMMA ReleaseKeeps ==
  ASSUME RingInv, PopRelease, IndicesAgree
  PROVE  RingInv'
  <1> USE RingAssumption DEF RingAssumption, RingInv
  <1>1. cpc = "release" /\ cpc' = "idle" /\ popped' = Append(popped, out)
        /\ UNCHANGED <<producer, out, slots, ethertype>>
    BY DEF PopRelease
  <1>2. P \in Nat /\ Q \in Nat /\ Q < P /\ tail' = (Q + 1) % Width
    BY <1>1, Readings DEF PopRelease, Popping
  <1>3. out \in Whole /\ out.lo = pushed[Q + 1]
    <2>1. Q + 1 \in Q + 1 .. P /\ (Q + 1) - 1 = Q
      BY <1>2
    <2> QED
      BY <1>1, <2>1 DEF Stored, Popping
  <1>4. P' = P /\ Q' = Q + 1 /\ popped' \in Seq(Contents)
        /\ popped'[Q + 1] = out /\ \A k \in 1 .. Q : popped'[k] = popped[k]
    BY <1>1, <1>3 DEF P, Q, TypeOK, producer, Whole
  <1>5. TypeOK'
    <2>1. tail' \in 0 .. Width - 1
      BY <1>2
    <2> QED
      BY <1>1, <1>4, <2>1 DEF TypeOK, producer
  <1>6. OldestFirst'
    <2> SUFFICES ASSUME NEW k \in 1 .. Q + 1
                 PROVE  popped'[k].lo = pushed[k] /\ popped'[k].hi = pushed[k]
      BY <1>1, <1>2, <1>4 DEF OldestFirst, P, Q, producer
    <2>1. CASE k = Q + 1
      BY <1>3, <1>4, <2>1 DEF Whole
    <2>2. CASE k # Q + 1
      BY <1>2, <1>4, <2>2 DEF OldestFirst, Q
    <2> QED
      BY <2>1, <2>2
  <1>7. Counting'
    BY <1>1, <1>2, <1>4 DEF Counting, producer, TypeOK
  <1>8. Pushing' /\ Stored' /\ Popping'
    BY <1>1, <1>2, <1>4 DEF Pushing, Stored, Popping, producer
  <1> QED
    BY <1>5, <1>6, <1>7, <1>8

LEMMA NextKeeps ==
  ASSUME IndicesAgree, RingInv, [Next]_vars
  PROVE  RingInv'
  <1>1. CASE Next
    BY <1>1, InputKeeps, CopyKeeps, PublishKeeps, PopKeeps, ReleaseKeeps
       DEF Next, Producer, Consumer
  <1>2. CASE UNCHANGED vars
    BY <1>2 DEF vars, producer, consumer, RingInv, TypeOK, OldestFirst, Counting, Pushing,
                Stored, Popping, P, Q
  <1> QED
    BY <1>1, <1>2

\* Every variable keeps its type, and what rx_pop returns is what rx_push
\* accepted, whole, each frame once and oldest first, whichever way the two
\* sides interleave and however large the ring is.
THEOREM RingIsSound ==
  ASSUME IndicesAgree
  PROVE  Spec => []RingSound
  <1>1. Init => RingInv
    BY InitHolds
  <1>2. RingInv /\ [Next]_vars => RingInv'
    BY NextKeeps
  <1>3. RingInv => RingSound
    BY DEF RingInv, RingSound
  <1> QED
    BY <1>1, <1>2, <1>3, PTL DEF Spec

-----------------------------------------------------------------------------
(* The ring implements RxFifo.                                             *)

\* The queue RxFifo sees, in counts.
LEMMA QueueInCounts ==
  IndicesAgree /\ RingInv => Queue = [k \in 1 .. P - Q |-> slots[(Q + k - 1) % Ring]]
  <1> SUFFICES ASSUME IndicesAgree, RingInv
               PROVE  Queue = [k \in 1 .. P - Q |-> slots[(Q + k - 1) % Ring]]
    OBVIOUS
  <1> USE RingAssumption DEF RingAssumption, RingInv
  <1>1. P \in Nat /\ Q \in Nat /\ P <= MaxInput /\ Pending = P - Q /\ tail = Q % Width
    BY Readings DEF Counting
  <1>2. ASSUME NEW k \in 1 .. P - Q
        PROVE  Slot((tail + k - 1) % Width) = (Q + k - 1) % Ring
    <2> DEFINE w == Width
               q == Q
               j == k - 1
    <2>1. w \in Nat \ {0} /\ q \in Int /\ j \in Int /\ tail = q % w /\ tail \in Int
          /\ tail + k - 1 = tail + j /\ Q + k - 1 = q + j /\ q + j \in 0 .. MaxInput
      BY <1>1 DEF TypeOK
    <2> HIDE DEF w, q, j
    <2>2. ((q % w) + j) % w = (q + j) % w
      BY <2>1, AddToRemainder
    <2>3. ((q + j) % Width) % Ring = (q + j) % Ring
      BY <2>1, IndexSelectsSlot
    <2> QED
      BY <2>1, <2>2, <2>3 DEF w, Slot
  <1> QED
    BY <1>1, <1>2 DEF Queue

LEMMA InitRefines == Init => Fifo!Init
  <1> SUFFICES ASSUME Init PROVE Fifo!Init
    OBVIOUS
  <1> USE RingAssumption DEF RingAssumption, Init
  <1>1. Pending = 0
    BY RemainderOfSmall DEF Pending
  <1> QED
    BY <1>1 DEF Fifo!Init, Queue

\* Publishing a frame queues it at the back.
LEMMA PublishAccepts ==
  ASSUME IndicesAgree, RingInv, RingInv', PushPublish
  PROVE  Fifo!Accept
  <1> USE RingAssumption DEF RingAssumption
  <1> DEFINE f == slots[P % Ring]
  <1>1. P \in Nat /\ Q \in Nat /\ Q <= P /\ P % Ring \in 0 .. Ring - 1
    BY Readings DEF RingInv, Counting
  <1>2. ppc = "publish" /\ pushed' = Append(pushed, frame.serial) /\ UNCHANGED <<consumer, slots>>
    BY DEF PushPublish
  <1>3. P' = P + 1 /\ Q' = Q /\ P - Q < Ring
    BY <1>2 DEF P, Q, RingInv, TypeOK, Pushing, consumer
  <1>4. f \in Whole
    <2>1. P + 1 \in Q' + 1 .. P' /\ (P + 1) - 1 = P
      BY <1>1, <1>3
    <2> QED
      BY <1>2, <2>1 DEF RingInv, Stored
  <1>5. Queue = [k \in 1 .. P - Q |-> slots[(Q + k - 1) % Ring]]
    BY QueueInCounts
  <1>6. Queue' = [k \in 1 .. P + 1 - Q |-> slots[(Q + k - 1) % Ring]]
    <2>1. (IndicesAgree /\ RingInv => Queue = [k \in 1 .. P - Q |-> slots[(Q + k - 1) % Ring]])'
      BY QueueInCounts, PTL
    <2>2. Queue' = [k \in 1 .. P' - Q' |-> slots'[(Q' + k - 1) % Ring]]
      BY <2>1 DEF IndicesAgree
    <2> QED
      BY <1>1, <1>2, <1>3, <2>2
  <1> HIDE DEF f
  <1>7. Len(Queue) = P - Q /\ Queue' = Append(Queue, f)
    <2>1. Q + (P - Q + 1) - 1 = P
      BY <1>1
    <2> QED
      BY <1>1, <1>5, <1>6, <2>1 DEF f
  <1> QED
    BY <1>2, <1>3, <1>4, <1>7 DEF Fifo!Accept, consumer

\* Releasing a slot takes the frame at the front.
LEMMA ReleaseTakes ==
  ASSUME IndicesAgree, RingInv, RingInv', PopRelease
  PROVE  Fifo!Take
  <1> USE RingAssumption DEF RingAssumption
  <1>1. P \in Nat /\ Q \in Nat
    BY Readings
  <1>2. cpc = "release" /\ popped' = Append(popped, out) /\ UNCHANGED <<producer, slots>>
    BY DEF PopRelease
  <1>3. P' = P /\ Q' = Q + 1 /\ Q < P /\ out = slots[Q % Ring]
    BY <1>2 DEF P, Q, RingInv, TypeOK, Popping, producer
  <1>4. Queue = [k \in 1 .. P - Q |-> slots[(Q + k - 1) % Ring]]
    BY QueueInCounts
  <1>5. Queue' = [k \in 1 .. P - Q - 1 |-> slots[(Q + k) % Ring]]
    <2>1. (IndicesAgree /\ RingInv => Queue = [k \in 1 .. P - Q |-> slots[(Q + k - 1) % Ring]])'
      BY QueueInCounts, PTL
    <2>2. Queue' = [k \in 1 .. P' - Q' |-> slots'[(Q' + k - 1) % Ring]]
      BY <2>1 DEF IndicesAgree
    <2>3. P' - Q' = P - Q - 1 /\ \A k \in 1 .. P - Q - 1 : Q' + k - 1 = Q + k
      BY <1>1, <1>3
    <2> QED
      BY <1>2, <2>2, <2>3
  <1>6. Queue # << >> /\ Head(Queue) = out
    <2>1. Q + 1 - 1 = Q /\ 1 \in 1 .. P - Q
      BY <1>1, <1>3
    <2> QED
      BY <1>3, <1>4, <2>1
  <1>7. Queue' = Tail(Queue)
    <2>1. P - Q \in Nat /\ \A k \in 1 .. P - Q - 1 : Q + (k + 1) - 1 = Q + k
      BY <1>1, <1>3
    <2>2. Len(Queue) = P - Q
      BY <1>4, <2>1
    <2>3. Tail(Queue) = [k \in 1 .. P - Q - 1 |-> Queue[k + 1]]
      BY <1>4, <2>1, <2>2
    <2>4. \A k \in 1 .. P - Q - 1 : Queue[k + 1] = slots[(Q + k) % Ring]
      BY <1>1, <1>4, <2>1
    <2> QED
      BY <1>5, <2>3, <2>4
  <1> QED
    BY <1>2, <1>6, <1>7 DEF Fifo!Take

\* Every other step leaves the queue and what was taken as they are: a slot is
\* written only while it is not in the queue.
LEMMA OthersStutter ==
  ASSUME IndicesAgree, RingInv, RingInv', [Next]_vars, ~PushPublish, ~PopRelease
  PROVE  UNCHANGED <<Queue, popped>>
  <1> USE RingAssumption DEF RingAssumption
  <1>1. P \in Nat /\ Q \in Nat /\ Slot(head) = P % Ring /\ P % Ring \in 0 .. Ring - 1
    BY Readings
  <1>2. UNCHANGED <<pushed, popped>> /\ (UNCHANGED slots \/ PushCopy \/ PushFill)
    BY DEF Next, Producer, Consumer, Receive, Discard, CommitL2, PushDrop, PushClaim, PushCopy,
           PushFill, PopClaim, PopCopy, PopFinish, L2SocketCreate, L2SocketDelete, vars,
           producer, consumer
  <1>3. P' = P /\ Q' = Q
    BY <1>2 DEF P, Q
  <1>4. Queue = [k \in 1 .. P - Q |-> slots[(Q + k - 1) % Ring]]
    BY QueueInCounts
  <1>5. Queue' = [k \in 1 .. P - Q |-> slots'[(Q + k - 1) % Ring]]
    <2>1. (IndicesAgree /\ RingInv => Queue = [k \in 1 .. P - Q |-> slots[(Q + k - 1) % Ring]])'
      BY QueueInCounts, PTL
    <2> QED
      BY <1>3, <2>1 DEF IndicesAgree
  <1>6. \A k \in 1 .. P - Q : slots'[(Q + k - 1) % Ring] = slots[(Q + k - 1) % Ring]
    <2>1. CASE UNCHANGED slots
      BY <2>1
    <2>2. CASE PushCopy \/ PushFill
      <3>1. P - Q < Ring
        BY <2>2 DEF RingInv, Pushing, PushCopy, PushFill
      <3> TAKE k \in 1 .. P - Q
      <3> DEFINE i == Q + k - 1
      <3>2. i \in Int /\ P \in Int /\ 0 < P - i /\ P - i < Ring
        BY <1>1, <3>1
      <3> HIDE DEF i
      <3>3. P % Ring # i % Ring
        BY <3>2, DistinctSlots
      <3>4. i % Ring \in 0 .. Ring - 1
        BY <3>2
      <3>5. slots'[i % Ring] = slots[i % Ring]
        BY <1>1, <2>2, <3>3, <3>4 DEF PushCopy, PushFill, RingInv, TypeOK
      <3> QED
        BY <3>5 DEF i
    <2> QED
      BY <1>2, <2>1, <2>2
  <1> QED
    BY <1>2, <1>4, <1>5, <1>6

\* The ring, its copies in two halves and its wrapping indices, implements a
\* bounded queue of whole frames.
THEOREM RingImplementsFifo ==
  ASSUME IndicesAgree
  PROVE  Spec => Implements
  <1>1. Init => RingInv
    BY InitHolds
  <1>2. RingInv /\ [Next]_vars => RingInv'
    BY NextKeeps
  <1>3. Init => Fifo!Init
    BY InitRefines
  <1>4. RingInv /\ RingInv' /\ [Next]_vars => [Fifo!Next]_<<Queue, popped>>
    BY PublishAccepts, ReleaseTakes, OthersStutter DEF Fifo!Next
  <1> QED
    BY <1>1, <1>2, <1>3, <1>4, PTL DEF Spec, Implements, Fifo!Spec


-----------------------------------------------------------------------------
(* The embassy front end.                                                  *)

ExecutorTypes ==
  /\ PENDING \in BOOLEAN /\ notified \in BOOLEAN /\ quiet \in BOOLEAN
  /\ rxWaker \in BOOLEAN /\ txWaker \in BOOLEAN /\ owed \in BOOLEAN
  /\ free \in Nat /\ flying \in Nat
  /\ back \in {"receive", "transmit"}

\* Only a poll has a batch: what was dequeued is polled before run() goes on.
BatchDone == xpc \in {"off", "top", "dequeue", "check", "wait", "asleep"} => batch = {}

\* Net is enqueued, or its waker is registered once it is past receive.
Armed == xpc \in {"off", "receive"} \/ rxWaker \/ "net" \in runq \union batch

\* What is enqueued was notified, or came where nothing may be.
Roused == runq = {} \/ notified \/ quiet

\* run() is about to dequeue, or will be woken for what is enqueued.
RousedInTime == xpc \in {"off", "top", "dequeue"} \/ Roused

\* The sleep that run() has settled on ends no later than the timer, but for
\* the ticks that passed since it read the clock.
SleepShort == xpc \in {"check", "wait", "asleep"} /\ timer # Never => left <= timer + held

FrontInv ==
  /\ ExecutorTypes /\ EmbassyTypeOK
  /\ BatchDone /\ Armed /\ NoFrameForgotten
  /\ RousedInTime /\ SleepShort

LEMMA FrontStarts == EmbassyInit => FrontInv
  <1> SUFFICES ASSUME EmbassyInit PROVE FrontInv
    OBVIOUS
  <1> USE EmbassyAssumption DEF EmbassyAssumption, EmbassyInit
  <1>1. ExecutorTypes
    BY DEF ExecutorTypes
  <1>2. EmbassyTypeOK
    BY DEF EmbassyTypeOK, Tasks
  <1>3. BatchDone /\ Armed /\ NoFrameForgotten /\ RousedInTime /\ SleepShort
    BY DEF BatchDone, Armed, NoFrameForgotten, RousedInTime, SleepShort
  <1> QED
    BY <1>1, <1>2, <1>3 DEF FrontInv

\* A task that is woken is enqueued, and the executor notified if it may be.
LEMMA Woken ==
  ASSUME ExecutorTypes, EmbassyTypeOK, NEW t \in Tasks, NEW c \in Contexts, Wake(t, c)
  PROVE  /\ t \in runq' \union batch
         /\ runq \subseteq runq' /\ runq' \subseteq runq \union {t}
         /\ runq' \intersect batch = {}
         /\ PENDING' \in BOOLEAN /\ notified' \in BOOLEAN /\ quiet' \in BOOLEAN
         /\ xpc # "off" /\ Roused => Roused'
  BY DEF ExecutorTypes, EmbassyTypeOK, Wake, Pend, wake, Roused, Contexts

\* The same of a waker that may not be registered.
LEMMA MaybeWoken ==
  ASSUME ExecutorTypes, EmbassyTypeOK, NEW c \in Contexts,
         NEW armed \in BOOLEAN, IF armed THEN Wake("net", c) ELSE UNCHANGED wake
  PROVE  /\ armed => "net" \in runq' \union batch
         /\ runq \subseteq runq' /\ runq' \subseteq runq \union {"net"}
         /\ runq' \intersect batch = {}
         /\ PENDING' \in BOOLEAN /\ notified' \in BOOLEAN /\ quiet' \in BOOLEAN
         /\ xpc # "off" /\ Roused => Roused'
  <1>1. CASE armed
    BY <1>1, Woken DEF Tasks
  <1>2. CASE ~armed
    BY <1>2 DEF ExecutorTypes, EmbassyTypeOK, wake, Roused
  <1> QED
    BY <1>1, <1>2

-----------------------------------------------------------------------------

\* The producer and the MAC.
LEMMA WorldKeepsFront ==
  ASSUME FrontInv, Arrive \/ WakeRx \/ Confirmed
  PROVE  FrontInv'
  <1> USE EmbassyAssumption DEF EmbassyAssumption, clock, FrontInv
  <1>1. CASE Arrive
    <2> USE <1>1 DEF Arrive
    <2>1. ExecutorTypes'
      BY DEF ExecutorTypes, executor, driver
    <2>3. EmbassyTypeOK'
      <3>1. rx' \in 0 .. Depth /\ input' \in 0 .. MaxArrivals
        BY DEF EmbassyTypeOK
      <3> QED
        BY <3>1 DEF EmbassyTypeOK, executor, driver
    <2>2. (BatchDone /\ Armed /\ NoFrameForgotten /\ RousedInTime /\ SleepShort)'
      BY DEF BatchDone, Armed, NoFrameForgotten, RousedInTime, Roused, SleepShort,
         executor, driver, EmbassyTypeOK, ExecutorTypes
    <2> QED
      BY <2>1, <2>2, <2>3
  <1>2. CASE WakeRx
    <2>1. PICK c \in Contexts : IF rxWaker THEN Wake("net", c) ELSE UNCHANGED wake
      BY <1>2 DEF WakeRx, Contexts
    <2>2. /\ rxWaker => "net" \in runq' \union batch
          /\ runq \subseteq runq' /\ runq' \subseteq runq \union {"net"}
          /\ runq' \intersect batch = {}
          /\ PENDING' \in BOOLEAN /\ notified' \in BOOLEAN /\ quiet' \in BOOLEAN
          /\ xpc # "off" /\ Roused => Roused'
      BY <2>1, MaybeWoken DEF ExecutorTypes
    <2>3. /\ owed /\ owed' = FALSE /\ rxWaker' \in {rxWaker, FALSE}
          /\ UNCHANGED <<xpc, batch, left, timer, held, txWaker, free, flying, outbox, sends, back, ring>>
      BY <1>2 DEF WakeRx
    <2>4. ExecutorTypes' /\ EmbassyTypeOK'
      BY <2>2, <2>3 DEF ExecutorTypes, EmbassyTypeOK, ring, Tasks
    <2>5. (BatchDone /\ Armed /\ NoFrameForgotten)'
      BY <2>2, <2>3 DEF BatchDone, Armed, NoFrameForgotten, ring
    <2>6. (RousedInTime /\ SleepShort)'
      BY <2>2, <2>3 DEF RousedInTime, SleepShort
    <2> QED
      BY <2>4, <2>5, <2>6
  <1>3. CASE Confirmed
    <2>1. PICK c \in Contexts : IF txWaker THEN Wake("net", c) ELSE UNCHANGED wake
      BY <1>3 DEF Confirmed
    <2>2. /\ runq \subseteq runq' /\ runq' \subseteq runq \union {"net"}
          /\ runq' \intersect batch = {}
          /\ PENDING' \in BOOLEAN /\ notified' \in BOOLEAN /\ quiet' \in BOOLEAN
          /\ xpc # "off" /\ Roused => Roused'
      BY <2>1, MaybeWoken DEF ExecutorTypes
    <2>3. /\ flying > 0 /\ flying' = flying - 1 /\ free' = free + 1
          /\ txWaker' \in {txWaker, FALSE}
          /\ UNCHANGED <<xpc, batch, left, timer, held, rxWaker, owed, outbox, sends, back, ring>>
      BY <1>3 DEF Confirmed
    <2>7. ExecutorTypes'
      <3>1. free' \in Nat /\ flying' \in Nat
        BY <2>3 DEF ExecutorTypes
      <3>2. txWaker' \in BOOLEAN /\ UNCHANGED <<rxWaker, owed, back>>
        BY <2>3 DEF ExecutorTypes
      <3> QED
        BY <2>2, <3>1, <3>2 DEF ExecutorTypes
    <2>4. EmbassyTypeOK'
      <3>1. free' + flying' + (IF xpc' = "submit" THEN 1 ELSE 0) = Buffers
        BY <2>3 DEF ExecutorTypes, EmbassyTypeOK
      <3>2. runq' \subseteq Tasks /\ runq' \intersect batch' = {}
        BY <2>2, <2>3 DEF EmbassyTypeOK, Tasks
      <3>3. UNCHANGED <<xpc, batch, left, timer, held, rx, input>>
        BY <2>3 DEF ring
      <3> QED
        BY <3>1, <3>2, <3>3 DEF EmbassyTypeOK
    <2>5. (BatchDone /\ Armed /\ NoFrameForgotten)'
      BY <2>2, <2>3 DEF BatchDone, Armed, NoFrameForgotten, ring
    <2>6. (RousedInTime /\ SleepShort)'
      BY <2>2, <2>3 DEF RousedInTime, SleepShort
    <2> QED
      BY <2>4, <2>5, <2>6, <2>7
  <1> QED
    BY <1>1, <1>2, <1>3

-----------------------------------------------------------------------------

\* The steps of run() that neither expire a timer nor let time pass.
LEMMA LoopKeepsFront ==
  ASSUME FrontInv, Run \/ Clear \/ Dequeue \/ Check \/ Wait \/ WakeUp
  PROVE  FrontInv'
  <1> USE EmbassyAssumption DEF EmbassyAssumption, clock, FrontInv, GoTo
  <1>1. UNCHANGED <<timer, held, driver, owed, ring>>
    BY DEF Run, Clear, Dequeue, Check, Wait, WakeUp
  <1>2. xpc \in {"off", "top", "dequeue", "check", "wait", "asleep"}
    BY DEF Run, Clear, Dequeue, Check, Wait, WakeUp
  <1>3. batch = {}
    BY <1>2 DEF BatchDone
  <1>4. ExecutorTypes'
    BY <1>1 DEF ExecutorTypes, driver, Run, Clear, Dequeue, Check, Wait, WakeUp, wake
  <1>5. EmbassyTypeOK'
    <2>1. runq' \subseteq Tasks /\ batch' \subseteq Tasks /\ runq' \intersect batch' = {}
      BY <1>3 DEF EmbassyTypeOK, Run, Clear, Dequeue, Check, Wait, WakeUp, wake
    <2>2. xpc' \in {"top", "dequeue", "poll", "wait", "asleep"}
      BY DEF Run, Clear, Dequeue, Check, Wait, WakeUp
    <2>3. left' \in 0 .. Backstop
      BY DEF EmbassyTypeOK, Run, Clear, Dequeue, Check, Wait, WakeUp
    <2> QED
      BY <1>1, <1>2, <2>1, <2>2, <2>3 DEF EmbassyTypeOK, driver, ring
  <1>6. BatchDone'
    BY <1>3 DEF BatchDone, Run, Clear, Dequeue, Check, Wait, WakeUp
  <1>7. "net" \in runq \union batch => "net" \in runq' \union batch'
    BY <1>3 DEF Run, Clear, Dequeue, Check, Wait, WakeUp, wake, Tasks
  <1>8. xpc = "off" => "net" \in runq' \union batch'
    BY <1>2 DEF Run, Clear, Dequeue, Check, Wait, WakeUp, Tasks
  <1>9. Armed' /\ NoFrameForgotten'
    BY <1>1, <1>2, <1>7, <1>8 DEF Armed, NoFrameForgotten, driver, ring
  <1>10. RousedInTime'
    BY DEF RousedInTime, Roused, Run, Clear, Dequeue, Check, Wait, WakeUp, wake
  <1>11. SleepShort'
    BY <1>1 DEF SleepShort, Run, Clear, Dequeue, Check, Wait, WakeUp
  <1> QED
    BY <1>4, <1>5, <1>6, <1>9, <1>10, <1>11

\* A timer that is due is dispatched, and the sleep is set to the next one.
LEMMA ExpireKeepsFront ==
  ASSUME FrontInv, Expire
  PROVE  FrontInv'
  <1> USE EmbassyAssumption DEF EmbassyAssumption, clock, FrontInv, GoTo
  <1>1. /\ xpc = "poll" /\ batch = {} /\ xpc' = "check"
        /\ UNCHANGED <<batch, driver, owed, ring>>
    BY DEF Expire
  <1>2. /\ runq \subseteq runq' /\ runq' \subseteq Tasks
        /\ PENDING' \in BOOLEAN /\ notified' \in BOOLEAN /\ quiet' \in BOOLEAN
        /\ Roused => Roused'
    <2>1. CASE timer = 0
      <3>1. Wake("app", "critical") /\ "app" \in Tasks /\ "critical" \in Contexts
        BY <2>1 DEF Expire, Tasks, Contexts
      <3> QED
        BY <1>1, <3>1, Woken DEF EmbassyTypeOK
    <2>2. CASE timer # 0
      BY <2>2 DEF Expire, wake, ExecutorTypes, EmbassyTypeOK, Roused
    <2> QED
      BY <2>1, <2>2
  <1>3. /\ timer' \in 0 .. MaxDelay \union {Never} /\ left' \in 0 .. Backstop
        /\ held' \in 0 .. MaxHeld
        /\ timer' # Never => left' <= timer' + held'
    <2>1. timer' \in 0 .. MaxDelay \union {Never}
      BY DEF Expire, EmbassyTypeOK
    <2>2. held' = 0 /\ left' = IF timer' = Never THEN Backstop ELSE Least(timer', Backstop)
      BY DEF Expire
    <2>3. left' \in 0 .. Backstop /\ (timer' # Never => left' <= timer')
      BY <2>1, <2>2 DEF Least
    <2> QED
      BY <2>1, <2>2, <2>3
  <1>4. ExecutorTypes'
    BY <1>1, <1>2 DEF ExecutorTypes, driver
  <1>5. EmbassyTypeOK'
    BY <1>1, <1>2, <1>3 DEF EmbassyTypeOK, driver, ring
  <1>6. BatchDone' /\ Armed' /\ NoFrameForgotten'
    BY <1>1, <1>2 DEF BatchDone, Armed, NoFrameForgotten, driver, ring
  <1>7. RousedInTime' /\ SleepShort'
    BY <1>1, <1>2, <1>3 DEF RousedInTime, SleepShort
  <1> QED
    BY <1>4, <1>5, <1>6, <1>7

LEMMA TickKeepsFront ==
  ASSUME FrontInv, Tick
  PROVE  FrontInv'
  <1> USE EmbassyAssumption DEF EmbassyAssumption, clock, FrontInv
  <1>1. /\ xpc # "off" /\ (xpc = "asleep" => left > 0)
        /\ (xpc \in {"check", "wait"} => held < MaxHeld)
        /\ held' = (IF xpc \in {"check", "wait"} THEN held + 1 ELSE held)
        /\ timer' = (IF timer \in {Never, 0} THEN timer ELSE timer - 1)
        /\ left' = (IF xpc = "asleep" THEN left - 1 ELSE left)
        /\ UNCHANGED <<wake, xpc, batch, driver, owed, ring>>
    BY DEF Tick
  <1>2. ExecutorTypes'
    BY <1>1 DEF ExecutorTypes, driver, wake
  <1>3. /\ timer' \in 0 .. MaxDelay \union {Never} /\ left' \in 0 .. Backstop
        /\ held' \in 0 .. MaxHeld
    BY <1>1 DEF EmbassyTypeOK
  <1>4. EmbassyTypeOK'
    BY <1>1, <1>3 DEF EmbassyTypeOK, driver, wake, ring
  <1>5. (BatchDone /\ Armed /\ NoFrameForgotten /\ RousedInTime)'
    BY <1>1 DEF BatchDone, Armed, NoFrameForgotten, RousedInTime, Roused, driver, wake, ring
  <1>6. SleepShort'
    BY <1>1 DEF SleepShort, EmbassyTypeOK
  <1> QED
    BY <1>2, <1>4, <1>5, <1>6

\* The application's poll: a packet wakes net, a timer pends.
LEMMA PollAppKeepsFront ==
  ASSUME FrontInv, PollApp
  PROVE  FrontInv'
  <1> USE EmbassyAssumption DEF EmbassyAssumption, clock, FrontInv
  <1>1. /\ xpc = "poll" /\ "app" \in batch /\ batch' = batch \ {"app"}
        /\ UNCHANGED <<xpc, left, held, rxWaker, txWaker, free, flying, back, owed, ring>>
    BY DEF PollApp
  <1>2. /\ runq \subseteq runq' /\ runq' \subseteq runq \union {"net"}
        /\ runq' \intersect batch = {}
        /\ PENDING' \in BOOLEAN /\ notified' \in BOOLEAN /\ quiet' \in BOOLEAN
        /\ Roused => Roused'
    <2>1. CASE UNCHANGED wake
      BY <2>1 DEF wake, ExecutorTypes, EmbassyTypeOK, Roused
    <2>2. CASE Wake("net", "task")
      <3>1. "net" \in Tasks /\ "task" \in Contexts
        BY DEF Tasks, Contexts
      <3> QED
        BY <1>1, <2>2, <3>1, Woken DEF EmbassyTypeOK
    <2>3. CASE Pend("critical") /\ UNCHANGED runq
      BY <2>3 DEF Pend, ExecutorTypes, EmbassyTypeOK, Roused
    <2> QED
      BY <2>1, <2>2, <2>3 DEF PollApp
  <1>3. timer' \in 0 .. MaxDelay \union {Never}
    BY DEF PollApp, EmbassyTypeOK
  <1>4. ExecutorTypes'
    BY <1>1, <1>2 DEF ExecutorTypes
  <1>5. EmbassyTypeOK'
    BY <1>1, <1>2, <1>3 DEF EmbassyTypeOK, ring, Tasks
  <1>6. BatchDone' /\ Armed' /\ NoFrameForgotten'
    BY <1>1, <1>2 DEF BatchDone, Armed, NoFrameForgotten, ring
  <1>7. RousedInTime' /\ SleepShort'
    BY <1>1, <1>2 DEF RousedInTime, SleepShort
  <1> QED
    BY <1>4, <1>5, <1>6, <1>7

-----------------------------------------------------------------------------
(* The poll of net.                                                        *)

LEMMA ReceiveKeepsFront ==
  ASSUME FrontInv, PollNet \/ ReceiveArm \/ Receiving \/ ReceiveNone
  PROVE  FrontInv'
  <1> USE EmbassyAssumption DEF EmbassyAssumption, clock, FrontInv, GoTo
  <1>1. /\ UNCHANGED <<wake, left, timer, held, txWaker, free, flying, outbox, sends, owed, input>>
        /\ xpc \in {"poll", "receive", "pop"}
        /\ xpc' \in {"receive", "pop", "consume", "transmit"}
        /\ batch' \subseteq batch
        /\ back' \in {"receive", "transmit"} /\ rxWaker' \in BOOLEAN
        /\ rx' \in 0 .. Depth
    <2>1. CASE PollNet
      BY <2>1 DEF PollNet, driver, ring, ExecutorTypes, EmbassyTypeOK
    <2>2. CASE ReceiveArm
      BY <2>2 DEF ReceiveArm, ring, ExecutorTypes, EmbassyTypeOK
    <2>3. CASE Receiving
      <3>1. rx' \in 0 .. Depth
        BY <2>3 DEF Receiving, EmbassyTypeOK
      <3> QED
        BY <2>3, <3>1 DEF Receiving, ExecutorTypes
    <2>4. CASE ReceiveNone
      BY <2>4 DEF ReceiveNone, driver, ring, ExecutorTypes, EmbassyTypeOK
    <2> QED
      BY <2>1, <2>2, <2>3, <2>4
  <1>2. ExecutorTypes'
    BY <1>1 DEF ExecutorTypes, wake
  <1>3. EmbassyTypeOK'
    BY <1>1 DEF EmbassyTypeOK, wake
  <1>4. BatchDone' /\ RousedInTime' /\ SleepShort'
    BY <1>1 DEF BatchDone, RousedInTime, Roused, SleepShort, wake
  <1>5. Armed'
    BY DEF Armed, PollNet, ReceiveArm, Receiving, ReceiveNone, driver, wake
  <1>6. NoFrameForgotten'
    BY DEF NoFrameForgotten, PollNet, ReceiveArm, Receiving, ReceiveNone, driver, ring, wake,
       EmbassyTypeOK
  <1> QED
    BY <1>2, <1>3, <1>4, <1>5, <1>6

LEMMA TransmitKeepsFront ==
  ASSUME FrontInv, TransmitArm \/ TransmitLook \/ Consume \/ LinkState
  PROVE  FrontInv'
  <1> USE EmbassyAssumption DEF EmbassyAssumption, clock, FrontInv, GoTo
  <1>1. /\ UNCHANGED <<wake, batch, left, timer, held, flying, sends, owed, ring>>
        /\ xpc \in {"transmit", "look", "consume", "link"}
        /\ xpc' \in {"poll", "receive", "transmit", "look", "consume", "submit", "link"}
        /\ back' \in {"receive", "transmit"} /\ rxWaker' \in {rxWaker, TRUE}
    BY DEF TransmitArm, TransmitLook, Consume, LinkState, driver, ExecutorTypes
  <1>2. ExecutorTypes'
    <2>1. free' \in Nat
      BY DEF TransmitArm, TransmitLook, Consume, LinkState, ExecutorTypes
    <2>2. txWaker' \in BOOLEAN
      BY DEF TransmitArm, TransmitLook, Consume, LinkState, ExecutorTypes
    <2> QED
      BY <1>1, <2>1, <2>2 DEF ExecutorTypes, wake
  <1>3. EmbassyTypeOK'
    <2>1. free' + flying' + (IF xpc' = "submit" THEN 1 ELSE 0) = Buffers
      BY DEF TransmitArm, TransmitLook, Consume, LinkState, driver, ExecutorTypes, EmbassyTypeOK
    <2> QED
      BY <1>1, <2>1 DEF EmbassyTypeOK, wake, ring
  <1>4. BatchDone' /\ RousedInTime' /\ SleepShort'
    BY <1>1 DEF BatchDone, RousedInTime, Roused, SleepShort, wake
  <1>5. Armed'
    <2>1. rxWaker \/ "net" \in runq \union batch
      BY <1>1 DEF Armed
    <2>2. rxWaker => rxWaker'
      BY <1>1 DEF ExecutorTypes
    <2> QED
      BY <1>1, <2>1, <2>2 DEF Armed, wake
  <1>6. NoFrameForgotten'
    BY DEF NoFrameForgotten, TransmitArm, TransmitLook, Consume, LinkState, driver, ring, wake,
       ExecutorTypes
  <1> QED
    BY <1>2, <1>3, <1>4, <1>5, <1>6

LEMMA PlusNothing ==
  ASSUME NEW a \in Nat, NEW b \in Nat
  PROVE  a + b + 0 = a + b
  OBVIOUS

LEMMA SubmitKeepsFront ==
  ASSUME FrontInv, Submit
  PROVE  FrontInv'
  <1> USE EmbassyAssumption DEF EmbassyAssumption, clock, FrontInv, GoTo
  <1>1. /\ xpc = "submit" /\ xpc' = back
        /\ UNCHANGED <<batch, left, timer, held, rxWaker, outbox, sends, back, owed, ring>>
    BY DEF Submit
  <1>2. /\ runq \subseteq runq' /\ runq' \subseteq runq \union {"net"}
        /\ runq' \intersect batch = {}
        /\ PENDING' \in BOOLEAN /\ notified' \in BOOLEAN /\ quiet' \in BOOLEAN
        /\ Roused => Roused'
    <2>1. CASE UNCHANGED wake
      BY <2>1 DEF wake, ExecutorTypes, EmbassyTypeOK, Roused
    <2>2. CASE Wake("net", "task")
      <3>1. "net" \in Tasks /\ "task" \in Contexts
        BY DEF Tasks, Contexts
      <3> QED
        BY <1>1, <2>2, <3>1, Woken DEF EmbassyTypeOK
    <2> QED
      BY <2>1, <2>2 DEF Submit
  <1>3. free' \in Nat /\ flying' \in Nat /\ free' + flying' = Buffers /\ txWaker' \in BOOLEAN
    <2>1. free + flying + 1 = Buffers /\ free \in Nat /\ flying \in Nat
      BY <1>1 DEF EmbassyTypeOK, ExecutorTypes
    <2>2. txWaker' \in BOOLEAN
      BY DEF Submit, ExecutorTypes
    <2>3. CASE flying' = flying + 1 /\ free' = free
      BY <2>1, <2>2, <2>3
    <2>4. CASE free' = free + 1 /\ flying' = flying
      BY <2>1, <2>2, <2>4
    <2> QED
      BY <2>3, <2>4 DEF Submit
  <1>4. ExecutorTypes'
    BY <1>1, <1>2, <1>3 DEF ExecutorTypes
  <1>5. EmbassyTypeOK'
    <2>1. xpc' \in {"receive", "transmit"}
      BY <1>1 DEF ExecutorTypes
    <2>2. free' + flying' + (IF xpc' = "submit" THEN 1 ELSE 0) = Buffers
      <3>1. xpc' # "submit"
        BY <2>1
      <3> QED
        BY <1>3, <3>1, PlusNothing
    <2>3. runq' \subseteq Tasks /\ runq' \intersect batch' = {}
      BY <1>1, <1>2 DEF EmbassyTypeOK, Tasks
    <2>4. UNCHANGED <<batch, left, timer, held, rx, input>>
      BY <1>1 DEF ring
    <2> QED
      BY <2>1, <2>2, <2>3, <2>4 DEF EmbassyTypeOK
  <1>6. BatchDone' /\ Armed' /\ NoFrameForgotten'
    BY <1>1, <1>2 DEF ExecutorTypes, BatchDone, Armed, NoFrameForgotten, ring
  <1>7. RousedInTime' /\ SleepShort'
    BY <1>1, <1>2 DEF ExecutorTypes, RousedInTime, SleepShort
  <1> QED
    BY <1>4, <1>5, <1>6, <1>7

LEMMA FrontHolds == EmbassySpec => []FrontInv
  <1>1. FrontInv /\ [EmbassyNext]_embassyVars => FrontInv'
    <2> SUFFICES ASSUME FrontInv, [EmbassyNext]_embassyVars PROVE FrontInv'
      OBVIOUS
    <2>1. CASE Executing
      BY <2>1, LoopKeepsFront, ExpireKeepsFront, PollAppKeepsFront, ReceiveKeepsFront,
         TransmitKeepsFront, SubmitKeepsFront DEF Executing
    <2>2. CASE Arrive \/ WakeRx \/ Confirmed \/ Tick
      BY <2>2, WorldKeepsFront, TickKeepsFront
    <2>3. CASE UNCHANGED embassyVars
      BY <2>3 DEF embassyVars, executor, clock, driver, ring, FrontInv, ExecutorTypes, EmbassyTypeOK,
         BatchDone, Armed, NoFrameForgotten, RousedInTime, Roused, SleepShort
    <2> QED
      BY <2>1, <2>2, <2>3 DEF EmbassyNext
  <1> QED
    BY <1>1, FrontStarts, PTL DEF EmbassySpec

\* A frame that waits in the ring has net enqueued or on its way to it once
\* its wake is through, whenever frames arrive, buffers come back and the
\* executor sleeps (WifiRxToken's receive, link_state, rx_push).
THEOREM FramesAreFetched == EmbassySpec => []NoFrameForgotten
  <1>1. FrontInv => NoFrameForgotten
    BY DEF FrontInv
  <1> QED
    BY <1>1, FrontHolds, PTL

\* The executor oversleeps its timer by no more than the ticks it was held up
\* between reading the clock and waiting, however many, and it does not sleep on
\* work that was notified: a wake that came after its look at PENDING ends the
\* sleep, unless it came from where nothing may notify (run, pend,
\* next_expiration).
THEOREM ExecutorSleepsInTime == EmbassySpec => []SleepsInTime
  <1>1. FrontInv => SleepsInTime
    BY DEF FrontInv, SleepsInTime, RousedInTime, Roused, WokenInTime, SleepShort, TimerInTime
  <1> QED
    BY <1>1, FrontHolds, PTL
=============================================================================
