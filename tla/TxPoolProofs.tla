---------------------------- MODULE TxPoolProofs ----------------------------
(***************************************************************************)
(* Proofs about TxPool, for any number of frames and any pool: no buffer   *)
(* belongs to two frames, none is lost, the peak never misses a use, and   *)
(* the MAC is told of the whole frame.                                     *)
(*                                                                         *)
(* Held(c) is what c can reach.  The invariant divides the slots in use    *)
(* among the frames instead, each part closed under next: a step changes   *)
(* the part of the frame that takes it by one slot at most, and a part     *)
(* turns out to be exactly what its frame can reach.                       *)
(***************************************************************************)
EXTENDS TxPool, FiniteSetTheorems, TLAPS

CursorIsRoot == {"claimed", "reset", "free", "release"}

\* What c points to is its own, and leads to nothing else.
Owns(M, c) ==
  /\ Roots(c) \cap Slots \subseteq M
  /\ ClosedUnderNext(M)
  /\ pc[c] \in {"cat", "info"} /\ cur[c] \in Slots => cur[c] \in M

\* Its slots form chains: no two meet, none is a ring, each begins with a
\* pointer of c and every slot is on one.
Chained(M, c) ==
  /\ \A s, t \in M : next[s] = next[t] /\ next[s] # Null => s = t
  /\ \A r \in Roots(c) \cap Slots : \A s \in M : next[s] # r
  /\ \A S \in SUBSET M : S # {} => \E s \in S : \A t \in S : next[t] # s
  /\ \A s \in M : s \in Roots(c) \/ \E t \in M : next[t] = s

\* Where c is in its calls says which pointers it has.
Calling(c) ==
  /\ second[c] # Null =>
       /\ pc[c] \in {"idle", "cat"} /\ next[second[c]] = Null
       /\ first[c] # Null /\ first[c] # second[c]
  /\ rest[c] # Null => pc[c] = "release" /\ rest[c] # first[c] /\ rest[c] # cur[c]
  /\ pc[c] \in CursorIsRoot /\ cur[c] \in Slots => cur[c] # first[c]
  /\ pc[c] \in {"claimed", "reset", "release"} => cur[c] \in Slots /\ next[cur[c]] = Null
  /\ pc[c] = "cat" => second[c] # Null /\ cur[c] \in Slots /\ cur[c] # second[c]
  /\ pc[c] = "info" => first[c] # Null /\ cur[c] \in Slots \cup {Null}
  /\ pc[c] = "told" => first[c] # Null /\ cur[c] = Null
  /\ pc[c] \notin {"info", "told"} => segs[c] = 0

\* The slots V that net_buf_tx_info has described are the frame up to the
\* cursor.
UpToCursor(V, c) ==
  /\ Cardinality(V) = segs[c]
  /\ cur[c] \notin V
  /\ first[c] \in V \cup {cur[c]}
  /\ \A s \in V : next[s] \in V \cup {cur[c]}
  /\ \A s \in V \cup {cur[c]} : s = first[c] \/ s = Null \/ \E t \in V : next[t] = s

Described(M, c) == pc[c] \in {"info", "told"} => \E V \in SUBSET M : UpToCursor(V, c)

ClientInv(M, c) == Owns(M, c) /\ Chained(M, c) /\ Calling(c) /\ Described(M, c)

\* H divides the slots in use among the frames.
Divides(H) ==
  /\ H \in [Clients -> SUBSET Slots]
  /\ \A c \in Clients : H[c] \cap free = {}
  /\ \A c, d \in Clients : c # d => H[c] \cap H[d] = {}
  /\ \A s \in Slots \ free : \E c \in Clients : s \in H[c]
  /\ \A s \in free : next[s] = Null

\* The peak counts what is in use, or an allocation is about to record it.
PeakInv ==
  \/ peak >= PoolSize - Cardinality(free)
  \/ \E c \in Clients : pc[c] = "claimed" /\ Cardinality(snap[c]) <= Cardinality(free)

PoolInv ==
  /\ TypeOK
  /\ PeakInv
  /\ \E H : Divides(H) /\ \A c \in Clients : ClientInv(H[c], c)

LEMMA SlotsFinite == IsFiniteSet(Slots) /\ Cardinality(Slots) = PoolSize
  BY PoolAssumption, FS_Interval DEF PoolAssumption, Slots

LEMMA PartsFinite ==
  ASSUME NEW S \in SUBSET Slots
  PROVE  IsFiniteSet(S) /\ Cardinality(S) \in Nat /\ Cardinality(S) <= PoolSize
  BY SlotsFinite, FS_Subset, FS_CardinalityType

LEMMA LowestIsMember ==
  ASSUME NEW S \in SUBSET Slots, S # {}
  PROVE  Lowest(S) \in S
  <1> DEFINE R == {p \in Nat \X Nat : p[1] < p[2]}
  <1>1. S \subseteq Nat
    BY PoolAssumption DEF PoolAssumption, Slots
  <1>2. IsWellFoundedOn(R, Nat)
    BY NatLessThanWellFounded DEF OpToRel
  <1>3. PICK s \in S : \A t \in S : ~ (<<t, s>> \in R)
    BY <1>1, <1>2, WFMin
  <1>4. ASSUME NEW t \in S PROVE s <= t
    <2>1. s \in Nat /\ t \in Nat /\ ~ (<<t, s>> \in R)
      BY <1>1, <1>3
    <2>2. ~ (t < s)
      BY <2>1
    <2> HIDE DEF R
    <2> QED
      BY <2>1, <2>2
  <1> QED
    BY <1>4 DEF Lowest

-----------------------------------------------------------------------------
(* A frame's part is exactly what it can reach.                            *)

LEMMA HeldIsPart ==
  ASSUME NEW c \in Clients, NEW M \in SUBSET Slots, Owns(M, c), Chained(M, c)
  PROVE  Held(c) = M
  <1>1. Held(c) \subseteq M
    BY DEF Held, Owns
  <1>2. ASSUME NEW S \in SUBSET Slots, Roots(c) \cap Slots \subseteq S, ClosedUnderNext(S)
        PROVE  M \subseteq S
    <2> SUFFICES ASSUME M \ S # {} PROVE FALSE
      OBVIOUS
    <2>1. PICK s \in M \ S : \A t \in M \ S : next[t] # s
      BY DEF Chained
    <2>2. PICK t \in M : next[t] = s
      BY <1>2, <2>1 DEF Chained
    <2>3. t \in S
      BY <2>1, <2>2
    <2>4. s = Null
      BY <1>2, <2>1, <2>2, <2>3 DEF ClosedUnderNext
    <2> QED
      BY <2>1, <2>4, PoolAssumption DEF PoolAssumption
  <1> QED
    BY <1>1, <1>2 DEF Held

\* What the MAC is told is the part.
LEMMA ToldIsPart ==
  ASSUME TypeOK, NEW c \in Clients, NEW M \in SUBSET Slots, ClientInv(M, c), pc[c] = "told"
  PROVE  segs[c] = Cardinality(Held(c))
  <1>1. PICK V \in SUBSET M : UpToCursor(V, c)
    BY DEF ClientInv, Described
  <1>2. /\ cur[c] = Null /\ first[c] # Null /\ second[c] = Null /\ rest[c] = Null
        /\ Roots(c) \subseteq {first[c], Null}
    BY DEF ClientInv, Calling, Roots
  <1>3. Null \notin Slots
    BY PoolAssumption DEF PoolAssumption
  <1>4. Roots(c) \cap Slots \subseteq V /\ ClosedUnderNext(V)
    BY <1>1, <1>2, <1>3 DEF UpToCursor, ClosedUnderNext
  <1>5. Held(c) \subseteq V
    BY <1>4 DEF Held
  <1>6. Held(c) = V
    BY <1>5, HeldIsPart DEF ClientInv
  <1> QED
    BY <1>1, <1>6 DEF UpToCursor

-----------------------------------------------------------------------------
(* The frames that do not take the step.                                   *)

LEMMA OthersKeep ==
  ASSUME TypeOK, NEW c \in Clients, NEW M \in SUBSET Slots, ClientInv(M, c),
         pc'[c] = pc[c], first'[c] = first[c], second'[c] = second[c], cur'[c] = cur[c],
         rest'[c] = rest[c], segs'[c] = segs[c],
         \A s \in M : next'[s] = next[s]
  PROVE  ClientInv(M, c)'
  <1> USE DEF ClientInv
  <1>1. Roots(c)' = Roots(c)
    BY DEF Roots
  <1>2. Owns(M, c)'
    BY <1>1 DEF Owns, ClosedUnderNext
  <1>3. Chained(M, c)'
    BY <1>1 DEF Chained
  <1>4. Calling(c)'
    <2>1. second[c] # Null => second[c] \in M
      BY DEF TypeOK, Owns, Roots
    <2>2. pc[c] \in {"claimed", "reset", "release"} => cur[c] \in M
      BY DEF Owns, Roots, Calling
    <2> QED
      BY <2>1, <2>2 DEF Calling
  <1>5. Described(M, c)'
    BY DEF Described, UpToCursor
  <1> QED
    BY <1>2, <1>3, <1>4, <1>5

OthersStand(c) ==
  \A d \in Clients : d # c =>
    /\ pc'[d] = pc[d] /\ first'[d] = first[d] /\ second'[d] = second[d]
    /\ cur'[d] = cur[d] /\ rest'[d] = rest[d] /\ segs'[d] = segs[d]

\* A step of c that gives it M2 for M and touches nothing of the others.
LEMMA PartChanges ==
  ASSUME TypeOK, NEW c \in Clients, NEW H, Divides(H), \A d \in Clients : ClientInv(H[d], d),
         NEW M2 \in SUBSET Slots, ClientInv(M2, c)',
         free' \in SUBSET Slots,
         M2 \cap free' = {}, M2 \cup free' = H[c] \cup free,
         \A s \in free' : next'[s] = Null,
         \A s \in Slots : s \notin H[c] => next'[s] = next[s],
         OthersStand(c)
  PROVE  \E G : Divides(G)' /\ \A d \in Clients : ClientInv(G[d], d)'
  <1> PICK G : G = [H EXCEPT ![c] = M2]
    OBVIOUS
  <1>1. /\ G \in [Clients -> SUBSET Slots] /\ G[c] = M2
        /\ \A d \in Clients : d # c => G[d] = H[d]
    BY DEF Divides
  <1>2. ASSUME NEW d \in Clients, d # c
        PROVE  G[d] \cap G[c] = {} /\ G[d] \cap free' = {} /\ ClientInv(G[d], d)'
    <2>1. H[d] \cap H[c] = {} /\ H[d] \cap free = {} /\ G[d] = H[d] /\ H[d] \in SUBSET Slots
      BY <1>1, <1>2 DEF Divides
    <2>2. H[d] \cap M2 = {} /\ H[d] \cap free' = {}
      BY <2>1
    <2>3. \A s \in H[d] : next'[s] = next[s]
      BY <2>1
    <2>4. ClientInv(H[d], d)'
      BY <1>2, <2>1, <2>3, OthersKeep DEF OthersStand
    <2> QED
      BY <1>1, <2>1, <2>2, <2>4
  <1>3. \A d \in Clients : ClientInv(G[d], d)'
    BY <1>1, <1>2
  <1>4. ASSUME NEW d \in Clients, NEW e \in Clients, d # e PROVE G[d] \cap G[e] = {}
    <2>1. CASE d # c /\ e # c
      BY <1>1, <1>4, <2>1 DEF Divides
    <2> QED
      BY <1>2, <1>4, <2>1
  <1>5. ASSUME NEW s \in Slots \ free' PROVE \E d \in Clients : s \in G[d]
    <2>1. CASE s \in free
      BY <1>1, <1>5, <2>1
    <2>2. CASE s \notin free
      <3>1. PICK d \in Clients : s \in H[d]
        BY <2>2 DEF Divides
      <3> QED
        BY <1>1, <1>5, <3>1
    <2> QED
      BY <2>1, <2>2
  <1>6. Divides(G)'
    BY <1>1, <1>2, <1>4, <1>5 DEF Divides
  <1> QED
    BY <1>3, <1>6

-----------------------------------------------------------------------------
(* The steps that change no chain: the pointers move from one place to     *)
(* another.                                                                *)

\* What such a step of c does to a part M of its own.
Rearranges(M, c) ==
  /\ TypeOK' /\ OthersStand(c) /\ UNCHANGED <<free, next>>
  /\ Roots(c)' \cap Slots = Roots(c) \cap Slots
  /\ pc'[c] \in {"cat", "info"} /\ cur'[c] \in Slots => cur'[c] \in M
  /\ Calling(c)' /\ Described(M, c)'

LEMMA RearrangingKeeps ==
  ASSUME TypeOK, NEW c \in Clients, NEW H, Divides(H), \A d \in Clients : ClientInv(H[d], d),
         Rearranges(H[c], c)
  PROVE  \E G : Divides(G)' /\ \A d \in Clients : ClientInv(G[d], d)'
  <1> USE DEF Rearranges
  <1>1. H[c] \in SUBSET Slots /\ H[c] \cap free = {} /\ \A s \in free : next[s] = Null
    BY DEF Divides
  <1>2. Owns(H[c], c)'
    BY DEF ClientInv, Owns, ClosedUnderNext
  <1>3. Chained(H[c], c)'
    <2>1. Chained(H[c], c)
      BY DEF ClientInv
    <2>2. \A s \in H[c] : s \in Roots(c)' <=> s \in Roots(c)
      BY <1>1
    <2> QED
      BY <2>1, <2>2 DEF Chained
  <1>4. ClientInv(H[c], c)'
    BY <1>2, <1>3 DEF ClientInv
  <1>5. free' \in SUBSET Slots
    BY DEF TypeOK
  <1> QED
    BY <1>1, <1>4, <1>5, PartChanges

LEMMA AllocRearranges ==
  ASSUME TypeOK, NEW c \in Clients, NEW M \in SUBSET Slots, ClientInv(M, c),
         \/ AllocLoad(c) \/ AllocExhausted(c) \/ AllocRetry(c) \/ AllocPeak(c)
         \/ AllocReturn(c) \/ AllocTooLong(c)
  PROVE  Rearranges(M, c)
  <1> USE PoolAssumption DEF PoolAssumption, Goto
  <1>1. Calling(c) /\ Owns(M, c)
    BY DEF ClientInv
  <1>2. CASE AllocLoad(c) \/ AllocExhausted(c) \/ AllocRetry(c)
    <2>1. TypeOK' /\ OthersStand(c) /\ UNCHANGED <<free, next, first, second, cur, rest, segs>>
          /\ pc[c] \in {"idle", "alloc"} /\ pc'[c] \in {"idle", "alloc"}
      BY <1>2 DEF TypeOK, OthersStand, AllocLoad, AllocExhausted, AllocRetry, Labels
    <2>2. Roots(c)' = Roots(c)
      BY <2>1 DEF Roots
    <2>3. second[c] # Null => pc'[c] = "idle"
      BY <1>1, <1>2 DEF Calling, AllocLoad, AllocExhausted, AllocRetry
    <2>4. Calling(c)'
      BY <1>1, <2>1, <2>3 DEF Calling, CursorIsRoot
    <2> QED
      BY <2>1, <2>2, <2>4 DEF Rearranges, Described
  <1>3. CASE AllocPeak(c)
    <2>1. /\ OthersStand(c) /\ UNCHANGED <<free, next, first, second, cur, rest, segs>>
          /\ pc[c] = "claimed" /\ pc'[c] = "reset" /\ pc' \in [Clients -> Labels]
          /\ snap' \in [Clients -> SUBSET Slots]
      BY <1>3 DEF TypeOK, OthersStand, AllocPeak, Labels
    <2>2. peak' \in 0 .. PoolSize
      <3>1. Cardinality(snap[c]) \in Nat /\ Cardinality(snap[c]) <= PoolSize
        BY PartsFinite DEF TypeOK
      <3>2. peak' = IF PoolSize - Cardinality(snap[c]) > peak THEN PoolSize - Cardinality(snap[c])
                    ELSE peak
        BY <1>3 DEF AllocPeak
      <3> QED
        BY <3>1, <3>2 DEF TypeOK
    <2>3. TypeOK'
      BY <2>1, <2>2 DEF TypeOK
    <2>4. Roots(c)' = Roots(c)
      BY <2>1 DEF Roots
    <2>5. Calling(c)'
      BY <1>1, <2>1 DEF Calling, CursorIsRoot
    <2> QED
      BY <2>1, <2>3, <2>4, <2>5 DEF Rearranges, Described
  <1>4. CASE AllocReturn(c)
    <2>1. pc[c] = "reset" /\ cur[c] \in Slots /\ next[cur[c]] = Null
          /\ cur[c] # first[c] /\ second[c] = Null /\ rest[c] = Null
      BY <1>1, <1>4 DEF AllocReturn, Calling, CursorIsRoot
    <2>2. next' = next
      BY <1>4, <2>1 DEF AllocReturn, TypeOK
    <2>3. /\ OthersStand(c) /\ UNCHANGED <<free, peak, snap, rest, segs>>
          /\ pc'[c] = "idle" /\ cur'[c] = Null /\ TypeOK'
      BY <1>4, <2>1, <2>2 DEF AllocReturn, TypeOK, OthersStand, Labels, Pointers
    <2>4. IF first[c] = Null THEN first'[c] = cur[c] /\ second'[c] = Null
          ELSE first'[c] = first[c] /\ second'[c] = cur[c]
      BY <1>4, <2>1 DEF AllocReturn, TypeOK
    <2>5. Roots(c)' \cap Slots = Roots(c) \cap Slots
      BY <2>1, <2>3, <2>4 DEF Roots
    <2>6. Calling(c)'
      BY <1>1, <2>1, <2>2, <2>3, <2>4 DEF Calling, CursorIsRoot
    <2> QED
      BY <2>2, <2>3, <2>5, <2>6 DEF Rearranges, Described
  <1>5. CASE AllocTooLong(c)
    <2>1. pc[c] = "reset" /\ cur[c] \in Slots /\ next[cur[c]] = Null
          /\ cur[c] # first[c] /\ second[c] = Null /\ rest[c] = Null
      BY <1>1, <1>5 DEF AllocTooLong, Calling, CursorIsRoot
    <2>2. next' = next
      BY <1>5, <2>1 DEF AllocTooLong, TypeOK
    <2>3. /\ OthersStand(c) /\ UNCHANGED <<free, peak, snap, first, second, cur, rest, segs>>
          /\ pc'[c] = "free" /\ TypeOK'
      BY <1>5, <2>1, <2>2 DEF AllocTooLong, TypeOK, OthersStand, Labels, Walking
    <2>4. Roots(c)' = Roots(c)
      BY <2>1, <2>3 DEF Roots
    <2>5. Calling(c)'
      BY <1>1, <2>1, <2>2, <2>3 DEF Calling, CursorIsRoot
    <2> QED
      BY <2>2, <2>3, <2>4, <2>5 DEF Rearranges, Described
  <1> QED
    BY <1>2, <1>3, <1>4, <1>5

LEMMA WalkingRearranges ==
  ASSUME TypeOK, NEW c \in Clients, NEW M \in SUBSET Slots, ClientInv(M, c),
         \/ CatStart(c) \/ CatWalk(c) \/ InfoTold(c) \/ FreeForeign(c) \/ FreeReject(c)
  PROVE  Rearranges(M, c)
  <1> USE PoolAssumption DEF PoolAssumption, Goto
  <1>1. Calling(c) /\ Owns(M, c) /\ Chained(M, c) /\ Described(M, c)
    BY DEF ClientInv
  <1>2. /\ OthersStand(c) /\ UNCHANGED <<free, next, peak, snap, first, second, rest, segs>>
        /\ pc' \in [Clients -> Labels]
    BY DEF TypeOK, OthersStand, CatStart, CatWalk, InfoTold, FreeForeign, FreeReject, Labels,
           Walking
  <1>3. CASE CatStart(c)
    <2>1. /\ pc[c] = "idle" /\ pc'[c] = "cat" /\ cur'[c] = first[c] /\ second[c] # Null
          /\ TypeOK'
      BY <1>2, <1>3 DEF CatStart, TypeOK, Pointers
    <2>2. first[c] \in Slots /\ first[c] # second[c]
      BY <1>1, <2>1 DEF Calling, TypeOK
    <2>3. Roots(c)' = Roots(c)
      BY <1>2, <2>1 DEF Roots
    <2>4. first[c] \in M
      BY <1>1, <2>2 DEF Owns, Roots
    <2>5. Calling(c)'
      BY <1>1, <1>2, <2>1, <2>2 DEF Calling, CursorIsRoot
    <2> QED
      BY <1>2, <2>1, <2>3, <2>4, <2>5 DEF Rearranges, Described
  <1>4. CASE CatWalk(c)
    <2>1. pc[c] = "cat" /\ pc'[c] = "cat" /\ next[cur[c]] # Null /\ second[c] # Null
          /\ cur[c] \in Slots
      BY <1>1, <1>4 DEF CatWalk, Calling
    <2>2. next[cur[c]] \in Slots /\ cur'[c] = next[cur[c]] /\ TypeOK'
      BY <1>2, <1>4, <2>1 DEF CatWalk, TypeOK, Pointers
    <2>3. cur[c] \in M /\ next[cur[c]] \in M
      BY <1>1, <2>1 DEF Owns, ClosedUnderNext
    <2>4. next[cur[c]] # second[c]
      <3>1. second[c] \in Roots(c) \cap Slots
        BY <2>1 DEF Roots, TypeOK
      <3> QED
        BY <1>1, <2>3, <3>1 DEF Chained
    <2>5. Roots(c)' = Roots(c)
      BY <1>2, <2>1 DEF Roots
    <2>6. Calling(c)'
      BY <1>1, <1>2, <2>1, <2>2, <2>4 DEF Calling, CursorIsRoot
    <2> QED
      BY <1>2, <2>1, <2>2, <2>3, <2>5, <2>6 DEF Rearranges, Described
  <1>5. CASE InfoTold(c)
    <2>1. pc[c] = "info" /\ pc'[c] = "told" /\ cur[c] = Null /\ UNCHANGED cur /\ TypeOK'
      BY <1>2, <1>5 DEF InfoTold, TypeOK
    <2>2. Roots(c)' = Roots(c)
      BY <1>2, <2>1 DEF Roots
    <2>3. Calling(c)'
      BY <1>1, <1>2, <2>1 DEF Calling, CursorIsRoot
    <2>4. Described(M, c)'
      BY <1>1, <1>2, <2>1 DEF Described, UpToCursor
    <2> QED
      BY <1>2, <2>1, <2>2, <2>3, <2>4 DEF Rearranges
  <1>6. CASE FreeForeign(c)
    <2>1. pc[c] = "idle" /\ pc'[c] = "free" /\ cur'[c] = Foreign /\ second[c] = Null /\ TypeOK'
      BY <1>2, <1>6 DEF FreeForeign, TypeOK, Pointers
    <2>2. Roots(c)' \cap Slots = Roots(c) \cap Slots
      BY <1>2, <2>1 DEF Roots
    <2>3. Calling(c)'
      BY <1>1, <1>2, <2>1 DEF Calling, CursorIsRoot
    <2> QED
      BY <1>2, <2>1, <2>2, <2>3 DEF Rearranges, Described
  <1>7. CASE FreeReject(c)
    <2>1. /\ pc[c] = "free" /\ pc'[c] = "idle" /\ cur[c] \notin Slots /\ cur'[c] = Null
          /\ TypeOK'
      BY <1>2, <1>7 DEF FreeReject, TypeOK, Pointers
    <2>2. Roots(c)' \cap Slots = Roots(c) \cap Slots
      BY <1>2, <2>1 DEF Roots
    <2>3. Calling(c)'
      BY <1>1, <1>2, <2>1 DEF Calling, CursorIsRoot
    <2> QED
      BY <1>2, <2>1, <2>2, <2>3 DEF Rearranges, Described
  <1> QED
    BY <1>3, <1>4, <1>5, <1>6, <1>7

\* A frame given back is one pointer still: where free is.
LEMMA GivingBackRearranges ==
  ASSUME TypeOK, NEW c \in Clients, NEW M \in SUBSET Slots, ClientInv(M, c), GiveBack(c),
         HasFrame(c) \/ pc[c] \in {"info", "told"}
  PROVE  Rearranges(M, c)
  <1> USE PoolAssumption DEF PoolAssumption, Goto
  <1>1. Calling(c) /\ Owns(M, c)
    BY DEF ClientInv
  <1>2. /\ OthersStand(c) /\ UNCHANGED <<free, next, peak, snap, second, rest>>
        /\ pc'[c] = "free" /\ cur'[c] = first[c] /\ first'[c] = Null /\ TypeOK'
    BY DEF GiveBack, TypeOK, OthersStand, Labels, Walking, Pointers
  <1>3. second[c] = Null /\ rest[c] = Null /\ first[c] # Null /\ pc[c] \notin CursorIsRoot
    BY <1>1 DEF Calling, HasFrame, CursorIsRoot
  <1>4. Roots(c)' \cap Slots = Roots(c) \cap Slots
    BY <1>2, <1>3 DEF Roots, CursorIsRoot
  <1>5. segs'[c] = 0
    BY DEF GiveBack, TypeOK
  <1>6. Calling(c)'
    BY <1>2, <1>3, <1>5 DEF Calling
  <1> QED
    BY <1>2, <1>4, <1>6 DEF Rearranges, Described

LEMMA AcceptingRearranges ==
  ASSUME TypeOK, NEW c \in Clients, NEW M \in SUBSET Slots, ClientInv(M, c), Accepted(c),
         HasFrame(c)
  PROVE  Rearranges(M, c)
  <1> USE PoolAssumption DEF PoolAssumption, Goto, HasFrame
  <1>1. Calling(c) /\ Owns(M, c)
    BY DEF ClientInv
  <1>2. /\ OthersStand(c) /\ UNCHANGED <<free, next, peak, snap, first, second, rest, segs>>
        /\ pc'[c] = "info" /\ cur'[c] = first[c] /\ TypeOK'
    BY DEF Accepted, TypeOK, OthersStand, Labels, Walking, Pointers
  <1>3. first[c] \in M
    BY <1>1 DEF Owns, Roots, TypeOK
  <1>4. Roots(c)' = Roots(c)
    BY <1>2 DEF Roots
  <1>5. Calling(c)'
    BY <1>1, <1>2, <1>3 DEF Calling, CursorIsRoot
  <1>6. UpToCursor({}, c)'
    BY <1>1, <1>2, FS_EmptySet DEF UpToCursor, Calling
  <1> QED
    BY <1>2, <1>3, <1>4, <1>5, <1>6 DEF Rearranges, Described

\* One more segment described: the cursor's, which was not among them.
LEMMA DescribingRearranges ==
  ASSUME TypeOK, NEW c \in Clients, NEW M \in SUBSET Slots, ClientInv(M, c), InfoWalk(c)
  PROVE  Rearranges(M, c)
  <1> USE PoolAssumption DEF PoolAssumption
  <1>1. Calling(c) /\ Owns(M, c) /\ Chained(M, c) /\ Described(M, c)
    BY DEF ClientInv
  <1>2. /\ OthersStand(c) /\ UNCHANGED <<free, next, peak, pc, snap, first, second, rest>>
        /\ pc[c] = "info" /\ first[c] # Null /\ cur[c] \in Slots /\ segs[c] < PoolSize
        /\ segs' = [segs EXCEPT ![c] = @ + 1] /\ cur' = [cur EXCEPT ![c] = next[cur[c]]]
    BY <1>1 DEF InfoWalk, TypeOK, OthersStand, Calling
  <1>3. cur[c] \in M /\ next[cur[c]] \in M \cup {Null} /\ next[cur[c]] \in Slots \cup {Null}
    BY <1>1, <1>2 DEF Owns, ClosedUnderNext
  <1>4. TypeOK' /\ cur'[c] = next[cur[c]] /\ segs'[c] = segs[c] + 1
    BY <1>2, <1>3 DEF TypeOK, Pointers
  <1>5. Roots(c)' = Roots(c)
    BY <1>2 DEF Roots
  <1>6. Calling(c)'
    BY <1>1, <1>2, <1>3, <1>4 DEF Calling, CursorIsRoot
  <1>7. PICK V \in SUBSET M : UpToCursor(V, c)
    BY <1>1, <1>2 DEF Described
  <1>8. PICK W \in SUBSET M : W = V \cup {cur[c]}
    BY <1>3
  <1>9. Cardinality(W) = segs'[c]
    <2>1. V \in SUBSET Slots
      OBVIOUS
    <2>2. IsFiniteSet(V) /\ Cardinality(V) = segs[c] /\ cur[c] \notin V
      BY <1>7, <2>1, PartsFinite DEF UpToCursor
    <2>3. Cardinality(V \cup {cur[c]}) = Cardinality(V) + 1
      BY <2>2, FS_AddElement
    <2> QED
      BY <1>4, <1>8, <2>2, <2>3
  \* The chain is no ring, and does not meet itself.
  <1>10. next[cur[c]] \notin W
    <2>1. next[cur[c]] # cur[c]
      <3>1. \E s \in {cur[c]} : \A t \in {cur[c]} : next[t] # s
        <4>1. {cur[c]} \in SUBSET M /\ {cur[c]} # {}
          BY <1>3
        <4> QED
          BY <1>1, <4>1 DEF Chained
      <3> QED
        BY <3>1
    <2>2. ASSUME next[cur[c]] \in V PROVE FALSE
      <3> DEFINE s == next[cur[c]]
      <3>1. s \in M /\ s \in Slots /\ s # Null
        BY <2>2
      <3>2. s # first[c]
        <4>1. first[c] \in Roots(c) \cap Slots
          BY <1>2 DEF Roots, TypeOK
        <4> QED
          BY <1>1, <1>3, <4>1 DEF Chained
      <3>3. PICK t \in V : next[t] = s
        BY <1>7, <2>2, <3>1, <3>2 DEF UpToCursor
      <3>4. t = cur[c]
        BY <1>1, <1>3, <3>1, <3>3 DEF Chained
      <3> QED
        BY <1>7, <3>3, <3>4 DEF UpToCursor
    <2> QED
      BY <1>8, <2>1, <2>2
  <1>11. UpToCursor(W, c)'
    <2>1. first[c] \in W
      BY <1>7, <1>8 DEF UpToCursor
    <2>2. \A s \in W : next[s] \in W \cup {next[cur[c]]}
      BY <1>7, <1>8 DEF UpToCursor
    <2>3. \A s \in W \cup {next[cur[c]]} : s = first[c] \/ s = Null \/ \E t \in W : next[t] = s
      BY <1>7, <1>8 DEF UpToCursor
    <2> QED
      BY <1>2, <1>4, <1>9, <1>10, <2>1, <2>2, <2>3 DEF UpToCursor
  <1>12. Described(M, c)'
    BY <1>11 DEF Described
  <1>13. cur'[c] \in Slots => cur'[c] \in M
    BY <1>3, <1>4
  <1> QED
    BY <1>2, <1>4, <1>5, <1>6, <1>12, <1>13 DEF Rearranges
-----------------------------------------------------------------------------
(* The steps that change a chain.                                          *)

\* fetch_and: a free slot becomes a frame of one buffer.
LEMMA ClaimingKeeps ==
  ASSUME TypeOK, NEW c \in Clients, NEW H, Divides(H), \A d \in Clients : ClientInv(H[d], d),
         AllocClaim(c)
  PROVE  TypeOK' /\ \E G : Divides(G)' /\ \A d \in Clients : ClientInv(G[d], d)'
  <1> USE PoolAssumption DEF PoolAssumption, Goto
  <1> PICK x : x = Lowest(snap[c])
    OBVIOUS
  <1>1. x \in Slots /\ x \in free
    <2>1. snap[c] \in SUBSET Slots /\ snap[c] # {} /\ snap[c] = free
      BY DEF AllocClaim, TypeOK
    <2> QED
      BY <2>1, LowestIsMember
  <1>2. /\ pc[c] = "alloc" /\ free' = free \ {x} /\ pc'[c] = "claimed" /\ cur'[c] = x
        /\ UNCHANGED <<next, peak, first, second, rest, segs>> /\ TypeOK' /\ OthersStand(c)
    BY <1>1 DEF AllocClaim, TypeOK, OthersStand, Labels, Pointers
  <1> PICK M : M = H[c]
    OBVIOUS
  <1>3. /\ M \in SUBSET Slots /\ M \cap free = {} /\ next[x] = Null /\ x \notin M
        /\ \A s \in free : next[s] = Null
    BY <1>1 DEF Divides
  <1>4. Calling(c) /\ Owns(M, c) /\ Chained(M, c)
    BY DEF ClientInv
  <1> PICK M2 : M2 = M \cup {x}
    OBVIOUS
  <1>5. second[c] = Null /\ rest[c] = Null /\ segs[c] = 0 /\ (first[c] # Null => first[c] \in M)
    BY <1>2, <1>4 DEF Calling, Owns, Roots, TypeOK
  <1>6. Roots(c)' \cap Slots = (Roots(c) \cap Slots) \cup {x}
    BY <1>1, <1>2, <1>5 DEF Roots
  <1>7. Owns(M2, c)'
    BY <1>2, <1>3, <1>4, <1>6 DEF Owns, ClosedUnderNext
  <1>8. Chained(M2, c)'
    <2>1. \A s, t \in M2 : next[s] = next[t] /\ next[s] # Null => s = t
      BY <1>3, <1>4 DEF Chained
    <2>2. \A s \in M2 : next[s] \in M \cup {Null}
      BY <1>3, <1>4 DEF Owns, ClosedUnderNext
    <2>3. ASSUME NEW r \in (Roots(c) \cap Slots) \cup {x}, NEW s \in M2 PROVE next[s] # r
      <3>1. CASE s = x
        BY <1>1, <1>3, <2>3, <3>1
      <3>2. CASE s # x /\ r = x
        BY <1>1, <1>3, <2>2, <3>2
      <3>3. CASE s # x /\ r # x
        BY <1>4, <2>3, <3>3 DEF Chained
      <3> QED
        BY <3>1, <3>2, <3>3
    <2>4. ASSUME NEW S \in SUBSET M2, S # {} PROVE \E s \in S : \A t \in S : next[t] # s
      <3>1. CASE S = {x}
        BY <1>1, <1>3, <3>1
      <3>2. CASE S # {x}
        <4>1. PICK s \in S \ {x} : \A t \in S \ {x} : next[t] # s
          <5>1. S \ {x} \in SUBSET M /\ S \ {x} # {}
            BY <2>4, <3>2
          <5> QED
            BY <1>4, <5>1 DEF Chained
        <4>2. s # Null
          BY <1>3, <4>1
        <4> QED
          BY <1>3, <4>1, <4>2
      <3> QED
        BY <3>1, <3>2
    <2>5. \A s \in M2 : s \in Roots(c)' \/ \E t \in M2 : next[t] = s
      <3>1. ASSUME NEW s \in M2 PROVE s \in Roots(c)' \/ \E t \in M2 : next[t] = s
        <4>1. CASE s = x
          BY <1>6, <4>1
        <4>2. CASE s # x
          BY <1>3, <1>4, <1>6, <4>2 DEF Chained
        <4> QED
          BY <4>1, <4>2
      <3> QED
        BY <3>1
    <2> QED
      BY <1>2, <1>6, <2>1, <2>3, <2>4, <2>5 DEF Chained
  <1>9. Calling(c)'
    BY <1>1, <1>2, <1>3, <1>5 DEF Calling, CursorIsRoot
  <1>10. ClientInv(M2, c)'
    BY <1>2, <1>7, <1>8, <1>9 DEF ClientInv, Described
  <1>11. /\ M2 \in SUBSET Slots /\ free' \in SUBSET Slots /\ M2 \cap free' = {}
         /\ M2 \cup free' = H[c] \cup free /\ \A s \in free' : next'[s] = Null
    BY <1>1, <1>2, <1>3 DEF TypeOK
  <1> QED
    BY <1>2, <1>10, <1>11, PartChanges

\* net_buf_tx_cat: the last segment gets a successor.
LEMMA LinkingKeeps ==
  ASSUME TypeOK, NEW c \in Clients, NEW H, Divides(H), \A d \in Clients : ClientInv(H[d], d),
         CatLink(c)
  PROVE  TypeOK' /\ \E G : Divides(G)' /\ \A d \in Clients : ClientInv(G[d], d)'
  <1> USE PoolAssumption DEF PoolAssumption, Goto
  <1> PICK M : M = H[c]
    OBVIOUS
  <1>1. M \in SUBSET Slots /\ M \cap free = {} /\ \A s \in free : next[s] = Null
    BY DEF Divides
  <1>2. Calling(c) /\ Owns(M, c) /\ Chained(M, c)
    BY DEF ClientInv
  <1> PICK x, y : x = cur[c] /\ y = second[c]
    OBVIOUS
  <1>3. /\ pc[c] = "cat" /\ next[x] = Null /\ y # Null /\ x # y /\ next[y] = Null
        /\ first[c] # Null /\ first[c] # y /\ rest[c] = Null /\ segs[c] = 0
        /\ x \in Slots /\ y \in Slots /\ first[c] \in Slots
    BY <1>2 DEF CatLink, Calling, TypeOK
  <1>4. x \in M /\ y \in M /\ first[c] \in M /\ Roots(c) \cap Slots = {first[c], y}
    BY <1>2, <1>3 DEF Owns, Roots
  <1>5. /\ next' = [next EXCEPT ![x] = y] /\ second' = [second EXCEPT ![c] = Null]
        /\ cur' = [cur EXCEPT ![c] = Null] /\ pc' = [pc EXCEPT ![c] = "idle"]
        /\ UNCHANGED <<free, peak, snap, first, rest, segs>>
    BY DEF CatLink
  <1>6. TypeOK' /\ OthersStand(c)
    BY <1>3, <1>5 DEF TypeOK, OthersStand, Labels, Pointers
  <1>7. /\ pc'[c] = "idle" /\ second'[c] = Null /\ cur'[c] = Null /\ next'[x] = y
        /\ \A s \in Slots : s # x => next'[s] = next[s]
    BY <1>3, <1>5 DEF TypeOK
  <1>8. Roots(c)' \cap Slots = {first[c]}
    BY <1>3, <1>5, <1>7 DEF Roots
  <1>9. \A s \in M : next[s] # y /\ next[s] # first[c]
    BY <1>2, <1>4 DEF Chained
  <1>10. Owns(M, c)'
    BY <1>1, <1>2, <1>4, <1>7, <1>8 DEF Owns, ClosedUnderNext
  <1>11. Chained(M, c)'
    <2>1. ASSUME NEW s \in M, NEW t \in M, next'[s] = next'[t], next'[s] # Null PROVE s = t
      <3>1. CASE s # x /\ t # x
        BY <1>1, <1>2, <1>7, <2>1, <3>1 DEF Chained
      <3>2. CASE s = x \/ t = x
        BY <1>1, <1>7, <1>9, <2>1, <3>2
      <3> QED
        BY <3>1, <3>2
    <2>2. \A s \in M : next'[s] # first[c]
      BY <1>1, <1>3, <1>7, <1>9
    <2>3. ASSUME NEW S \in SUBSET M, S # {} PROVE \E s \in S : \A t \in S : next'[t] # s
      <3>1. CASE S = {y}
        BY <1>3, <1>7, <3>1
      <3>2. CASE S # {y}
        <4>1. PICK s \in S \ {y} : \A t \in S \ {y} : next[t] # s
          <5>1. S \ {y} \in SUBSET M /\ S \ {y} # {}
            BY <2>3, <3>2
          <5> QED
            BY <1>2, <5>1 DEF Chained
        <4>2. s # Null /\ s # y
          BY <1>1, <4>1
        <4> QED
          BY <1>1, <1>3, <1>7, <4>1, <4>2
      <3> QED
        BY <3>1, <3>2
    <2>4. ASSUME NEW s \in M PROVE s = first[c] \/ \E t \in M : next'[t] = s
      <3>1. CASE s = y
        BY <1>4, <1>7, <3>1
      <3>2. CASE s # y
        <4>1. s = first[c] \/ \E t \in M : next[t] = s
          BY <1>1, <1>2, <1>4, <3>2 DEF Chained
        <4>2. s # Null
          BY <1>1
        <4> QED
          BY <1>1, <1>3, <1>7, <4>1, <4>2
      <3> QED
        BY <3>1, <3>2
    <2>5. \A s \in M : s \in Roots(c)' <=> s = first[c]
      BY <1>1, <1>8
    <2> QED
      BY <1>8, <2>1, <2>2, <2>3, <2>4, <2>5 DEF Chained
  <1>12. Calling(c)'
    BY <1>3, <1>5, <1>7 DEF Calling, CursorIsRoot
  <1>13. ClientInv(M, c)'
    BY <1>7, <1>10, <1>11, <1>12 DEF ClientInv, Described
  <1>14. \A s \in free' : next'[s] = Null
    BY <1>1, <1>4, <1>5, <1>7 DEF TypeOK
  <1>15. \A s \in Slots : s \notin M => next'[s] = next[s]
    BY <1>4, <1>7
  <1>16. free' \in SUBSET Slots /\ M \cap free' = {} /\ M \cup free' = M \cup free
    BY <1>1, <1>5 DEF TypeOK
  <1> QED
    BY <1>1, <1>6, <1>13, <1>14, <1>15, <1>16, PartChanges

\* free: the first segment is cut off, the rest remembered.
LEMMA DetachingKeeps ==
  ASSUME TypeOK, NEW c \in Clients, NEW H, Divides(H), \A d \in Clients : ClientInv(H[d], d),
         FreeDetach(c)
  PROVE  TypeOK' /\ \E G : Divides(G)' /\ \A d \in Clients : ClientInv(G[d], d)'
  <1> USE PoolAssumption DEF PoolAssumption, Goto
  <1> PICK M : M = H[c]
    OBVIOUS
  <1>1. M \in SUBSET Slots /\ M \cap free = {} /\ \A s \in free : next[s] = Null
    BY DEF Divides
  <1>2. Calling(c) /\ Owns(M, c) /\ Chained(M, c)
    BY DEF ClientInv
  <1> PICK x, y : x = cur[c] /\ y = next[cur[c]]
    OBVIOUS
  <1>3. /\ pc[c] = "free" /\ x \in Slots /\ next[x] = y /\ second[c] = Null /\ rest[c] = Null
        /\ x # first[c] /\ segs[c] = 0
    BY <1>2 DEF FreeDetach, Calling, CursorIsRoot
  <1>4. x \in M /\ y \in M \cup {Null} /\ Roots(c) \cap Slots = {first[c], x} \cap Slots
    BY <1>2, <1>3 DEF Owns, Roots, ClosedUnderNext
  <1>5. /\ next' = [next EXCEPT ![x] = Null] /\ rest' = [rest EXCEPT ![c] = y]
        /\ pc' = [pc EXCEPT ![c] = "release"]
        /\ UNCHANGED <<free, peak, snap, first, second, cur, segs>>
    BY DEF FreeDetach
  <1>6. TypeOK' /\ OthersStand(c)
    BY <1>1, <1>4, <1>5 DEF TypeOK, OthersStand, Labels, Walking
  <1>7. /\ pc'[c] = "release" /\ rest'[c] = y /\ next'[x] = Null
        /\ \A s \in Slots : s # x => next'[s] = next[s]
    BY <1>3, <1>5 DEF TypeOK
  <1>8. Roots(c)' \cap Slots = {first[c], x, y} \cap Slots
    BY <1>3, <1>5, <1>7 DEF Roots
  <1>9. first[c] \in Slots => first[c] \in M /\ \A s \in M : next[s] # first[c]
    <2>1. first[c] \in Slots => first[c] \in Roots(c) \cap Slots
      BY <1>4
    <2> QED
      BY <1>2, <2>1 DEF Chained, Owns
  <1>10. y # x
    BY <1>1, <1>2, <1>3, <1>4 DEF Chained
  <1>11. Owns(M, c)'
    <2>1. Roots(c)' \cap Slots \subseteq M
      BY <1>4, <1>8, <1>9
    <2>2. \A s \in M : next'[s] \in M \cup {Null}
      BY <1>1, <1>2, <1>7 DEF Owns, ClosedUnderNext
    <2> QED
      BY <1>7, <2>1, <2>2 DEF Owns, ClosedUnderNext
  <1>12. Chained(M, c)'
    <2>1. \A s, t \in M : next'[s] = next'[t] /\ next'[s] # Null => s = t
      BY <1>1, <1>2, <1>7 DEF Chained
    <2>2. ASSUME NEW r \in {first[c], x, y} \cap Slots, NEW s \in M PROVE next'[s] # r
      <3>1. CASE s = x
        BY <1>7, <2>2, <3>1
      <3>2. CASE s # x /\ r = y
        BY <1>1, <1>2, <1>3, <1>4, <1>7, <2>2, <3>2 DEF Chained
      <3>3. CASE s # x /\ r # y
        BY <1>1, <1>2, <1>4, <1>7, <2>2, <3>3 DEF Chained
      <3> QED
        BY <3>1, <3>2, <3>3
    <2>3. ASSUME NEW S \in SUBSET M, S # {} PROVE \E s \in S : \A t \in S : next'[t] # s
      <3>1. PICK s \in S : \A t \in S : next[t] # s
        BY <1>2, <2>3 DEF Chained
      <3>2. s # Null
        BY <1>1
      <3> QED
        BY <1>1, <1>7, <3>1, <3>2
    <2>4. ASSUME NEW s \in M PROVE s \in Roots(c)' \/ \E t \in M : next'[t] = s
      <3>1. CASE s = y
        BY <1>1, <1>8, <3>1
      <3>2. CASE s # y
        <4>1. s \in Roots(c) \/ \E t \in M : next[t] = s
          BY <1>2 DEF Chained
        <4>2. CASE s \in Roots(c)
          BY <1>1, <1>4, <1>8, <4>2
        <4>3. CASE \E t \in M : next[t] = s
          BY <1>1, <1>3, <1>7, <3>2, <4>3
        <4> QED
          BY <4>1, <4>2, <4>3
      <3> QED
        BY <3>1, <3>2
    <2> QED
      BY <1>8, <2>1, <2>2, <2>3, <2>4 DEF Chained
  <1>13. Calling(c)'
    <2>1. y # Null => y # first[c]
      BY <1>1, <1>3, <1>4, <1>9
    <2> QED
      BY <1>3, <1>5, <1>7, <1>10, <2>1 DEF Calling, CursorIsRoot
  <1>14. ClientInv(M, c)'
    BY <1>7, <1>11, <1>12, <1>13 DEF ClientInv, Described
  <1>15. /\ \A s \in free' : next'[s] = Null
         /\ \A s \in Slots : s \notin M => next'[s] = next[s]
    BY <1>1, <1>4, <1>5, <1>7 DEF TypeOK
  <1>16. free' \in SUBSET Slots /\ M \cap free' = {} /\ M \cup free' = M \cup free
    BY <1>1, <1>5 DEF TypeOK
  <1> QED
    BY <1>1, <1>6, <1>14, <1>15, <1>16, PartChanges

\* fetch_or: the segment that was cut off can be allocated again.
LEMMA ReleasingKeeps ==
  ASSUME TypeOK, NEW c \in Clients, NEW H, Divides(H), \A d \in Clients : ClientInv(H[d], d),
         FreeRelease(c)
  PROVE  TypeOK' /\ \E G : Divides(G)' /\ \A d \in Clients : ClientInv(G[d], d)'
  <1> USE PoolAssumption DEF PoolAssumption, Goto
  <1> PICK M : M = H[c]
    OBVIOUS
  <1>1. M \in SUBSET Slots /\ M \cap free = {} /\ \A s \in free : next[s] = Null
    BY DEF Divides
  <1>2. Calling(c) /\ Owns(M, c) /\ Chained(M, c)
    BY DEF ClientInv
  <1> PICK x, y : x = cur[c] /\ y = rest[c]
    OBVIOUS
  <1>3. /\ pc[c] = "release" /\ x \in Slots /\ next[x] = Null /\ second[c] = Null
        /\ x # first[c] /\ segs[c] = 0 /\ y \in Slots \cup {Null}
        /\ (y # Null => y # first[c] /\ y # x)
    BY <1>2 DEF FreeRelease, Calling, CursorIsRoot, TypeOK
  <1>4. Roots(c) \cap Slots = {first[c], x, y} \cap Slots /\ x \in M
    BY <1>2, <1>3 DEF Owns, Roots
  <1>5. /\ free' = free \cup {x} /\ cur' = [cur EXCEPT ![c] = y]
        /\ rest' = [rest EXCEPT ![c] = Null] /\ pc' = [pc EXCEPT ![c] = "free"]
        /\ UNCHANGED <<next, peak, snap, first, second, segs>>
    BY DEF FreeRelease
  <1>6. TypeOK' /\ OthersStand(c)
    BY <1>3, <1>5 DEF TypeOK, OthersStand, Labels, Walking, Pointers
  <1>7. pc'[c] = "free" /\ rest'[c] = Null /\ cur'[c] = y
    BY <1>5 DEF TypeOK
  <1>8. Roots(c)' \cap Slots = (Roots(c) \cap Slots) \ {x}
    BY <1>3, <1>4, <1>5, <1>7 DEF Roots
  <1> PICK M2 : M2 = M \ {x}
    OBVIOUS
  <1>9. \A s \in M : next[s] # x
    BY <1>2, <1>3, <1>4 DEF Chained
  <1>10. Owns(M2, c)'
    BY <1>2, <1>5, <1>7, <1>8, <1>9 DEF Owns, ClosedUnderNext
  <1>11. Chained(M2, c)'
    <2>1. \A s, t \in M2 : next[s] = next[t] /\ next[s] # Null => s = t
      BY <1>2 DEF Chained
    <2>2. \A r \in (Roots(c) \cap Slots) \ {x} : \A s \in M2 : next[s] # r
      BY <1>2 DEF Chained
    <2>3. \A S \in SUBSET M2 : S # {} => \E s \in S : \A t \in S : next[t] # s
      BY <1>2 DEF Chained
    <2>4. ASSUME NEW s \in M2 PROVE s \in Roots(c)' \/ \E t \in M2 : next[t] = s
      <3>1. CASE s \in Roots(c)
        BY <1>1, <1>8, <3>1
      <3>2. CASE s \notin Roots(c)
        <4>1. PICK t \in M : next[t] = s
          BY <1>2, <3>2 DEF Chained
        <4>2. t # x
          BY <1>1, <1>3, <4>1
        <4> QED
          BY <4>1, <4>2
      <3> QED
        BY <3>1, <3>2
    <2> QED
      BY <1>5, <1>8, <2>1, <2>2, <2>3, <2>4 DEF Chained
  <1>12. Calling(c)'
    BY <1>2, <1>3, <1>5, <1>7 DEF Calling, CursorIsRoot
  <1>13. ClientInv(M2, c)'
    BY <1>7, <1>10, <1>11, <1>12 DEF ClientInv, Described
  <1>14. free' \in SUBSET Slots /\ M2 \cap free' = {} /\ M2 \cup free' = M \cup free
    BY <1>1, <1>3, <1>4, <1>5 DEF TypeOK
  <1>15. /\ \A s \in free' : next'[s] = Null
         /\ \A s \in Slots : s \notin M => next'[s] = next[s]
    BY <1>1, <1>3, <1>5
  <1>16. M2 \in SUBSET Slots
    BY <1>1
  <1> QED
    BY <1>6, <1>13, <1>14, <1>15, <1>16, PartChanges

-----------------------------------------------------------------------------
(* The peak.                                                               *)

LEMMA PeakKeeps ==
  ASSUME TypeOK, TypeOK', PeakInv, NEW c \in Clients, ClientStep(c)
  PROVE  PeakInv'
  <1> USE PoolAssumption DEF PoolAssumption, Goto
  <1> DEFINE n == Cardinality(free)
  <1>1. /\ n \in Nat /\ Cardinality(free') \in Nat
        /\ \A d \in Clients : Cardinality(snap[d]) \in Nat
    BY PartsFinite DEF TypeOK
  <1>2. CASE AllocClaim(c)
    <2>1. pc'[c] = "claimed" /\ snap'[c] = free'
      BY <1>2 DEF AllocClaim, TypeOK
    <2> QED
      BY <1>1, <2>1 DEF PeakInv
  <1>3. CASE AllocPeak(c)
    <2> DEFINE inUse == PoolSize - Cardinality(snap[c])
    <2>1. /\ peak' = IF inUse > peak THEN inUse ELSE peak
          /\ free' = free /\ \A d \in Clients : d # c => pc'[d] = pc[d] /\ snap'[d] = snap[d]
      BY <1>3 DEF AllocPeak, TypeOK
    <2>2. peak \in Int /\ inUse \in Int /\ peak' >= peak /\ peak' >= inUse
      BY <1>1, <2>1 DEF TypeOK
    <2>3. CASE peak >= PoolSize - n
      BY <1>1, <2>1, <2>2, <2>3 DEF PeakInv, TypeOK
    <2>4. ASSUME NEW d \in Clients, pc[d] = "claimed", Cardinality(snap[d]) <= n PROVE PeakInv'
      <3>1. CASE d = c
        <4>1. PoolSize - n <= inUse
          BY <1>1, <2>4, <3>1
        <4>2. peak' \in Int /\ PoolSize - n \in Int
          BY <1>1 DEF TypeOK
        <4> HIDE DEF inUse
        <4>3. peak' >= PoolSize - n
          BY <2>2, <4>1, <4>2
        <4> QED
          BY <2>1, <4>3 DEF PeakInv
      <3>2. CASE d # c
        BY <2>1, <2>4, <3>2 DEF PeakInv
      <3> QED
        BY <3>1, <3>2
    <2> QED
      BY <2>3, <2>4 DEF PeakInv
  <1>4. CASE FreeRelease(c)
    <2>1. UNCHANGED <<peak, snap>> /\ \A d \in Clients : pc[d] = "claimed" => pc'[d] = "claimed"
      BY <1>4 DEF FreeRelease, TypeOK
    <2>2. n <= Cardinality(free')
      <3>1. IsFiniteSet(free') /\ free \in SUBSET free'
        BY <1>4, PartsFinite DEF FreeRelease, TypeOK
      <3> QED
        BY <3>1, FS_Subset
    <2>3. CASE peak >= PoolSize - n
      <3>1. peak \in Int /\ peak >= PoolSize - Cardinality(free')
        BY <1>1, <2>2, <2>3 DEF TypeOK
      <3> QED
        BY <2>1, <3>1 DEF PeakInv
    <2>4. ASSUME NEW d \in Clients, pc[d] = "claimed", Cardinality(snap[d]) <= n PROVE PeakInv'
      <3>1. Cardinality(snap[d]) <= Cardinality(free')
        BY <1>1, <2>2, <2>4
      <3> QED
        BY <2>1, <2>4, <3>1 DEF PeakInv
    <2> QED
      BY <2>3, <2>4 DEF PeakInv
  <1>5. CASE ~ (AllocClaim(c) \/ AllocPeak(c) \/ FreeRelease(c))
    <2>1. /\ UNCHANGED <<free, peak>> /\ pc[c] # "claimed"
          /\ \A d \in Clients : d # c => pc'[d] = pc[d] /\ snap'[d] = snap[d]
      <3>1. CASE \/ AllocLoad(c) \/ AllocExhausted(c) \/ AllocRetry(c)
                 \/ AllocReturn(c) \/ AllocTooLong(c)
        BY <3>1 DEF AllocLoad, AllocExhausted, AllocRetry, AllocReturn, AllocTooLong, TypeOK
      <3>2. CASE CatStart(c) \/ CatWalk(c) \/ CatLink(c)
        BY <3>2 DEF CatStart, CatWalk, CatLink, TypeOK
      <3>3. CASE \/ TxReq(c) \/ ConsumeToken(c) \/ InfoWalk(c) \/ InfoRefuse(c) \/ InfoTold(c)
                 \/ Confirm(c) \/ FreeFrame(c)
        BY <3>3 DEF TxReq, ConsumeToken, HasFrame, Accepted, GiveBack, InfoWalk, InfoRefuse,
                    InfoTold, Confirm, FreeFrame, TypeOK
      <3>4. CASE FreeForeign(c) \/ FreeReject(c) \/ FreeDetach(c)
        BY <3>4 DEF FreeForeign, FreeReject, FreeDetach, TypeOK
      <3> QED
        BY <1>5, <3>1, <3>2, <3>3, <3>4 DEF ClientStep
    <2>2. \A d \in Clients : pc[d] = "claimed" => pc'[d] = "claimed" /\ snap'[d] = snap[d]
      BY <2>1
    <2> QED
      BY <2>1, <2>2 DEF PeakInv
  <1> QED
    BY <1>2, <1>3, <1>4, <1>5

-----------------------------------------------------------------------------
(* The theorems.                                                           *)

LEMMA StepKeeps == PoolInv /\ [Next]_vars => PoolInv'
  <1> SUFFICES ASSUME PoolInv, [Next]_vars PROVE PoolInv'
    OBVIOUS
  <1>1. CASE UNCHANGED vars
    <2>1. PICK H : Divides(H) /\ \A d \in Clients : ClientInv(H[d], d)
      BY DEF PoolInv
    <2>2. TypeOK' /\ PeakInv' /\ Divides(H)'
      BY <1>1, <2>1 DEF vars, PoolInv, TypeOK, PeakInv, Divides
    <2>3. ASSUME NEW d \in Clients PROVE ClientInv(H[d], d)'
      <3>1. H[d] \in SUBSET Slots /\ TypeOK
        BY <2>1 DEF Divides, PoolInv
      <3> QED
        BY <1>1, <2>1, <3>1, OthersKeep DEF vars
    <2> QED
      BY <2>2, <2>3 DEF PoolInv
  <1>2. ASSUME NEW c \in Clients, ClientStep(c) PROVE PoolInv'
    <2>1. PICK H : Divides(H) /\ \A d \in Clients : ClientInv(H[d], d)
      BY DEF PoolInv
    <2>2. TypeOK /\ PeakInv /\ H[c] \in SUBSET Slots /\ ClientInv(H[c], c)
      BY <2>1 DEF PoolInv, Divides
    <2> DEFINE Goal == TypeOK' /\ \E G : Divides(G)' /\ \A d \in Clients : ClientInv(G[d], d)'
    <2>3. Rearranges(H[c], c) => Goal
      BY <2>1, <2>2, RearrangingKeeps DEF Rearranges
    <2> HIDE DEF Goal
    <2>4. ASSUME \/ AllocLoad(c) \/ AllocExhausted(c) \/ AllocRetry(c) \/ AllocPeak(c)
                 \/ AllocReturn(c) \/ AllocTooLong(c)
          PROVE  Goal
      BY <2>2, <2>3, <2>4, AllocRearranges
    <2>5. ASSUME \/ CatStart(c) \/ CatWalk(c) \/ InfoTold(c) \/ FreeForeign(c) \/ FreeReject(c)
          PROVE  Goal
      BY <2>2, <2>3, <2>5, WalkingRearranges
    <2>6. ASSUME TxReq(c) \/ ConsumeToken(c) \/ InfoRefuse(c) \/ Confirm(c) \/ FreeFrame(c)
          PROVE  Goal
      <3>1. \/ GiveBack(c) /\ (HasFrame(c) \/ pc[c] \in {"info", "told"})
            \/ Accepted(c) /\ HasFrame(c)
        BY <2>6 DEF TxReq, ConsumeToken, InfoRefuse, Confirm, FreeFrame
      <3> QED
        BY <2>2, <2>3, <3>1, GivingBackRearranges, AcceptingRearranges
    <2>7. ASSUME InfoWalk(c)
          PROVE  Goal
      BY <2>2, <2>3, <2>7, DescribingRearranges
    <2>8. ASSUME AllocClaim(c) \/ CatLink(c) \/ FreeDetach(c) \/ FreeRelease(c)
          PROVE  Goal
      BY <2>1, <2>2, <2>8, ClaimingKeeps, LinkingKeeps, DetachingKeeps, ReleasingKeeps DEF Goal
    <2>9. Goal
      BY <1>2, <2>4, <2>5, <2>6, <2>7, <2>8 DEF ClientStep
    <2>10. TypeOK' /\ \E G : Divides(G)' /\ \A d \in Clients : ClientInv(G[d], d)'
      BY <2>9 DEF Goal
    <2>11. PeakInv'
      BY <1>2, <2>2, <2>10, PeakKeeps
    <2> QED
      BY <2>10, <2>11 DEF PoolInv
  <1> QED
    BY <1>1, <1>2 DEF Next

LEMMA InitHolds == Init => PoolInv
  <1> SUFFICES ASSUME Init PROVE PoolInv
    OBVIOUS
  <1> USE PoolAssumption DEF PoolAssumption, Init
  <1>1. TypeOK
    BY FS_EmptySet DEF TypeOK, Labels, Pointers
  <1>2. PeakInv
    BY SlotsFinite DEF PeakInv
  <1> PICK H : H = [c \in Clients |-> {}]
    OBVIOUS
  <1>3. Divides(H)
    BY DEF Divides
  <1>4. ASSUME NEW c \in Clients PROVE ClientInv(H[c], c)
    <2>1. H[c] = {} /\ Roots(c) \cap Slots = {}
      BY DEF Roots
    <2> QED
      BY <2>1 DEF ClientInv, Owns, ClosedUnderNext, Chained, Calling, CursorIsRoot, Described
  <1> QED
    BY <1>1, <1>2, <1>3, <1>4 DEF PoolInv

LEMMA Invariance == Spec => []PoolInv
  BY StepKeeps, InitHolds, PTL DEF Spec

\* The parts are what the frames hold.
LEMMA HeldDivides ==
  ASSUME PoolInv
  PROVE  Divides([c \in Clients |-> Held(c)])
  <1>1. PICK H : Divides(H) /\ \A d \in Clients : ClientInv(H[d], d)
    BY DEF PoolInv
  <1>2. ASSUME NEW c \in Clients PROVE Held(c) = H[c]
    <2>1. H[c] \in SUBSET Slots /\ ClientInv(H[c], c)
      BY <1>1 DEF Divides
    <2> QED
      BY <2>1, HeldIsPart DEF ClientInv
  <1>3. H = [c \in Clients |-> Held(c)]
    BY <1>1, <1>2 DEF Divides
  <1> QED
    BY <1>1, <1>3

\* alloc, net_buf_tx_cat and free: however tasks and interrupts interleave in
\* them, no buffer belongs to two frames and none in use is free to claim.
THEOREM BuffersAreExclusive == Spec => []Exclusive
  <1>1. PoolInv => Exclusive
    BY HeldDivides DEF Exclusive, Divides
  <1> QED
    BY <1>1, Invariance, PTL

\* alloc and free: no buffer is lost, and the peak misses no use.
THEOREM BuffersAreAccountedFor == Spec => []Accounted
  <1>1. PoolInv => NoLeak
    <2> SUFFICES ASSUME PoolInv PROVE NoLeak
      OBVIOUS
    <2>1. free \in SUBSET Slots /\ \A s \in Slots \ free : \E c \in Clients : s \in Held(c)
      BY HeldDivides DEF Divides, PoolInv, TypeOK
    <2>2. \A c \in Clients : Held(c) \subseteq Slots
      BY DEF Held
    <2> QED
      BY <2>1, <2>2 DEF NoLeak
  <1>2. PoolInv => TypeOK /\ PeakCounts
    BY DEF PoolInv, PeakInv, PeakCounts
  <1> QED
    BY <1>1, <1>2, Invariance, PTL DEF Accounted

\* net_buf_tx_info: a frame the MAC accepts is described to it to the last
\* segment.
THEOREM WholeFramesAreSent == Spec => []WholeFrame
  <1>1. PoolInv => WholeFrame
    <2> SUFFICES ASSUME PoolInv, NEW c \in Clients, pc[c] = "told"
                 PROVE  segs[c] = Cardinality(Held(c))
      BY DEF WholeFrame
    <2>1. PICK H : Divides(H) /\ \A d \in Clients : ClientInv(H[d], d)
      BY DEF PoolInv
    <2>2. H[c] \in SUBSET Slots /\ ClientInv(H[c], c) /\ TypeOK
      BY <2>1 DEF Divides, PoolInv
    <2> QED
      BY <2>2, ToldIsPart
  <1> QED
    BY <1>1, Invariance, PTL
=============================================================================
