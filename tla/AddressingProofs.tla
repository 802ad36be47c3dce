-------------------------- MODULE AddressingProofs --------------------------
(***************************************************************************)
(* Proofs about Dhcp, for any stations, table size and pools, and whatever *)
(* the network loses: the table stays in order, no two stations use one    *)
(* address, a lease changes only by what its station sent, an address      *)
(* offered can be had while there is a slot, and one in use be renewed.    *)
(*                                                                         *)
(* And about IpStack, whose task binds addresses and runs that server, for *)
(* any tasks and any programs of calls: a handle leads to the interface it *)
(* was made for, one task polls, and, while one task asks for the server   *)
(* and none for a client, an answer is to the request it is read for.      *)
(***************************************************************************)
EXTENDS Dhcp, IpStack, FiniteSetTheorems, TLAPS

PoolOK == first \in 2 .. LastHost /\ last \in first .. LastHost

LeasedTo(c, h) == \E s \in TableSlots : leases[s] = [mac |-> c, host |-> h]

-----------------------------------------------------------------------------
(* What find() returns.                                                    *)

LEMMA LeastExists ==
  ASSUME NEW S, NEW n \in Nat, S \subseteq 0 .. n, S # {}
  PROVE  \E x \in S : \A y \in S : x <= y
  <1> DEFINE R == {p \in Nat \X Nat : p[1] < p[2]}
  <1>1. S \subseteq Nat
    OBVIOUS
  <1>2. IsWellFoundedOn(R, Nat)
    BY NatLessThanWellFounded DEF OpToRel
  <1>3. PICK x \in S : \A y \in S : ~ (<<y, x>> \in R)
    BY <1>1, <1>2, WFMin
  <1>4. ASSUME NEW y \in S PROVE x <= y
    <2>1. x \in Nat /\ y \in Nat /\ ~ (<<y, x>> \in R)
      BY <1>1, <1>3
    <2>2. ~ (y < x)
      BY <2>1
    <2> HIDE DEF R
    <2> QED
      BY <2>1, <2>2
  <1> QED
    BY <1>4

LEMMA FirstOfIsMember ==
  ASSUME NEW S, NEW n \in Nat, S \subseteq 0 .. n, S # {}
  PROVE  FirstOf(S) \in S
  BY LeastExists DEF FirstOf

\* The slots a client owns are at most one, and its address is the pool's.
LEMMA OfferedFromPool ==
  ASSUME TypeOK, PoolOK, TableConsistent, NEW c \in Clients
  PROVE  /\ Offer(c) \in Hosts
         /\ OwnSlots(c) # {} => LeasedTo(c, Offer(c)) /\ Offer(c) # NoAddress
         /\ OwnSlots(c) = {} => Offer(c) = NoAddress \/ Offer(c) \in Untaken
         /\ Offer(c) # NoAddress => Offer(c) \in first .. last /\ ~HeldByOther(c, Offer(c))
  <1> USE DhcpAssumption DEF DhcpAssumption, NoAddress
  <1>1. CASE OwnSlots(c) # {}
    <2> DEFINE s == FirstOf(OwnSlots(c))
    <2>1. s \in OwnSlots(c)
      <3>1. OwnSlots(c) \subseteq 0 .. Slots /\ Slots \in Nat
        BY DEF OwnSlots, TableSlots
      <3> QED
        BY <1>1, <3>1, FirstOfIsMember
    <2>2. Offer(c) = leases[s].host
      BY <1>1 DEF Offer
    <2> HIDE DEF s
    <2>3. s \in TableSlots /\ leases[s].mac = c /\ leases[s].host # 0
          /\ leases[s] \in [mac : Clients \cup {Nobody}, host : Hosts]
      BY <2>1 DEF OwnSlots, TypeOK
    <2>4. leases[s] = [mac |-> c, host |-> leases[s].host] /\ leases[s].host \in first .. last
      BY <2>3 DEF TableConsistent
    <2>5. ~HeldByOther(c, leases[s].host)
      BY <2>3 DEF HeldByOther, TableConsistent
    <2> QED
      BY <1>1, <2>2, <2>3, <2>4, <2>5 DEF LeasedTo
  <1>2. CASE OwnSlots(c) = {} /\ Untaken # {}
    <2>1. Offer(c) \in Untaken
      <3>1. Untaken \subseteq 0 .. LastHost /\ LastHost \in Nat
        BY DEF Untaken, PoolOK
      <3> QED
        BY <1>2, <3>1, FirstOfIsMember DEF Offer
    <2>2. Offer(c) \in first .. last /\ Offer(c) \notin Taken
      BY <2>1 DEF Untaken
    <2>3. Offer(c) \in Hosts
      BY <2>2 DEF PoolOK, Hosts
    <2> QED
      BY <1>2, <2>1, <2>2, <2>3 DEF HeldByOther, Taken
  <1>3. CASE OwnSlots(c) = {} /\ Untaken = {}
    BY <1>3 DEF Offer, Hosts
  <1> QED
    BY <1>1, <1>2, <1>3

\* commit puts the address into the client's slot, or into an empty one when
\* it has none, and the address is nobody else's.
LEMMA CommitsToOwnSlot ==
  ASSUME TypeOK, PoolOK, TableConsistent, NEW c \in Clients, NEW w \in Hosts,
         CanCommit(c, w)
  PROVE  LET h == CommitHost(c, w) IN
         /\ h \in first .. last /\ h \in Hosts /\ h # NoAddress /\ ~HeldByOther(c, h)
         /\ w \in first .. last => h = w
         /\ w \notin first .. last => h = Offer(c)
         /\ \E s \in TableSlots :
              /\ Committed(c, w) = [leases EXCEPT ![s] = [mac |-> c, host |-> h]]
              /\ OwnSlots(c) # {} => s \in OwnSlots(c)
              /\ OwnSlots(c) = {} => leases[s].host = NoAddress
  <1> USE DhcpAssumption DEF DhcpAssumption, NoAddress
  <1> DEFINE h == CommitHost(c, w)
             s == FirstOf(CommitSlots(c, h))
  <1>1. h # 0 /\ CommitSlots(c, h) # {}
    BY DEF CanCommit
  <1>2. /\ h \in first .. last /\ ~HeldByOther(c, h)
        /\ w \in first .. last => h = w
        /\ w \notin first .. last => h = Offer(c)
    <2>1. CASE w \in first .. last
      BY <1>1, <2>1 DEF CommitHost
    <2>2. CASE w \notin first .. last
      BY <1>1, <2>2, OfferedFromPool DEF CommitHost
    <2> QED
      BY <2>1, <2>2
  <1>3. h \in Hosts
    BY <1>2 DEF PoolOK, Hosts
  <1>4. s \in CommitSlots(c, h) /\ s \in TableSlots
    <2>1. CommitSlots(c, h) \subseteq TableSlots /\ TableSlots \subseteq 0 .. Slots /\ Slots \in Nat
      BY DEF CommitSlots, OwnSlots, TableSlots
    <2> QED
      BY <1>1, <2>1, FirstOfIsMember
  <1>5. Committed(c, w) = [leases EXCEPT ![s] = [mac |-> c, host |-> h]]
    BY DEF Committed
  <1> HIDE DEF h, s
  <1>6. {t \in TableSlots : leases[t].host = h} \subseteq OwnSlots(c)
    BY <1>1, <1>2 DEF HeldByOther, OwnSlots
  <1>7. /\ OwnSlots(c) # {} => s \in OwnSlots(c)
        /\ OwnSlots(c) = {} => leases[s].host = 0
    BY <1>4, <1>6 DEF CommitSlots
  <1> QED
    BY <1>1, <1>2, <1>3, <1>4, <1>5, <1>7 DEF h

LEMMA CommitKeepsTable ==
  ASSUME TypeOK, PoolOK, TableConsistent, NEW c \in Clients, NEW w \in Hosts,
         CanCommit(c, w), leases' = Committed(c, w), UNCHANGED <<first, last>>,
         NEW h, h = CommitHost(c, w)
  PROVE  /\ leases' \in [TableSlots -> [mac : Clients \cup {Nobody}, host : Hosts]]
         /\ TableConsistent'
         /\ LeasedTo(c, h)'
         /\ \A d \in Clients : d # c => \A x : LeasedTo(d, x)' = LeasedTo(d, x)
         /\ \A d \in Clients : d # c => LeaseOf(leases', d) = LeaseOf(leases, d)
  <1> USE DhcpAssumption DEF DhcpAssumption, NoAddress
  <1>1. /\ h \in first .. last /\ h \in Hosts /\ h # 0 /\ ~HeldByOther(c, h)
        /\ \E s \in TableSlots :
              /\ Committed(c, w) = [leases EXCEPT ![s] = [mac |-> c, host |-> h]]
              /\ OwnSlots(c) # {} => s \in OwnSlots(c)
              /\ OwnSlots(c) = {} => leases[s].host = 0
    BY CommitsToOwnSlot
  <1>2. PICK s \in TableSlots :
              /\ Committed(c, w) = [leases EXCEPT ![s] = [mac |-> c, host |-> h]]
              /\ OwnSlots(c) # {} => s \in OwnSlots(c)
              /\ OwnSlots(c) = {} => leases[s].host = 0
    BY <1>1
  <1> DEFINE new == [mac |-> c, host |-> h]
  <1>4. /\ leases' \in [TableSlots -> [mac : Clients \cup {Nobody}, host : Hosts]]
        /\ leases'[s] = new
        /\ \A t \in TableSlots : t # s => leases'[t] = leases[t]
    BY <1>1, <1>2 DEF TypeOK
  \* No other slot has the client or the address.
  <1>5. \A t \in TableSlots : t # s => leases[t].mac # c /\ leases[t].host # h
    <2> SUFFICES ASSUME NEW t \in TableSlots, t # s PROVE leases[t].mac # c /\ leases[t].host # h
      OBVIOUS
    <2>1. leases[t].host = 0 => leases[t].mac = Nobody
      BY DEF TableConsistent, Empty
    <2>2. leases[t].host # 0 /\ leases[t].mac = c => FALSE
      BY <1>2 DEF OwnSlots, TableConsistent
    <2> QED
      BY <1>1, <2>1, <2>2 DEF HeldByOther
  \* What was in this slot was the client's lease, or nothing.
  <1>6. leases[s].mac \in {c, Nobody}
    BY <1>2 DEF OwnSlots, TableConsistent, Empty
  <1>7. TableConsistent'
    <2>1. ASSUME NEW t \in TableSlots, NEW u \in TableSlots, t # u, leases'[t].host # 0
          PROVE  leases'[t].host # leases'[u].host /\ leases'[t].mac # leases'[u].mac
      <3>1. CASE t = s
        BY <1>4, <1>5, <2>1, <3>1
      <3>2. CASE u = s
        BY <1>4, <1>5, <2>1, <3>2
      <3>3. CASE t # s /\ u # s
        BY <1>4, <2>1, <3>3 DEF TableConsistent
      <3> QED
        BY <3>1, <3>2, <3>3
    <2>2. ASSUME NEW t \in TableSlots
          PROVE  IF leases'[t].host = 0 THEN leases'[t] = Empty
                 ELSE leases'[t].mac \in Clients /\ leases'[t].host \in first .. last
      <3>1. CASE t = s
        BY <1>1, <1>4, <3>1
      <3>2. CASE t # s
        BY <1>4, <3>2 DEF TableConsistent
      <3> QED
        BY <3>1, <3>2
    <2> QED
      BY <2>1, <2>2 DEF TableConsistent, Empty
  <1>8. LeasedTo(c, h)'
    BY <1>4 DEF LeasedTo
  <1>9. ASSUME NEW d \in Clients, d # c
        PROVE  /\ \A x : LeasedTo(d, x)' = LeasedTo(d, x)
               /\ LeaseOf(leases', d) = LeaseOf(leases, d)
    <2>1. leases'[s].mac # d /\ leases[s].mac # d
      BY <1>4, <1>6, <1>9
    <2>2. \A t \in TableSlots : leases'[t].mac = d <=> leases[t].mac = d
      BY <1>4, <2>1
    <2>3. \A t \in TableSlots : leases[t].mac = d => leases'[t] = leases[t]
      BY <1>4, <2>1
    <2>4. ASSUME NEW x PROVE LeasedTo(d, x)' = LeasedTo(d, x)
      <3>1. \A t \in TableSlots :
              leases'[t] = [mac |-> d, host |-> x] <=> leases[t] = [mac |-> d, host |-> x]
        BY <2>2, <2>3
      <3> QED
        BY <3>1 DEF LeasedTo
    <2>5. LeaseOf(leases', d) = LeaseOf(leases, d)
      <3> DEFINE own == {t \in TableSlots : leases[t].mac = d}
      <3>1. {t \in TableSlots : leases'[t].mac = d} = own
        BY <2>2
      <3>2. \A t \in own : leases'[t].host = leases[t].host
        BY <2>3
      <3> HIDE DEF own
      <3>3. {leases'[t].host : t \in own} = {leases[t].host : t \in own}
        BY <3>2
      <3> QED
        BY <3>1, <3>3 DEF LeaseOf, own
    <2> QED
      BY <2>4, <2>5
  <1> QED
    BY <1>4, <1>7, <1>8, <1>9

LEMMA ReleaseKeepsTable ==
  ASSUME TypeOK, TableConsistent, NEW c \in Clients,
         leases' = Released(c), UNCHANGED <<first, last>>
  PROVE  /\ leases' \in [TableSlots -> [mac : Clients \cup {Nobody}, host : Hosts]]
         /\ TableConsistent'
         /\ \A d \in Clients : d # c => \A x : LeasedTo(d, x)' = LeasedTo(d, x)
         /\ \A d \in Clients : d # c => LeaseOf(leases', d) = LeaseOf(leases, d)
  <1> USE DhcpAssumption DEF DhcpAssumption, NoAddress
  <1>1. \A t \in TableSlots :
          leases'[t] = IF leases[t].mac = c THEN Empty ELSE leases[t]
    BY DEF Released
  <1>2. leases' \in [TableSlots -> [mac : Clients \cup {Nobody}, host : Hosts]]
    BY DEF Released, TypeOK, Empty, Hosts
  <1>3. TableConsistent'
    <2>1. \A t \in TableSlots : leases'[t] = leases[t] \/ leases'[t] = Empty
      BY <1>1
    <2>2. Empty.host = 0 /\ Empty.mac = Nobody
      BY DEF Empty
    <2>3. ASSUME NEW t \in TableSlots, NEW u \in TableSlots, t # u, leases'[t].host # 0
          PROVE  leases'[t].host # leases'[u].host /\ leases'[t].mac # leases'[u].mac
      <3>1. leases'[t] = leases[t] /\ leases[t].mac \in Clients
        BY <2>1, <2>2, <2>3 DEF TableConsistent
      <3>2. CASE leases'[u] = Empty
        BY <2>2, <2>3, <3>1, <3>2
      <3>3. CASE leases'[u] = leases[u]
        BY <2>3, <3>1, <3>3 DEF TableConsistent
      <3> QED
        BY <2>1, <3>2, <3>3
    <2>4. \A t \in TableSlots :
            IF leases'[t].host = 0 THEN leases'[t] = Empty
            ELSE leases'[t].mac \in Clients /\ leases'[t].host \in first .. last
      BY <2>1, <2>2 DEF TableConsistent
    <2> HIDE DEF NoAddress
    <2> QED
      BY <2>3, <2>4 DEF TableConsistent, Empty, NoAddress
  <1>4. ASSUME NEW d \in Clients, d # c
        PROVE  /\ \A x : LeasedTo(d, x)' = LeasedTo(d, x)
               /\ LeaseOf(leases', d) = LeaseOf(leases, d)
    <2>1. Empty.mac # d
      BY DEF Empty
    <2>2. \A t \in TableSlots : leases'[t].mac = d <=> leases[t].mac = d
      BY <1>1, <1>4, <2>1
    <2>3. \A t \in TableSlots : leases[t].mac = d => leases'[t] = leases[t]
      BY <1>1, <1>4
    <2>4. ASSUME NEW x PROVE LeasedTo(d, x)' = LeasedTo(d, x)
      <3>1. \A t \in TableSlots :
              leases'[t] = [mac |-> d, host |-> x] <=> leases[t] = [mac |-> d, host |-> x]
        BY <2>2, <2>3
      <3> QED
        BY <3>1 DEF LeasedTo
    <2>5. LeaseOf(leases', d) = LeaseOf(leases, d)
      <3> DEFINE own == {t \in TableSlots : leases[t].mac = d}
      <3>1. {t \in TableSlots : leases'[t].mac = d} = own
        BY <2>2
      <3>2. \A t \in own : leases'[t].host = leases[t].host
        BY <2>3
      <3> HIDE DEF own
      <3>3. {leases'[t].host : t \in own} = {leases[t].host : t \in own}
        BY <3>2
      <3> QED
        BY <3>1, <3>3 DEF LeaseOf, own
    <2> QED
      BY <2>4, <2>5
  <1> QED
    BY <1>2, <1>3, <1>4
-----------------------------------------------------------------------------
(* The inductive invariant: what is under way between each station and the *)
(* server agrees with the table.                                           *)

InPool(h) == h \in first .. last

\* A station is asking for a lease, or has one.
Engaged(c) == asked[c] = "lease" \/ held[c] # NoAddress

\* An address in use is leased, and every repeat of the request it came from
\* gets it again.
HeldIsLeased(c) ==
  held[c] # NoAddress =>
    /\ asked[c] # "offer" /\ LeasedTo(c, held[c])
    /\ InPool(sought[c]) => sought[c] = held[c]

\* The server is still to see requests of one kind only, and no release.
RequestsAlike(c) ==
  Engaged(c) =>
    \A m \in Range(toServer[c]) :
      m.type # "RELEASE" /\ (m.type = "REQUEST" => m.wanted = sought[c])

\* Every grant under way is of the lease in the table.
GrantsHold(c) ==
  asked[c] = "lease" =>
    \A r \in Range(toClient[c]) :
      r.type = "ACK" => LeasedTo(c, r.host) /\ (InPool(sought[c]) => r.host = sought[c])

OffersOnly(c) ==
  asked[c] = "offer" =>
    /\ \A m \in Range(toServer[c]) : m.type = "DISCOVER"
    /\ \A r \in Range(toClient[c]) : r.type = "OFFER"

RefusalsNameNothing(c) ==
  \A r \in Range(toClient[c]) : r.type = "NAK" => r.host = NoAddress

ClientInv(c) ==
  HeldIsLeased(c) /\ RequestsAlike(c) /\ GrantsHold(c) /\ OffersOnly(c) /\ RefusalsNameNothing(c)

DhcpInv == TypeOK /\ PoolOK /\ TableConsistent /\ \A c \in Clients : ClientInv(c)

LEMMA TailOfQueue ==
  ASSUME NEW S, NEW q \in Seq(S), q # << >>
  PROVE  /\ Tail(q) \in Seq(S) /\ Head(q) \in S /\ Tail(q) # q
         /\ Head(q) \in Range(q) /\ Range(Tail(q)) \subseteq Range(q)
  <1>1. /\ Tail(q) \in Seq(S) /\ Len(Tail(q)) = Len(q) - 1 /\ Len(q) \in Nat \ {0}
        /\ Head(q) = q[1] /\ \A i \in 1 .. Len(q) - 1 : Tail(q)[i] = q[i + 1]
    OBVIOUS
  <1>2. DOMAIN q = 1 .. Len(q) /\ DOMAIN Tail(q) = 1 .. Len(q) - 1
    BY <1>1
  <1>3. Head(q) \in Range(q) /\ Head(q) \in S
    BY <1>1, <1>2 DEF Range
  <1>4. ASSUME NEW i \in 1 .. Len(q) - 1 PROVE Tail(q)[i] \in Range(q)
    <2>1. i + 1 \in 1 .. Len(q)
      BY <1>1
    <2> QED
      BY <1>1, <1>2, <2>1 DEF Range
  <1>5. Range(Tail(q)) \subseteq Range(q)
    BY <1>2, <1>4 DEF Range
  <1>6. Tail(q) # q
    <2> DEFINE n == Len(q)
               t == Tail(q)
    <2>1. n \in Nat /\ Len(t) = n - 1 /\ n = Len(q)
      BY <1>1
    <2> HIDE DEF n, t
    <2>2. Len(t) # Len(q)
      BY <2>1
    <2> QED
      BY <2>2 DEF t
  <1> QED
    BY <1>1, <1>3, <1>5, <1>6

LEMMA AppendToQueue ==
  ASSUME NEW S, NEW q \in Seq(S), NEW e \in S
  PROVE  Append(q, e) \in Seq(S) /\ Range(Append(q, e)) \subseteq Range(q) \cup {e}
  <1>1. /\ Append(q, e) \in Seq(S) /\ Len(Append(q, e)) = Len(q) + 1 /\ Len(q) \in Nat
        /\ \A i \in 1 .. Len(q) : Append(q, e)[i] = q[i]
        /\ Append(q, e)[Len(q) + 1] = e
    OBVIOUS
  <1>2. DOMAIN q = 1 .. Len(q) /\ DOMAIN Append(q, e) = 1 .. Len(q) + 1
    BY <1>1
  <1>3. ASSUME NEW i \in 1 .. Len(q) + 1 PROVE Append(q, e)[i] \in Range(q) \cup {e}
    <2>1. CASE i = Len(q) + 1
      BY <1>1, <2>1
    <2>2. CASE i \in 1 .. Len(q)
      BY <1>1, <1>2, <2>2 DEF Range
    <2> QED
      BY <1>1, <2>1, <2>2
  <1> QED
    BY <1>1, <1>2, <1>3 DEF Range

LEMMA InitHolds == Init => DhcpInv
  <1> SUFFICES ASSUME Init PROVE DhcpInv
    OBVIOUS
  <1> USE DhcpAssumption DEF DhcpAssumption, Init, NoAddress
  <1>1. PoolOK
    <2>1. PICK c \in Configs : Pool(c[1], c[2])
      OBVIOUS
    <2>2. PICK start, limit \in Nat : start = c[1] /\ limit = c[2]
      OBVIOUS
    <2>3. Pool(start, limit)
      BY <2>1, <2>2
    <2>4. first \in Nat /\ last \in Nat /\ first <= LastHost /\ last <= LastHost
      BY <2>2, <2>3 DEF Pool, AtMost
    <2>5. first >= 2 /\ first <= last
      BY <2>3 DEF Pool
    <2> HIDE DEF Init
    <2> QED
      BY <2>4, <2>5 DEF PoolOK
  <1>2. TypeOK
    BY <1>1 DEF TypeOK, PoolOK, Hosts, TableSlots, Empty, Messages, Replies
  <1>3. TableConsistent
    BY DEF TableConsistent, TableSlots, Empty
  <1>4. ASSUME NEW c \in Clients PROVE ClientInv(c)
    <2>1. Range(toServer[c]) = {} /\ Range(toClient[c]) = {}
      BY DEF Range
    <2> QED
      BY <2>1 DEF ClientInv, HeldIsLeased, RequestsAlike, GrantsHold, OffersOnly,
                  RefusalsNameNothing, Engaged
  <1> QED
    BY <1>1, <1>2, <1>3, <1>4 DEF DhcpInv

-----------------------------------------------------------------------------
(* The steps.                                                              *)

LEMMA OthersKeep ==
  ASSUME NEW d \in Clients, ClientInv(d), UNCHANGED <<first, last>>,
         toServer'[d] = toServer[d], toClient'[d] = toClient[d], asked'[d] = asked[d],
         sought'[d] = sought[d], held'[d] = held[d],
         \A x : LeasedTo(d, x)' = LeasedTo(d, x)
  PROVE  ClientInv(d)'
  BY DEF ClientInv, HeldIsLeased, RequestsAlike, GrantsHold, OffersOnly, RefusalsNameNothing,
         Engaged, InPool

\* Messages that are lost, and a discovery: the table is not touched.
LEMMA QuietStepsKeep ==
  ASSUME DhcpInv, NEW c \in Clients, HandleDiscover(c) \/ LoseRequest(c) \/ LoseReply(c)
  PROVE  DhcpInv'
  <1> USE DhcpAssumption DEF DhcpAssumption, DhcpInv
  <1>1. UNCHANGED <<first, last, leases, asked, sought, held>>
    BY DEF HandleDiscover, LoseRequest, LoseReply
  <1>2. PoolOK' /\ TableConsistent' /\ \A d, x : LeasedTo(d, x)' = LeasedTo(d, x)
    BY <1>1 DEF PoolOK, TableConsistent, LeasedTo
  <1>3. toServer[c] \in Seq(Messages) /\ toClient[c] \in Seq(Replies)
    BY DEF TypeOK
  <1>4. /\ toServer' \in [Clients -> Seq(Messages)] /\ toClient' \in [Clients -> Seq(Replies)]
        /\ \A d \in Clients : d # c => toServer'[d] = toServer[d] /\ toClient'[d] = toClient[d]
        /\ Range(toServer'[c]) \subseteq Range(toServer[c])
        /\ \A r \in Range(toClient'[c]) : r \in Range(toClient[c]) \/ r.type = "OFFER"
    <2>1. CASE HandleDiscover(c)
      <3>1. /\ Tail(toServer[c]) \in Seq(Messages) /\ toServer' = [toServer EXCEPT ![c] = Tail(@)]
            /\ Range(Tail(toServer[c])) \subseteq Range(toServer[c])
        BY <1>3, <2>1, TailOfQueue DEF HandleDiscover, Receive
      <3>2. CASE Offer(c) # NoAddress
        <4> DEFINE r == [type |-> "OFFER", host |-> Offer(c)]
        <4>1. r \in Replies
          BY OfferedFromPool DEF Replies
        <4>2. toClient' = [toClient EXCEPT ![c] = Append(@, r)]
          BY <2>1, <3>2 DEF HandleDiscover, Reply
        <4>3. r.type = "OFFER"
          OBVIOUS
        <4> HIDE DEF r
        <4>4. /\ Append(toClient[c], r) \in Seq(Replies)
              /\ Range(Append(toClient[c], r)) \subseteq Range(toClient[c]) \cup {r}
          BY <1>3, <4>1, AppendToQueue
        <4> QED
          BY <3>1, <4>2, <4>3, <4>4 DEF TypeOK
      <3>3. CASE Offer(c) = NoAddress
        BY <2>1, <3>1, <3>3 DEF HandleDiscover, TypeOK
      <3> QED
        BY <3>2, <3>3
    <2>2. CASE LoseRequest(c)
      <3>1. /\ Tail(toServer[c]) \in Seq(Messages) /\ toServer' = [toServer EXCEPT ![c] = Tail(@)]
            /\ Range(Tail(toServer[c])) \subseteq Range(toServer[c])
        BY <1>3, <2>2, TailOfQueue DEF LoseRequest, Receive
      <3> QED
        BY <2>2, <3>1 DEF LoseRequest, TypeOK
    <2>3. CASE LoseReply(c)
      <3>1. /\ Tail(toClient[c]) \in Seq(Replies) /\ toClient' = [toClient EXCEPT ![c] = Tail(@)]
            /\ Range(Tail(toClient[c])) \subseteq Range(toClient[c])
        BY <1>3, <2>3, TailOfQueue DEF LoseReply
      <3> QED
        BY <2>3, <3>1 DEF LoseReply, TypeOK
    <2> QED
      BY <2>1, <2>2, <2>3
  <1>5. TypeOK'
    BY <1>1, <1>4 DEF TypeOK
  <1>6. ASSUME NEW d \in Clients, d # c PROVE ClientInv(d)'
    BY <1>1, <1>2, <1>4, <1>6, OthersKeep
  <1>7. ClientInv(c)'
    <2>1. ClientInv(c)
      OBVIOUS
    <2>2. HeldIsLeased(c)'
      BY <1>1, <1>2, <2>1 DEF ClientInv, HeldIsLeased, InPool
    <2>3. RequestsAlike(c)'
      BY <1>1, <1>4, <2>1 DEF ClientInv, RequestsAlike, Engaged
    <2>4. GrantsHold(c)'
      BY <1>1, <1>2, <1>4, <2>1 DEF ClientInv, GrantsHold, InPool
    <2>5. OffersOnly(c)' /\ RefusalsNameNothing(c)'
      BY <1>1, <1>4, <2>1 DEF ClientInv, OffersOnly, RefusalsNameNothing
    <2> QED
      BY <2>2, <2>3, <2>4, <2>5 DEF ClientInv
  <1> QED
    BY <1>2, <1>5, <1>6, <1>7

\* A request that a station repeats is granted what it was granted before.
LEMMA RequestGrantsAlike ==
  ASSUME DhcpInv, NEW c \in Clients, NEW w \in Hosts, CanCommit(c, w), NEW x, LeasedTo(c, x),
         x # NoAddress, InPool(w) => w = x
  PROVE  CommitHost(c, w) = x
  <1> USE DhcpAssumption DEF DhcpAssumption, DhcpInv
  <1>1. PICK s \in TableSlots : leases[s] = [mac |-> c, host |-> x]
    BY DEF LeasedTo
  <1>2. s \in OwnSlots(c)
    BY <1>1 DEF OwnSlots
  <1>3. CASE w \in first .. last
    BY <1>3, CommitsToOwnSlot DEF InPool
  <1>4. CASE w \notin first .. last
    <2>1. CommitHost(c, w) = Offer(c) /\ LeasedTo(c, Offer(c)) /\ Offer(c) # NoAddress
      BY <1>2, <1>4, CommitsToOwnSlot, OfferedFromPool
    <2>2. PICK t \in TableSlots : leases[t] = [mac |-> c, host |-> Offer(c)]
      BY <2>1 DEF LeasedTo
    <2>3. t = s
      BY <1>1, <2>1, <2>2 DEF TableConsistent
    <2> QED
      BY <1>1, <2>1, <2>2, <2>3
  <1> QED
    BY <1>3, <1>4

LEMMA LeasedIsAddress ==
  ASSUME DhcpInv, NEW c \in Clients, NEW x, LeasedTo(c, x)
  PROVE  x # NoAddress
  BY DhcpAssumption DEF DhcpAssumption, DhcpInv, LeasedTo, TableConsistent, Empty

LEMMA HandleRequestKeeps ==
  ASSUME DhcpInv, NEW c \in Clients, HandleRequest(c)
  PROVE  /\ DhcpInv'
         /\ \A d \in Clients : d # c => LeaseOf(leases', d) = LeaseOf(leases, d)
  <1> USE DhcpAssumption DEF DhcpAssumption, DhcpInv
  <1> DEFINE m == Head(toServer[c])
             w == m.wanted
  <1>1. UNCHANGED <<first, last, asked, sought, held>>
        /\ toServer[c] # << >> /\ toServer' = [toServer EXCEPT ![c] = Tail(@)] /\ m.type = "REQUEST"
    BY DEF HandleRequest, Receive
  <1>2. /\ toServer[c] \in Seq(Messages) /\ toClient[c] \in Seq(Replies)
        /\ m \in Messages /\ w \in Hosts /\ m \in Range(toServer[c])
        /\ Tail(toServer[c]) \in Seq(Messages)
        /\ Range(Tail(toServer[c])) \subseteq Range(toServer[c])
    <2>1. toServer[c] \in Seq(Messages) /\ toClient[c] \in Seq(Replies)
      BY DEF TypeOK
    <2>2. m \in Messages /\ m \in Range(toServer[c]) /\ Tail(toServer[c]) \in Seq(Messages)
          /\ Range(Tail(toServer[c])) \subseteq Range(toServer[c])
      BY <1>1, <2>1, TailOfQueue
    <2> QED
      BY <2>1, <2>2 DEF Messages
  <1>3. /\ toServer' \in [Clients -> Seq(Messages)]
        /\ \A d \in Clients : d # c => toServer'[d] = toServer[d]
        /\ Range(toServer'[c]) \subseteq Range(toServer[c])
    BY <1>1, <1>2 DEF TypeOK
  <1>4. PoolOK'
    BY <1>1 DEF PoolOK
  <1>5. ASSUME NEW r \in Replies, toClient' = [toClient EXCEPT ![c] = Append(@, r)]
        PROVE  /\ toClient' \in [Clients -> Seq(Replies)]
               /\ \A d \in Clients : d # c => toClient'[d] = toClient[d]
               /\ Range(toClient'[c]) \subseteq Range(toClient[c]) \cup {r}
    <2>1. /\ Append(toClient[c], r) \in Seq(Replies)
          /\ Range(Append(toClient[c], r)) \subseteq Range(toClient[c]) \cup {r}
      BY <1>2, AppendToQueue
    <2> QED
      BY <1>5, <2>1 DEF TypeOK
  <1>6. ClientInv(c) /\ RequestsAlike(c)'
    BY <1>1, <1>3 DEF ClientInv, RequestsAlike, Engaged
  <1>7. asked[c] # "offer"
    BY <1>1, <1>2, <1>6 DEF ClientInv, OffersOnly
  <1>8. Engaged(c) => w = sought[c]
    BY <1>1, <1>2, <1>6 DEF ClientInv, RequestsAlike
  <1> HIDE DEF m, w
  <1>9. CASE CanCommit(c, w)
    <2> PICK h : h = CommitHost(c, w)
      OBVIOUS
    <2> DEFINE r == [type |-> "ACK", host |-> h]
    <2>1. leases' = Committed(c, w) /\ toClient' = [toClient EXCEPT ![c] = Append(@, r)]
      BY <1>9 DEF HandleRequest, Reply, m, w
    <2>2. h \in Hosts /\ (InPool(w) => h = w)
      BY <1>2, <1>9, CommitsToOwnSlot DEF InPool
    <2>3. r \in Replies
      BY <2>2 DEF Replies
    <2>4. h = CommitHost(c, w) /\ r.type = "ACK" /\ r.host = h
      OBVIOUS
    <2>5. \A x : LeasedTo(c, x) /\ (InPool(w) => w = x) => x = h
      <3> SUFFICES ASSUME NEW x, LeasedTo(c, x), InPool(w) => w = x PROVE x = CommitHost(c, w)
        OBVIOUS
      <3>1. x # NoAddress
        BY LeasedIsAddress
      <3> QED
        BY <1>2, <1>9, <3>1, RequestGrantsAlike
    <2> HIDE DEF r
    <2>6. /\ leases' \in [TableSlots -> [mac : Clients \cup {Nobody}, host : Hosts]]
          /\ TableConsistent' /\ LeasedTo(c, h)'
          /\ \A d \in Clients : d # c => \A x : LeasedTo(d, x)' = LeasedTo(d, x)
          /\ \A d \in Clients : d # c => LeaseOf(leases', d) = LeaseOf(leases, d)
      BY <1>1, <1>2, <1>9, <2>1, <2>4, CommitKeepsTable
    <2>7. /\ toClient' \in [Clients -> Seq(Replies)]
          /\ \A d \in Clients : d # c => toClient'[d] = toClient[d]
          /\ Range(toClient'[c]) \subseteq Range(toClient[c]) \cup {r}
      BY <1>5, <2>1, <2>3
    <2>8. TypeOK'
      BY <1>1, <1>3, <2>6, <2>7 DEF TypeOK
    <2>9. ASSUME NEW d \in Clients, d # c PROVE ClientInv(d)'
      BY <1>1, <1>3, <2>6, <2>7, <2>9, OthersKeep
    <2>10. ClientInv(c)'
      <3>1. HeldIsLeased(c)'
        <4> SUFFICES ASSUME held[c] # NoAddress
                     PROVE  LeasedTo(c, held[c])' /\ (InPool(sought[c]) => sought[c] = held[c])
          BY <1>1, <1>7 DEF HeldIsLeased, InPool
        <4>1. LeasedTo(c, held[c]) /\ (InPool(sought[c]) => sought[c] = held[c]) /\ w = sought[c]
          BY <1>6, <1>8 DEF ClientInv, HeldIsLeased, Engaged
        <4>2. held[c] = h
          BY <2>5, <4>1
        <4> QED
          BY <1>1, <2>6, <4>1, <4>2 DEF LeasedTo
      <3>2. GrantsHold(c)'
        <4> SUFFICES ASSUME asked[c] = "lease", NEW a \in Range(toClient'[c]), a.type = "ACK"
                     PROVE  LeasedTo(c, a.host)' /\ (InPool(sought[c]) => a.host = sought[c])
          BY <1>1 DEF GrantsHold, InPool
        <4>1. w = sought[c]
          BY <1>8 DEF Engaged
        <4>2. a.host = h
          <5>1. CASE a = r
            BY <2>4, <5>1
          <5>2. CASE a # r
            <6>1. a \in Range(toClient[c])
              BY <2>7, <5>2
            <6>2. LeasedTo(c, a.host) /\ (InPool(sought[c]) => a.host = sought[c])
              BY <1>6, <6>1 DEF ClientInv, GrantsHold
            <6> QED
              BY <2>5, <4>1, <6>2
          <5> QED
            BY <5>1, <5>2
        <4> QED
          BY <2>2, <2>6, <4>1, <4>2 DEF LeasedTo
      <3>3. RefusalsNameNothing(c)'
        BY <1>6, <2>4, <2>7 DEF ClientInv, RefusalsNameNothing
      <3>4. OffersOnly(c)'
        BY <1>1, <1>7 DEF OffersOnly
      <3> QED
        BY <1>6, <3>1, <3>2, <3>3, <3>4 DEF ClientInv
    <2> QED
      BY <1>4, <2>6, <2>8, <2>9, <2>10
  <1>10. CASE ~CanCommit(c, w)
    <2> DEFINE r == [type |-> "NAK", host |-> NoAddress]
    <2>1. UNCHANGED leases /\ toClient' = [toClient EXCEPT ![c] = Append(@, r)]
      BY <1>10 DEF HandleRequest, Reply, m, w
    <2>2. r \in Replies /\ r.type = "NAK" /\ r.host = NoAddress
      BY DEF Replies, Hosts, NoAddress
    <2> HIDE DEF r
    <2>3. /\ toClient' \in [Clients -> Seq(Replies)]
          /\ \A d \in Clients : d # c => toClient'[d] = toClient[d]
          /\ Range(toClient'[c]) \subseteq Range(toClient[c]) \cup {r}
      BY <1>5, <2>1, <2>2
    <2>4. TypeOK' /\ TableConsistent' /\ \A d, x : LeasedTo(d, x)' = LeasedTo(d, x)
      BY <1>1, <1>3, <2>1, <2>3 DEF TypeOK, TableConsistent, LeasedTo
    <2>5. ASSUME NEW d \in Clients, d # c PROVE ClientInv(d)'
      BY <1>1, <1>3, <2>3, <2>4, <2>5, OthersKeep
    <2>6. ClientInv(c)'
      <3>1. HeldIsLeased(c)'
        BY <1>1, <1>6, <2>4 DEF ClientInv, HeldIsLeased, InPool
      <3>2. GrantsHold(c)'
        BY <1>1, <1>6, <2>2, <2>3, <2>4 DEF ClientInv, GrantsHold, InPool
      <3>3. RefusalsNameNothing(c)'
        BY <1>6, <2>2, <2>3 DEF ClientInv, RefusalsNameNothing
      <3>4. OffersOnly(c)'
        BY <1>1, <1>7 DEF OffersOnly
      <3> QED
        BY <1>6, <3>1, <3>2, <3>3, <3>4 DEF ClientInv
    <2> QED
      BY <1>4, <2>1, <2>4, <2>5, <2>6 DEF LeaseOf
  <1> QED
    BY <1>9, <1>10

LEMMA HandleReleaseKeeps ==
  ASSUME DhcpInv, NEW c \in Clients, HandleRelease(c)
  PROVE  /\ DhcpInv'
         /\ \A d \in Clients : d # c => LeaseOf(leases', d) = LeaseOf(leases, d)
  <1> USE DhcpAssumption DEF DhcpAssumption, DhcpInv
  <1> DEFINE m == Head(toServer[c])
  <1>1. /\ UNCHANGED <<first, last, toClient, asked, sought, held>> /\ leases' = Released(c)
        /\ toServer[c] # << >> /\ toServer' = [toServer EXCEPT ![c] = Tail(@)] /\ m.type = "RELEASE"
    BY DEF HandleRelease, Receive
  <1>2. m \in Range(toServer[c]) /\ Tail(toServer[c]) \in Seq(Messages)
    BY <1>1, TailOfQueue DEF TypeOK
  <1> HIDE DEF m
  <1>3. /\ toServer' \in [Clients -> Seq(Messages)]
        /\ \A d \in Clients : d # c => toServer'[d] = toServer[d]
    BY <1>1, <1>2 DEF TypeOK
  <1>4. /\ leases' \in [TableSlots -> [mac : Clients \cup {Nobody}, host : Hosts]]
        /\ TableConsistent'
        /\ \A d \in Clients : d # c => \A x : LeasedTo(d, x)' = LeasedTo(d, x)
        /\ \A d \in Clients : d # c => LeaseOf(leases', d) = LeaseOf(leases, d)
    BY <1>1, ReleaseKeepsTable
  <1>5. TypeOK' /\ PoolOK'
    BY <1>1, <1>3, <1>4 DEF TypeOK, PoolOK
  <1>6. ASSUME NEW d \in Clients, d # c PROVE ClientInv(d)'
    BY <1>1, <1>3, <1>4, <1>6, OthersKeep
  <1>7. ClientInv(c)'
    <2>1. ClientInv(c) /\ ~Engaged(c) /\ asked[c] # "offer"
      BY <1>1, <1>2 DEF ClientInv, RequestsAlike, OffersOnly
    <2> QED
      BY <1>1, <2>1 DEF ClientInv, HeldIsLeased, RequestsAlike, GrantsHold, OffersOnly,
                        RefusalsNameNothing, Engaged
  <1> QED
    BY <1>4, <1>5, <1>6, <1>7

\* What a station sends.
LEMMA SendingKeeps ==
  ASSUME DhcpInv, NEW c \in Clients, Discover(c) \/ Request(c) \/ Release(c)
  PROVE  DhcpInv'
  <1> USE DhcpAssumption DEF DhcpAssumption, DhcpInv
  <1>1. toServer[c] \in Seq(Messages) /\ toClient[c] \in Seq(Replies) /\ held[c] \in Hosts
        /\ ClientInv(c)
    BY DEF TypeOK
  <1>2. InFlight(c) = 0 => Range(toServer[c]) = {} /\ Range(toClient[c]) = {}
    <2> SUFFICES ASSUME InFlight(c) = 0 PROVE Range(toServer[c]) = {} /\ Range(toClient[c]) = {}
      OBVIOUS
    <2> DEFINE n == Len(toServer[c])
               k == Len(toClient[c])
    <2>1. n \in Nat /\ k \in Nat
      BY <1>1
    <2>2. n + k = 0
      BY DEF InFlight
    <2> HIDE DEF n, k
    <2>3. n = 0 /\ k = 0
      BY <2>1, <2>2
    <2>4. DOMAIN toServer[c] = {} /\ DOMAIN toClient[c] = {}
      <3>1. DOMAIN toServer[c] = 1 .. Len(toServer[c]) /\ DOMAIN toClient[c] = 1 .. Len(toClient[c])
        BY <1>1
      <3> QED
        BY <2>3, <3>1 DEF n, k
    <2> QED
      BY <2>4 DEF Range
  <1>3. UNCHANGED <<first, last, leases, toClient>>
    BY DEF Discover, Request, Release, Send
  <1>4. PoolOK' /\ TableConsistent' /\ \A d, x : LeasedTo(d, x)' = LeasedTo(d, x)
    BY <1>3 DEF PoolOK, TableConsistent, LeasedTo
  <1>5. ASSUME NEW m \in Messages, Send(c, m),
               asked' \in [Clients -> {"nothing", "offer", "lease"}],
               sought' \in [Clients -> Hosts], held' \in [Clients -> Hosts],
               \A d \in Clients : d # c =>
                 asked'[d] = asked[d] /\ sought'[d] = sought[d] /\ held'[d] = held[d]
        PROVE  /\ TypeOK' /\ \A d \in Clients : d # c => ClientInv(d)'
               /\ Range(toServer'[c]) \subseteq Range(toServer[c]) \cup {m}
    <2>1. /\ Append(toServer[c], m) \in Seq(Messages)
          /\ Range(Append(toServer[c], m)) \subseteq Range(toServer[c]) \cup {m}
      BY <1>1, AppendToQueue
    <2>2. toServer' = [toServer EXCEPT ![c] = Append(@, m)]
      BY <1>5 DEF Send
    <2>3. /\ toServer' \in [Clients -> Seq(Messages)]
          /\ \A d \in Clients : d # c => toServer'[d] = toServer[d]
          /\ Range(toServer'[c]) \subseteq Range(toServer[c]) \cup {m}
      BY <2>1, <2>2 DEF TypeOK
    <2>4. TypeOK'
      BY <1>3, <1>5, <2>3 DEF TypeOK
    <2>5. ASSUME NEW d \in Clients, d # c PROVE ClientInv(d)'
      BY <1>3, <1>4, <1>5, <2>3, <2>5, OthersKeep
    <2> QED
      BY <2>3, <2>4, <2>5
  <1>6. CASE Discover(c)
    <2> DEFINE m == [type |-> "DISCOVER", wanted |-> NoAddress]
    <2>1. m \in Messages /\ m.type = "DISCOVER" /\ Send(c, m)
      BY <1>6 DEF Messages, Hosts, NoAddress, Discover
    <2> HIDE DEF m
    <2>2. /\ held[c] = NoAddress /\ (asked[c] = "offer" \/ InFlight(c) = 0)
          /\ asked' = [asked EXCEPT ![c] = "offer"] /\ UNCHANGED held
          /\ sought' = [sought EXCEPT ![c] = NoAddress] /\ NoAddress \in Hosts
      BY <1>6 DEF Discover, Hosts, NoAddress
    <2>3. /\ TypeOK' /\ \A d \in Clients : d # c => ClientInv(d)'
          /\ Range(toServer'[c]) \subseteq Range(toServer[c]) \cup {m}
      BY <1>5, <2>1, <2>2 DEF TypeOK
    <2>4. asked'[c] = "offer"
      BY <2>2 DEF TypeOK
    <2>5. OffersOnly(c)'
      BY <1>1, <1>2, <1>3, <2>1, <2>2, <2>3 DEF ClientInv, OffersOnly
    <2>6. HeldIsLeased(c)' /\ RequestsAlike(c)' /\ GrantsHold(c)' /\ RefusalsNameNothing(c)'
      BY <1>1, <1>3, <2>2, <2>4 DEF ClientInv, HeldIsLeased, RequestsAlike, GrantsHold, Engaged,
                                    RefusalsNameNothing
    <2> QED
      BY <1>4, <2>3, <2>5, <2>6 DEF ClientInv
  <1>7. CASE Request(c)
    <2>1. PICK wanted \in Hosts :
            /\ IF asked[c] = "lease" THEN wanted = sought[c]
               ELSE IF held[c] = NoAddress THEN wanted # NoAddress
               ELSE wanted \in {NoAddress, held[c]}
            /\ Send(c, [type |-> "REQUEST", wanted |-> wanted])
            /\ sought' = [sought EXCEPT ![c] = wanted]
      BY <1>7 DEF Request
    <2>2. /\ asked' = [asked EXCEPT ![c] = "lease"] /\ UNCHANGED held
          /\ asked[c] = "lease" \/ InFlight(c) = 0
      BY <1>7 DEF Request
    <2> DEFINE m == [type |-> "REQUEST", wanted |-> wanted]
    <2>3. m \in Messages /\ m.type = "REQUEST" /\ m.wanted = wanted /\ Send(c, m)
      BY <2>1 DEF Messages
    <2> HIDE DEF m
    <2>4. /\ TypeOK' /\ \A d \in Clients : d # c => ClientInv(d)'
          /\ Range(toServer'[c]) \subseteq Range(toServer[c]) \cup {m}
      BY <1>5, <2>1, <2>2, <2>3 DEF TypeOK
    <2>5. asked'[c] = "lease" /\ sought'[c] = wanted /\ held'[c] = held[c]
      BY <2>1, <2>2 DEF TypeOK
    <2>6. ~InPool(NoAddress)
      BY DEF InPool, PoolOK, NoAddress
    <2>7. HeldIsLeased(c)'
      BY <1>1, <1>3, <1>4, <2>1, <2>5, <2>6 DEF ClientInv, HeldIsLeased, InPool
    <2>8. RequestsAlike(c)'
      BY <1>1, <1>2, <2>1, <2>2, <2>3, <2>4, <2>5 DEF ClientInv, RequestsAlike, Engaged
    <2>9. GrantsHold(c)'
      BY <1>1, <1>2, <1>3, <1>4, <2>1, <2>2, <2>5 DEF ClientInv, GrantsHold, InPool
    <2>10. OffersOnly(c)' /\ RefusalsNameNothing(c)'
      BY <1>1, <1>3, <2>5 DEF ClientInv, OffersOnly, RefusalsNameNothing
    <2> QED
      BY <1>4, <2>4, <2>7, <2>8, <2>9, <2>10 DEF ClientInv
  <1>8. CASE Release(c)
    <2> DEFINE m == [type |-> "RELEASE", wanted |-> NoAddress]
    <2>1. m \in Messages /\ Send(c, m)
      BY <1>8 DEF Messages, Hosts, NoAddress, Release
    <2> HIDE DEF m
    <2>2. /\ held' = [held EXCEPT ![c] = NoAddress] /\ asked' = [asked EXCEPT ![c] = "nothing"]
          /\ sought' = [sought EXCEPT ![c] = NoAddress] /\ NoAddress \in Hosts
      BY <1>8 DEF Release, Hosts, NoAddress
    <2>3. TypeOK' /\ \A d \in Clients : d # c => ClientInv(d)'
      BY <1>5, <2>1, <2>2 DEF TypeOK
    <2>4. asked'[c] = "nothing" /\ held'[c] = NoAddress
      BY <2>2 DEF TypeOK
    <2>5. ClientInv(c)'
      BY <1>1, <1>3, <2>4 DEF ClientInv, HeldIsLeased, RequestsAlike, GrantsHold, OffersOnly,
                              Engaged, RefusalsNameNothing
    <2> QED
      BY <1>4, <2>3, <2>5
  <1> QED
    BY <1>6, <1>7, <1>8

\* What a station receives.
LEMMA TakeReplyKeeps ==
  ASSUME DhcpInv, NEW c \in Clients, TakeReply(c)
  PROVE  DhcpInv'
  <1> USE DhcpAssumption DEF DhcpAssumption, DhcpInv
  <1> DEFINE reply == Head(toClient[c])
  <1>1. toServer[c] \in Seq(Messages) /\ toClient[c] \in Seq(Replies) /\ ClientInv(c)
    BY DEF TypeOK
  <1>2. /\ UNCHANGED <<first, last, leases>> /\ toClient[c] # << >>
        /\ toClient' = [toClient EXCEPT ![c] = Tail(@)]
    BY DEF TakeReply
  <1>3. /\ reply \in Replies /\ reply.host \in Hosts /\ reply \in Range(toClient[c])
        /\ Tail(toClient[c]) \in Seq(Replies)
        /\ Range(Tail(toClient[c])) \subseteq Range(toClient[c])
    <2>1. /\ reply \in Replies /\ reply \in Range(toClient[c])
          /\ Tail(toClient[c]) \in Seq(Replies)
          /\ Range(Tail(toClient[c])) \subseteq Range(toClient[c])
      BY <1>1, <1>2, TailOfQueue
    <2> QED
      BY <2>1 DEF Replies
  <1>4. /\ toClient' \in [Clients -> Seq(Replies)]
        /\ \A d \in Clients : d # c => toClient'[d] = toClient[d]
        /\ Range(toClient'[c]) \subseteq Range(toClient[c])
    BY <1>2, <1>3 DEF TypeOK
  <1>5. PoolOK' /\ TableConsistent' /\ \A d, x : LeasedTo(d, x)' = LeasedTo(d, x)
    BY <1>2 DEF PoolOK, TableConsistent, LeasedTo
  <1>6. RefusalsNameNothing(c)'
    BY <1>1, <1>4 DEF ClientInv, RefusalsNameNothing
  <1>7. CASE asked[c] = "offer" /\ reply.type = "OFFER"
    <2> DEFINE m == [type |-> "REQUEST", wanted |-> reply.host]
    <2>1. /\ toServer' = [toServer EXCEPT ![c] = Append(@, m)]
          /\ asked' = [asked EXCEPT ![c] = "lease"]
          /\ sought' = [sought EXCEPT ![c] = reply.host] /\ UNCHANGED held
      BY <1>7 DEF TakeReply
    <2>2. m \in Messages /\ m.type = "REQUEST" /\ m.wanted = reply.host
      BY <1>3 DEF Messages
    <2> HIDE DEF m, reply
    <2>3. /\ Append(toServer[c], m) \in Seq(Messages)
          /\ Range(Append(toServer[c], m)) \subseteq Range(toServer[c]) \cup {m}
      BY <1>1, <2>2, AppendToQueue
    <2>4. /\ toServer' \in [Clients -> Seq(Messages)]
          /\ \A d \in Clients : d # c => toServer'[d] = toServer[d]
          /\ Range(toServer'[c]) \subseteq Range(toServer[c]) \cup {m}
      BY <2>1, <2>3 DEF TypeOK
    <2>5. TypeOK'
      BY <1>2, <1>3, <1>4, <2>1, <2>4 DEF TypeOK
    <2>6. ASSUME NEW d \in Clients, d # c PROVE ClientInv(d)'
      BY <1>2, <1>4, <1>5, <2>1, <2>4, <2>6, OthersKeep DEF TypeOK
    <2>7. asked'[c] = "lease" /\ sought'[c] = reply.host /\ held'[c] = held[c]
      BY <2>1 DEF TypeOK
    <2>8. HeldIsLeased(c)' /\ GrantsHold(c)' /\ OffersOnly(c)'
      BY <1>1, <1>4, <1>7, <2>7 DEF ClientInv, HeldIsLeased, GrantsHold, OffersOnly
    <2>9. RequestsAlike(c)'
      BY <1>1, <1>7, <2>2, <2>4, <2>7 DEF ClientInv, OffersOnly, RequestsAlike
    <2> QED
      BY <1>5, <1>6, <2>5, <2>6, <2>8, <2>9 DEF ClientInv
  <1>8. CASE asked[c] = "lease" /\ reply.type \in {"ACK", "NAK"}
    <2>1. /\ held' = [held EXCEPT ![c] = reply.host]
          /\ asked' = [asked EXCEPT ![c] = "nothing"] /\ UNCHANGED toServer
          /\ sought' = [sought EXCEPT ![c] = IF reply.type = "NAK" THEN NoAddress ELSE @]
          /\ NoAddress \in Hosts
      BY <1>8 DEF TakeReply, Hosts, NoAddress
    <2> HIDE DEF reply
    <2>2. TypeOK'
      BY <1>2, <1>3, <1>4, <2>1 DEF TypeOK
    <2>3. ASSUME NEW d \in Clients, d # c PROVE ClientInv(d)'
      BY <1>2, <1>4, <1>5, <2>1, <2>3, OthersKeep DEF TypeOK
    <2>4. /\ asked'[c] = "nothing" /\ held'[c] = reply.host
          /\ reply.host # NoAddress => sought'[c] = sought[c]
      BY <1>1, <1>3, <1>8, <2>1 DEF TypeOK, ClientInv, RefusalsNameNothing
    <2>5. reply.host # NoAddress =>
            LeasedTo(c, reply.host) /\ (InPool(sought[c]) => sought[c] = reply.host)
      BY <1>1, <1>3, <1>8 DEF ClientInv, GrantsHold, RefusalsNameNothing
    <2>6. HeldIsLeased(c)'
      <3>1. LeasedTo(c, reply.host) => LeasedTo(c, held[c])'
        BY <1>2, <2>4 DEF LeasedTo
      <3> QED
        BY <1>2, <2>4, <2>5, <3>1 DEF HeldIsLeased, InPool
    <2>7. RequestsAlike(c)'
      BY <1>1, <1>8, <2>1, <2>4 DEF ClientInv, RequestsAlike, Engaged
    <2>8. GrantsHold(c)' /\ OffersOnly(c)'
      BY <2>4 DEF GrantsHold, OffersOnly
    <2> QED
      BY <1>5, <1>6, <2>2, <2>3, <2>6, <2>7, <2>8 DEF ClientInv
  <1>9. CASE ~(asked[c] = "offer" /\ reply.type = "OFFER")
             /\ ~(asked[c] = "lease" /\ reply.type \in {"ACK", "NAK"})
    <2>1. UNCHANGED <<toServer, asked, sought, held>>
      BY <1>9 DEF TakeReply
    <2>2. TypeOK'
      BY <1>2, <1>4, <2>1 DEF TypeOK
    <2>3. ASSUME NEW d \in Clients, d # c PROVE ClientInv(d)'
      BY <1>2, <1>4, <1>5, <2>1, <2>3, OthersKeep
    <2>4. HeldIsLeased(c)' /\ GrantsHold(c)'
      BY <1>1, <1>2, <1>4, <1>5, <2>1 DEF ClientInv, HeldIsLeased, GrantsHold, InPool
    <2>5. RequestsAlike(c)' /\ OffersOnly(c)'
      BY <1>1, <1>4, <2>1 DEF ClientInv, RequestsAlike, OffersOnly, Engaged
    <2> QED
      BY <1>5, <1>6, <2>2, <2>3, <2>4, <2>5 DEF ClientInv
  <1> QED
    BY <1>7, <1>8, <1>9
-----------------------------------------------------------------------------
(* The theorems.                                                           *)

\* Every step keeps the invariant, and leaves the lease of a station alone
\* unless it takes what that station sent.
LEMMA StepKeeps ==
  ASSUME DhcpInv, [Next]_vars
  PROVE  /\ DhcpInv'
         /\ \A d \in Clients :
              LeaseOf(leases', d) # LeaseOf(leases, d) => toServer'[d] # toServer[d]
  <1>1. CASE UNCHANGED vars
    BY <1>1 DEF vars, DhcpInv, TypeOK, PoolOK, TableConsistent, ClientInv, HeldIsLeased,
                RequestsAlike, GrantsHold, OffersOnly, RefusalsNameNothing, Engaged, InPool,
                LeasedTo, LeaseOf
  <1>2. ASSUME NEW c \in Clients, HandleDiscover(c) \/ LoseRequest(c) \/ LoseReply(c)
        PROVE  DhcpInv' /\ UNCHANGED leases
    BY <1>2, QuietStepsKeep DEF HandleDiscover, LoseRequest, LoseReply
  <1>3. ASSUME NEW c \in Clients, Discover(c) \/ Request(c) \/ Release(c)
        PROVE  DhcpInv' /\ UNCHANGED leases
    BY <1>3, SendingKeeps DEF Discover, Request, Release, Send
  <1>4. ASSUME NEW c \in Clients, TakeReply(c) PROVE DhcpInv' /\ UNCHANGED leases
    BY <1>4, TakeReplyKeeps DEF TakeReply
  <1>5. ASSUME NEW c \in Clients, HandleRequest(c) \/ HandleRelease(c)
        PROVE  /\ DhcpInv' /\ toServer'[c] # toServer[c]
               /\ \A d \in Clients : d # c => LeaseOf(leases', d) = LeaseOf(leases, d)
    <2>1. toServer[c] # << >> /\ toServer' = [toServer EXCEPT ![c] = Tail(@)]
      BY <1>5 DEF HandleRequest, HandleRelease, Receive
    <2>2. Tail(toServer[c]) # toServer[c]
      BY <2>1, TailOfQueue DEF DhcpInv, TypeOK
    <2>3. toServer'[c] = Tail(toServer[c])
      BY <2>1 DEF DhcpInv, TypeOK
    <2> QED
      BY <1>5, <2>2, <2>3, HandleRequestKeeps, HandleReleaseKeeps
  <1>6. CASE Next
    <2>1. PICK c \in Clients : Server(c) \/ Client(c)
      BY <1>6 DEF Next
    <2>2. CASE UNCHANGED leases /\ DhcpInv'
      BY <2>2 DEF LeaseOf
    <2>3. CASE HandleRequest(c) \/ HandleRelease(c)
      BY <1>5, <2>3
    <2> QED
      BY <1>2, <1>3, <1>4, <2>1, <2>2, <2>3 DEF Server, Client
  <1> QED
    BY <1>1, <1>6

LEMMA Invariance == Spec => []DhcpInv
  <1>1. DhcpInv /\ [Next]_vars => DhcpInv'
    BY StepKeeps
  <1> QED
    BY <1>1, InitHolds, PTL DEF Spec

\* handle(): whatever is lost on the way and however stations ask, leave and
\* return, the table never has one address or one station twice, and two
\* stations never use one address.
THEOREM LeasesAreSound == Spec => []LeasesSound
  <1>1. DhcpInv => LeasesSound
    <2> SUFFICES ASSUME DhcpInv PROVE AddressesUnique
      BY DEF LeasesSound, DhcpInv
    <2>1. \A c \in Clients : held[c] # NoAddress =>
            \E s \in TableSlots : leases[s] = [mac |-> c, host |-> held[c]]
      BY DEF DhcpInv, ClientInv, HeldIsLeased, LeasedTo
    <2>2. ASSUME NEW c \in Clients, NEW d \in Clients, c # d, held[c] # NoAddress,
                 held[c] = held[d]
          PROVE  FALSE
      <3>1. PICK s \in TableSlots : leases[s] = [mac |-> c, host |-> held[c]]
        BY <2>1, <2>2
      <3>2. PICK t \in TableSlots : leases[t] = [mac |-> d, host |-> held[d]]
        BY <2>1, <2>2
      <3>3. /\ leases[s].mac = c /\ leases[s].host = held[c]
            /\ leases[t].mac = d /\ leases[t].host = held[d]
        BY <3>1, <3>2
      <3> QED
        BY <2>2, <3>3 DEF DhcpInv, TableConsistent
    <2> QED
      BY <2>1, <2>2 DEF AddressesUnique
  <1> QED
    BY <1>1, Invariance, PTL

\* commit() and release(): a station's lease changes only by what that station
\* sent.
THEOREM LeasesStayPrivate == Spec => LeasesPrivate
  <1>1. DhcpInv /\ [Next]_vars =>
          [\A c \in Clients :
             LeaseOf(leases', c) # LeaseOf(leases, c) => toServer'[c] # toServer[c]]_vars
    BY StepKeeps
  <1> QED
    BY <1>1, Invariance, PTL DEF Spec, LeasesPrivate

\* An address that is offered is free for the station, so that only a slot for it
\* can be missing.
LEMMA OfferedIsFree ==
  ASSUME DhcpInv, NEW c \in Clients, Offer(c) # NoAddress
  PROVE  /\ Offer(c) \in first .. last /\ CommitHost(c, Offer(c)) = Offer(c)
         /\ \A s \in TableSlots : leases[s].host = Offer(c) => s \in OwnSlots(c)
  <1>1. Offer(c) \in first .. last /\ ~HeldByOther(c, Offer(c))
    BY OfferedFromPool DEF DhcpInv
  <1>2. ASSUME NEW s \in TableSlots, leases[s].host = Offer(c) PROVE s \in OwnSlots(c)
    BY <1>1, <1>2 DEF HeldByOther, OwnSlots
  <1> QED
    BY <1>1, <1>2 DEF CommitHost

\* offer() and commit(): a request for an address that is offered is granted, if
\* the station has a slot or one is empty, whatever the pool and the table are.
THEOREM OffersAreGranted == Spec => []OfferGranted
  <1>1. DhcpInv => OfferGranted
    <2> SUFFICES ASSUME DhcpInv, NEW c \in Clients, Offer(c) # NoAddress
                 PROVE  CanCommit(c, Offer(c)) <=> RoomFor(c)
      BY DEF OfferGranted
    <2> DEFINE h == Offer(c)
    <2>1. /\ h # NoAddress /\ CommitHost(c, h) = h
          /\ \A s \in TableSlots : leases[s].host = h => s \in OwnSlots(c)
      BY OfferedIsFree
    <2>2. CanCommit(c, h) <=> CommitSlots(c, h) # {}
      BY <2>1 DEF CanCommit
    <2>3. OwnSlots(c) \subseteq TableSlots
      BY DEF OwnSlots
    <2> HIDE DEF h
    <2>4. CommitSlots(c, h) # {} <=> RoomFor(c)
      BY <2>1, <2>3 DEF CommitSlots, RoomFor
    <2> QED
      BY <2>2, <2>4 DEF h
  <1> QED
    BY <1>1, Invariance, PTL

\* commit(): a station that uses an address and asks for it again is given it,
\* however full the table is.
THEOREM RenewalsAreGranted == Spec => []RenewalGranted
  <1>1. DhcpInv => RenewalGranted
    <2> SUFFICES ASSUME DhcpInv, NEW c \in Clients, held[c] # NoAddress,
                        NEW wanted \in {held[c], NoAddress}
                 PROVE  CanCommit(c, wanted) /\ CommitHost(c, wanted) = held[c]
      BY DEF RenewalGranted
    <2> USE DhcpAssumption DEF DhcpAssumption
    <2>1. PICK s \in TableSlots : leases[s] = [mac |-> c, host |-> held[c]]
      BY DEF DhcpInv, ClientInv, HeldIsLeased, LeasedTo
    <2>2. s \in OwnSlots(c) /\ held[c] \in first .. last
      BY <2>1 DEF OwnSlots, DhcpInv, TableConsistent
    <2>3. ~HeldByOther(c, held[c])
      BY <2>1 DEF HeldByOther, DhcpInv, TableConsistent
    <2>4. NoAddress \notin first .. last
      BY DEF DhcpInv, PoolOK, NoAddress
    <2>5. Offer(c) = held[c]
      <3>1. PICK t \in TableSlots : leases[t] = [mac |-> c, host |-> Offer(c)]
        BY <2>2, OfferedFromPool DEF DhcpInv, LeasedTo
      <3>2. Offer(c) # NoAddress
        BY <2>2, OfferedFromPool DEF DhcpInv
      <3>3. t = s
        BY <2>1, <3>1, <3>2 DEF DhcpInv, TableConsistent
      <3> QED
        BY <2>1, <3>1, <3>3
    <2>6. CommitHost(c, wanted) = held[c]
      BY <2>2, <2>3, <2>4, <2>5 DEF CommitHost
    <2>7. CommitSlots(c, held[c]) # {}
      BY <2>2 DEF CommitSlots
    <2> QED
      BY <2>6, <2>7 DEF CanCommit
  <1> QED
    BY <1>1, Invariance, PTL

\* Both: what offer() promises and what a station holds, commit() grants.
THEOREM RequestsAreGranted == Spec => []RequestsGranted
  BY OffersAreGranted, RenewalsAreGranted, PTL DEF RequestsGranted

\* The pools that are no larger than the table, and the stations that are no more.
PoolFits ==
  \A pool \in Configs :
    AtMost(pool[1] + pool[2] - 1, LastHost) - AtMost(pool[1], LastHost) < Slots

StationsFit == IsFiniteSet(Clients) /\ Cardinality(Clients) <= Slots

LEMMA PoolStaysSmall == ASSUME PoolFits PROVE Spec => [](last - first < Slots)
  <1>1. Init => last - first < Slots
    BY DEF Init, Pool, PoolFits
  <1>2. last - first < Slots /\ [Next]_vars => (last - first < Slots)'
    BY DEF Next, vars, Server, Client, HandleDiscover, HandleRequest, HandleRelease, Discover,
           Request, Release, Send, TakeReply, LoseRequest, LoseReply
  <1> QED
    BY <1>1, <1>2, PTL DEF Spec

\* Slots cannot all hold different members of a smaller set.
LEMMA SlotsTooMany ==
  ASSUME NEW P, IsFiniteSet(P), Cardinality(P) < Slots, NEW f \in [TableSlots -> P]
  PROVE  \E s, t \in TableSlots : s # t /\ f[s] = f[t]
  <1> USE DhcpAssumption DEF DhcpAssumption
  <1>1. IsFiniteSet(TableSlots) /\ Cardinality(TableSlots) = Slots
    BY FS_Interval DEF TableSlots
  <1>2. ASSUME NEW S, NEW T, IsFiniteSet(S), IsFiniteSet(T), Cardinality(T) < Cardinality(S),
               NEW g \in [S -> T]
        PROVE  \E x, y \in S : x # y /\ g[x] = g[y]
    BY <1>2, FS_PigeonHole
  <1> QED
    BY <1>1, <1>2

\* A station that is offered an address and finds no room: every slot is another
\* station's, and leases another address.
LEMMA NoRoomMeansFull ==
  ASSUME DhcpInv, NEW c \in Clients, Offer(c) # NoAddress, ~RoomFor(c)
  PROVE  \A s \in TableSlots :
           /\ leases[s].host # NoAddress
           /\ leases[s].host \in (first .. last) \ {Offer(c)} /\ leases[s].mac \in Clients \ {c}
  <1>1. \A s \in TableSlots : leases[s].host # NoAddress /\ s \notin OwnSlots(c)
    BY DEF RoomFor
  <1>2. \A s \in TableSlots : leases[s].host # Offer(c) /\ leases[s].mac # c
    BY <1>1, OfferedIsFree DEF OwnSlots
  <1> QED
    BY <1>1, <1>2 DEF DhcpInv, TableConsistent

\* There is room as long as the pool is no larger than the table, or the stations
\* are no more than its slots: then every offer is honoured.
THEOREM OffersAreHonoured == ASSUME PoolFits \/ StationsFit PROVE Spec => []OffersHonoured
  <1>1. ASSUME DhcpInv, last - first < Slots \/ StationsFit PROVE OfferGranted => OffersHonoured
    <2> SUFFICES ASSUME NEW c \in Clients, Offer(c) # NoAddress, ~RoomFor(c) PROVE FALSE
      BY DEF OfferGranted, OffersHonoured
    <2> USE <1>1, DhcpAssumption DEF DhcpAssumption
    <2>1. ASSUME NEW s \in TableSlots, NEW t \in TableSlots, s # t
          PROVE  leases[s].host # leases[t].host /\ leases[s].mac # leases[t].mac
      BY <2>1, NoRoomMeansFull DEF DhcpInv, TableConsistent
    <2>2. CASE last - first < Slots
      <3> DEFINE P == (first .. last) \ {Offer(c)}
                 host == [s \in TableSlots |-> leases[s].host]
      <3>1. host \in [TableSlots -> P]
        BY NoRoomMeansFull
      <3>2. first \in Int /\ last \in Int /\ first <= last
        BY DEF DhcpInv, PoolOK
      <3>3. IsFiniteSet(first .. last) /\ Cardinality(first .. last) = last - first + 1
        BY <3>2, FS_Interval
      <3>4. Offer(c) \in first .. last
        BY OfferedIsFree
      <3>5. IsFiniteSet(P) /\ Cardinality(P) = Cardinality(first .. last) - 1
        BY <3>3, <3>4, FS_RemoveElement
      <3>6. Cardinality(P) < Slots
        BY <2>2, <3>2, <3>3, <3>5
      <3> HIDE DEF P, host
      <3>7. PICK s, t \in TableSlots : s # t /\ host[s] = host[t]
        BY <3>1, <3>5, <3>6, SlotsTooMany
      <3> QED
        BY <2>1, <3>7 DEF host
    <2>3. CASE StationsFit
      <3> DEFINE P == Clients \ {c}
                 mac == [s \in TableSlots |-> leases[s].mac]
      <3>1. mac \in [TableSlots -> P]
        BY NoRoomMeansFull
      <3>2. IsFiniteSet(P) /\ Cardinality(P) = Cardinality(Clients) - 1
        BY <2>3, FS_RemoveElement DEF StationsFit
      <3>3. Cardinality(Clients) \in Nat
        BY <2>3, FS_CardinalityType DEF StationsFit
      <3>4. Cardinality(P) < Slots
        BY <2>3, <3>2, <3>3 DEF StationsFit
      <3> HIDE DEF P, mac
      <3>5. PICK s, t \in TableSlots : s # t /\ mac[s] = mac[t]
        BY <3>1, <3>2, <3>4, SlotsTooMany
      <3> QED
        BY <2>1, <3>5 DEF mac
    <2> QED
      BY <1>1, <2>2, <2>3
  <1>2. CASE PoolFits
    BY <1>1, <1>2, Invariance, PoolStaysSmall, OffersAreGranted, PTL
  <1>3. CASE StationsFit
    BY <1>1, <1>3, Invariance, OffersAreGranted, PTL
  <1> QED
    BY <1>2, <1>3

-----------------------------------------------------------------------------
(* The IP stack's task and the tasks that call on it.                      *)

Calling == Operations \X Vifs

ServerRequests == {"dhcpd_start", "dhcpd_stop"}
Requests == ServerRequests \cup {"dhcp_connect", "dhcp_disconnect"}

RegistryTypes ==
  /\ used \subseteq Ifaces /\ vif \in [Ifaces -> Vifs \cup {Null}]
  /\ handle \in [Vifs -> Ifaces \cup {Null}] /\ at \in [Tasks -> Ifaces \cup {Null}]
  /\ spawned \in {0, 1}

TaskTypes ==
  /\ tpc \in [Tasks -> {"idle", "scan", "fill", "return", "spawn", "address", "early", "reset",
                        "post", "wait"}]
  /\ call \in [Tasks -> Calling \cup {Null}]
  /\ todo \in [Tasks -> Seq(Calling)]

HistoryTypes ==
  /\ executed \subseteq Tasks /\ returned \in [Tasks -> BOOLEAN \cup {Null}]
  /\ awaiting \in BOOLEAN /\ serving \in BOOLEAN
  /\ slipped \in BOOLEAN /\ overtaken \in BOOLEAN /\ given \in [Ifaces -> Addrs \cup {Null}]

MailTypes ==
  /\ command \in {"None", "ClientStart", "ClientStop", "ServerStart", "ServerStop"}
  /\ result \in {"pending", "ok"} /\ owner \in Tasks \cup {Null}
  /\ command # "None" => owner \in Tasks
  /\ target \in Ifaces \cup {Null} /\ running \in BOOLEAN

\* The poll task has bound a stack once it looks at the mailbox.
StackTypes ==
  /\ addr \in [Ifaces -> Addrs \cup {Null}]
  /\ ppc \in {"start", "bind", "adopt", "adopted", "command", "answer", "poll", "compare",
              "synced", "serve", "client", "answer client"}
  /\ IF ppc = "start" THEN stack = Null ELSE (ppc = "bind" /\ stack = Null) \/ stack \in Stacks

\* What a task is in the middle of is a call, and what it posts is a request.
InCall(t) ==
  /\ tpc[t] # "idle" \/ returned[t] = TRUE => call[t] \in Calling
  /\ tpc[t] \in {"early", "reset", "post", "wait"} => call[t][1] \in Requests

\* A task that fills a slot in is the only one to, and nobody has its handle.
Filling(t) == tpc[t] \in {"fill", "return"}

SlotInv(t) ==
  /\ Filling(t) => at[t] \in used /\ \A u \in Tasks : u # t /\ Filling(u) => at[u] # at[t]
  /\ tpc[t] = "fill" => \A v \in Vifs : handle[v] # at[t]
  /\ tpc[t] = "return" => vif[at[t]] = call[t][2]

IpTypes == RegistryTypes /\ TaskTypes /\ HistoryTypes /\ MailTypes /\ StackTypes

IpInv ==
  /\ IpTypes /\ HandlesOwn
  /\ \A t \in Tasks : InCall(t) /\ SlotInv(t)

LEMMA TailsAreCalls ==
  ASSUME NEW S, NEW s \in Seq(S), s # << >>
  PROVE  /\ Head(s) \in S /\ Tail(s) \in Seq(S)
         /\ \E i \in DOMAIN s : Head(s) = s[i]
         /\ \A i \in DOMAIN Tail(s) : \E j \in DOMAIN s : Tail(s)[i] = s[j]
  <1>1. Head(s) \in S /\ Tail(s) \in Seq(S)
    OBVIOUS
  <1>2. 1 \in DOMAIN s /\ Head(s) = s[1]
    OBVIOUS
  <1>3. ASSUME NEW i \in DOMAIN Tail(s) PROVE i + 1 \in DOMAIN s /\ Tail(s)[i] = s[i + 1]
    BY <1>3
  <1> QED
    BY <1>1, <1>2, <1>3

\* Where the tasks are after one of them has gone on.
LEMMA Gone ==
  ASSUME TaskTypes, NEW t \in Tasks, TaskTypes',
         NEW label, TaskGoto(t, label)
  PROVE  tpc'[t] = label /\ \A u \in Tasks : u # t => tpc'[u] = tpc[u]
  BY DEF TaskTypes, TaskGoto

\* What is recorded of a step that stores addresses.
LEMMA GivesTyped ==
  ASSUME IpInv, addr' \in [Ifaces -> Addrs \cup {Null}], Gives
  PROVE  given' \in [Ifaces -> Addrs \cup {Null}]
  BY DEF Gives, IpInv, IpTypes, HistoryTypes

LEMMA SlipsTyped ==
  ASSUME IpInv, addr' \in [Ifaces -> Addrs \cup {Null}], Slips
  PROVE  slipped' \in BOOLEAN /\ overtaken' \in BOOLEAN /\ given' \in [Ifaces -> Addrs \cup {Null}]
  <1>1. slipped' \in BOOLEAN /\ overtaken' \in BOOLEAN
    BY DEF Slips, IpInv, IpTypes, HistoryTypes
  <1>2. given' \in [Ifaces -> Addrs \cup {Null}]
    BY GivesTyped DEF Slips
  <1> QED
    BY <1>1, <1>2

LEMMA StackStarts == IpInit => IpInv
  <1> SUFFICES ASSUME IpInit PROVE IpInv
    OBVIOUS
  <1> USE IpAssumption, NetIfAssumption DEF IpAssumption, NetIfAssumption
  <1>1. RegistryTypes /\ TaskTypes
    BY DEF IpInit, NetIfsInit, RegistryTypes, TaskTypes, Ifaces, Vifs, Calling
  <1>2. HistoryTypes /\ MailTypes /\ StackTypes
    BY DEF IpInit, NetIfsInit, HistoryTypes, MailTypes, StackTypes
  <1>3. HandlesOwn
    BY DEF IpInit, NetIfsInit, HandlesOwn
  <1>4. ASSUME NEW t \in Tasks PROVE InCall(t) /\ SlotInv(t)
    <2>1. tpc[t] = "idle" /\ returned[t] = Null
      BY DEF IpInit, NetIfsInit
    <2> QED
      BY <2>1 DEF InCall, SlotInv, Filling
  <1> QED
    BY <1>1, <1>2, <1>3, <1>4 DEF IpInv, IpTypes

\* t is where it was, or not between a claim and the handle.
Steady(t) ==
  \/ tpc'[t] = tpc[t] /\ call'[t] = call[t]
  \/ {tpc[t], tpc'[t]} \cap {"fill", "return"} = {}

\* A step that neither registers anything nor starts or ends a registration.
LEMMA RegistryKept ==
  ASSUME IpInv, UNCHANGED registry,
         \A t \in Tasks : Steady(t)
  PROVE  RegistryTypes' /\ HandlesOwn' /\ \A t \in Tasks : SlotInv(t)'
  <1>1. RegistryTypes' /\ HandlesOwn'
    BY DEF IpInv, IpTypes, RegistryTypes, registry, HandlesOwn, Valid, InfoOf, FoundByName
  <1>2. \A t \in Tasks : Filling(t)' => Filling(t) /\ tpc'[t] = tpc[t] /\ call'[t] = call[t]
    BY DEF Filling, Steady
  <1>3. ASSUME NEW t \in Tasks PROVE SlotInv(t)'
    <2>1. SlotInv(t) /\ UNCHANGED <<used, vif, handle, at>>
      BY DEF IpInv, registry
    <2>2. CASE ~Filling(t)'
      BY <2>2 DEF SlotInv, Filling
    <2>3. CASE Filling(t)'
      BY <1>2, <2>1, <2>3 DEF SlotInv
    <2> QED
      BY <2>2, <2>3
  <1> QED
    BY <1>1, <1>3

\* net_al_ext_set_vif_ip and request().
Asking(t) ==
  \/ SetAddress(t) \/ RequestTooEarly(t) \/ RequestEarly(t) \/ RequestReset(t)
  \/ Post(t) \/ RequestAnswered(t) \/ RequestTimeout(t)

LEMMA AskingKeeps ==
  ASSUME IpInv, NEW t \in Tasks, Asking(t), Slips
  PROVE  IpInv'
  <1> USE IpAssumption, NetIfAssumption DEF IpAssumption, NetIfAssumption
  <1>1. UNCHANGED <<registry, stack, ppc, running, target, call, todo, executed, serving>>
    BY DEF Asking, SetAddress, RequestTooEarly, RequestEarly, RequestReset, Post,
       RequestAnswered, RequestTimeout, netifs, tasks, mailbox
  <1>2. /\ tpc[t] \in {"address", "early", "reset", "post", "wait"}
        /\ tpc[t] = "address" \/ call[t][1] \in Requests
        /\ call[t] \in Calling
    BY DEF Asking, SetAddress, RequestTooEarly, RequestEarly, RequestReset, Post,
       RequestAnswered, RequestTimeout, IpInv, InCall
  <1>3. PICK label \in {"idle", "reset", "post", "wait"} :
          TaskGoto(t, label) /\ (label = "idle" \/ tpc[t] # "address")
    BY DEF Asking, SetAddress, RequestTooEarly, RequestEarly, RequestReset, Post,
       RequestAnswered, RequestTimeout
  <1>4. TaskTypes'
    BY <1>1, <1>3 DEF IpInv, IpTypes, TaskTypes, TaskGoto
  <1>5. tpc'[t] = label /\ \A u \in Tasks : u # t => tpc'[u] = tpc[u]
    BY <1>3, <1>4, Gone DEF IpInv, IpTypes
  <1>6. addr' \in [Ifaces -> Addrs \cup {Null}]
    <2>1. addr \in [Ifaces -> Addrs \cup {Null}]
      BY DEF IpInv, IpTypes, StackTypes
    <2>2. CASE SetAddress(t)
      BY <2>1, <2>2 DEF SetAddress, Addrs
    <2>3. CASE ~SetAddress(t)
      BY <2>1, <2>3 DEF Asking, RequestTooEarly, RequestEarly, RequestReset, Post,
         RequestAnswered, RequestTimeout, netifs
    <2> QED
      BY <2>2, <2>3
  <1>7. HistoryTypes' /\ \A u \in Tasks : u # t => returned'[u] = returned[u]
    <2>1. \E r \in BOOLEAN \cup {Null} : returned' \in {returned, [returned EXCEPT ![t] = r]}
      BY DEF Asking, SetAddress, RequestTooEarly, RequestEarly, RequestReset, Post,
         RequestAnswered, RequestTimeout
    <2>2. awaiting' \in BOOLEAN
      BY DEF Asking, SetAddress, RequestTooEarly, RequestEarly, RequestReset, Post,
         RequestAnswered, RequestTimeout, IpInv, IpTypes, HistoryTypes
    <2>3. slipped' \in BOOLEAN /\ overtaken' \in BOOLEAN /\ given' \in [Ifaces -> Addrs \cup {Null}]
      BY <1>6, SlipsTyped
    <2> QED
      BY <1>1, <2>1, <2>2, <2>3 DEF IpInv, IpTypes, HistoryTypes
  <1>8. MailTypes'
    <2>1. CASE Post(t)
      <3>1. CommandOf(call[t][1]) \in {"ClientStart", "ClientStop", "ServerStart", "ServerStop"}
        BY <1>2, <2>1 DEF Post, CommandOf, Requests, ServerRequests
      <3> QED
        BY <1>1, <2>1, <3>1 DEF Post, IpInv, IpTypes, MailTypes
    <2>2. CASE ~Post(t)
      <3>1. UNCHANGED <<command, owner>> /\ result' \in {result, "pending"}
        BY <2>2 DEF Asking, SetAddress, RequestTooEarly, RequestEarly, RequestReset,
           RequestAnswered, RequestTimeout, mailbox
      <3> QED
        BY <1>1, <3>1 DEF IpInv, IpTypes, MailTypes
    <2> QED
      BY <2>1, <2>2
  <1>9. StackTypes'
    BY <1>1, <1>6 DEF IpInv, IpTypes, StackTypes
  <1>10. \A u \in Tasks : InCall(u)'
    BY <1>1, <1>2, <1>3, <1>5, <1>7 DEF IpInv, InCall
  <1>11. RegistryTypes' /\ HandlesOwn' /\ \A u \in Tasks : SlotInv(u)'
    <2>1. ASSUME NEW u \in Tasks
          PROVE  Steady(u)
      BY <1>1, <1>2, <1>5 DEF Steady
    <2>2. UNCHANGED registry
      BY <1>1
    <2> QED
      BY <2>1, <2>2, RegistryKept
  <1> QED
    BY <1>4, <1>7, <1>8, <1>9, <1>10, <1>11 DEF IpInv, IpTypes

LEMMA CallKeeps ==
  ASSUME IpInv, NEW t \in Tasks, Call(t), Slips
  PROVE  IpInv'
  <1> USE IpAssumption, NetIfAssumption DEF IpAssumption, NetIfAssumption
  <1> DEFINE op == Head(todo[t])[1]
             i == Head(todo[t])[2]
             goes == ~Refused(op, i)
  <1>1. /\ tpc[t] = "idle" /\ todo[t] # << >>
        /\ todo' = [todo EXCEPT ![t] = Tail(@)]
        /\ call' = [call EXCEPT ![t] = Head(todo[t])]
        /\ target' = (IF goes /\ NamesTarget(op, i)
                      THEN IF op = "dhcpd_start" THEN handle[i] ELSE i ELSE target)
        /\ executed' = executed \ {t}
        /\ returned' = [returned EXCEPT ![t] = Null]
        /\ serving' \in {TRUE, FALSE, serving, goes \/ serving}
        /\ awaiting' \in BOOLEAN
        /\ UNCHANGED <<mailbox, running, netifs, stack, ppc>>
    BY DEF Call
  <1>2. Head(todo[t]) \in Calling /\ Tail(todo[t]) \in Seq(Calling)
    BY <1>1, TailsAreCalls DEF IpInv, IpTypes, TaskTypes
  <1>3. op \in Operations /\ i \in Vifs
    BY <1>2 DEF Calling
  <1>4. \E label \in {"idle", "scan", "address", "early", "post"} :
          TaskGoto(t, label) /\ (label \in {"early", "post"} => op \in Requests)
    <2>1. CASE ~goes
      BY <2>1 DEF Call
    <2>2. CASE goes /\ op \in {"if_add", "if_add_static"}
      BY <2>2 DEF Call
    <2>3. CASE goes /\ op \in {"set_static", "set_none"}
      BY <2>3 DEF Call
    <2>4. CASE goes /\ op = "dhcp_connect"
      BY <2>4 DEF Call, Requests
    <2>5. CASE goes /\ op \in {"dhcp_disconnect", "dhcpd_start", "dhcpd_stop"}
      BY <2>5 DEF Call, Requests, ServerRequests
    <2> QED
      BY <1>3, <2>1, <2>2, <2>3, <2>4, <2>5 DEF Operations
  <1>5. PICK label \in {"idle", "scan", "address", "early", "post"} :
          TaskGoto(t, label) /\ (label \in {"early", "post"} => op \in Requests)
    BY <1>4
  <1>6. TaskTypes'
    BY <1>1, <1>2, <1>5 DEF IpInv, IpTypes, TaskTypes, TaskGoto
  <1>7. tpc'[t] = label /\ \A u \in Tasks : u # t => tpc'[u] = tpc[u]
    BY <1>5, <1>6, Gone DEF IpInv, IpTypes
  <1>8. HistoryTypes'
    <2>1. addr' \in [Ifaces -> Addrs \cup {Null}]
      BY <1>1 DEF IpInv, IpTypes, StackTypes, netifs
    <2>2. slipped' \in BOOLEAN /\ overtaken' \in BOOLEAN /\ given' \in [Ifaces -> Addrs \cup {Null}]
      BY <2>1, SlipsTyped
    <2> QED
      BY <1>1, <2>2 DEF IpInv, IpTypes, HistoryTypes
  <1>9. MailTypes'
    <2>1. goes /\ op = "dhcpd_start" => handle[i] \in Ifaces
      BY DEF Refused, Valid, IpInv, IpTypes, RegistryTypes
    <2>2. goes /\ NamesTarget(op, i) /\ op # "dhcpd_start" => i \in Ifaces
      BY DEF Refused, NamesTarget, Registered, IpInv, IpTypes, RegistryTypes
    <2>3. target' \in Ifaces \cup {Null}
      BY <1>1, <2>1, <2>2 DEF IpInv, IpTypes, MailTypes
    <2> QED
      BY <1>1, <2>3 DEF IpInv, IpTypes, MailTypes, mailbox
  <1>10. StackTypes'
    BY <1>1 DEF IpInv, IpTypes, StackTypes, netifs
  <1>11. ASSUME NEW u \in Tasks PROVE InCall(u)'
    <2>1. CASE u = t
      <3>1. call'[t] = Head(todo[t]) /\ returned'[t] = Null
        BY <1>1 DEF IpInv, IpTypes, TaskTypes, HistoryTypes
      <3> QED
        BY <1>2, <1>5, <1>7, <2>1, <3>1 DEF InCall
    <2>2. CASE u # t
      BY <1>1, <1>7, <2>2 DEF IpInv, InCall
    <2> QED
      BY <2>1, <2>2
  <1>12. RegistryTypes' /\ HandlesOwn' /\ \A u \in Tasks : SlotInv(u)'
    <2>1. ASSUME NEW u \in Tasks PROVE Steady(u)
      BY <1>1, <1>5, <1>7 DEF Steady
    <2>2. UNCHANGED registry
      BY <1>1 DEF netifs
    <2> QED
      BY <2>1, <2>2, RegistryKept
  <1> QED
    BY <1>6, <1>8, <1>9, <1>10, <1>11, <1>12 DEF IpInv, IpTypes

\* net_if_add: a slot is claimed, filled in, and its handle given out.
LEMMA RegistrationKeeps ==
  ASSUME IpInv, NEW t \in Tasks, Add(t), Slips
  PROVE  IpInv'
  <1> USE IpAssumption, NetIfAssumption DEF IpAssumption, NetIfAssumption
  <1> USE DEF IpInv, IpTypes
  <1>1. /\ tpc[t] \in {"scan", "fill", "return", "spawn"}
        /\ UNCHANGED <<mailbox, target, running, stack, ppc, call, todo, returned, serving,
                       executed, awaiting>>
    BY DEF Add, AddStep, AddTaken, AddRefused, AddClaim, AddFill, AddReturn, Spawn
  <1>2. \E label \in {"idle", "scan", "fill", "return", "spawn"} :
          tpc' = [tpc EXCEPT ![t] = label]
    BY DEF Add, AddStep, AddTaken, AddRefused, AddClaim, AddFill, AddReturn, Spawn, TaskGoto,
       TaskTypes
  <1>3. TaskTypes' /\ \A u \in Tasks : u # t => tpc'[u] = tpc[u]
    BY <1>1, <1>2 DEF TaskTypes
  <1>4. call[t] \in Calling /\ call[t][2] \in Vifs
    BY <1>1 DEF InCall, Calling
  <1>5. \A u \in Tasks : InCall(u)'
    BY <1>1, <1>2, <1>3, <1>4 DEF InCall
  <1>6. addr' \in [Ifaces -> Addrs \cup {Null}]
    <2>1. addr \in [Ifaces -> Addrs \cup {Null}]
      BY DEF StackTypes
    <2>2. CASE AddFill(t)
      BY <2>1, <2>2 DEF AddFill
    <2>3. CASE AddReturn(t)
      BY <2>1, <2>3 DEF AddReturn, Addrs
    <2>4. CASE ~AddFill(t) /\ ~AddReturn(t)
      BY <2>1, <2>4 DEF Add, AddStep, AddTaken, AddRefused, AddClaim, Spawn
    <2> QED
      BY <2>2, <2>3, <2>4
  <1>7. HistoryTypes' /\ MailTypes' /\ StackTypes'
    <2>1. slipped' \in BOOLEAN /\ overtaken' \in BOOLEAN /\ given' \in [Ifaces -> Addrs \cup {Null}]
      BY <1>6, SlipsTyped
    <2> QED
      BY <1>1, <1>6, <2>1 DEF HistoryTypes, MailTypes, StackTypes, mailbox
  <1>8. CASE AddTaken(t) \/ AddRefused(t) \/ Spawn(t)
    <2>1. /\ UNCHANGED <<used, vif, handle, call>> /\ spawned' \in {0, 1}
          /\ at' \in {at, [at EXCEPT ![t] = Station], [at EXCEPT ![t] = SoftAp],
                      [at EXCEPT ![t] = Null]}
          /\ ~Filling(t) /\ tpc'[t] \notin {"fill", "return"}
      BY <1>1, <1>8 DEF AddTaken, AddRefused, Spawn, TaskGoto, TaskTypes, RegistryTypes, Filling
    <2>2. RegistryTypes' /\ HandlesOwn'
      BY <2>1 DEF RegistryTypes, HandlesOwn, Valid, InfoOf, FoundByName, Ifaces
    <2>3. ASSUME NEW u \in Tasks, Filling(u)'
          PROVE  u # t /\ Filling(u) /\ tpc'[u] = tpc[u] /\ at'[u] = at[u]
      BY <1>3, <2>1, <2>3 DEF Filling, RegistryTypes
    <2>4. ASSUME NEW u \in Tasks PROVE SlotInv(u)'
      <3>1. CASE Filling(u)'
        BY <2>1, <2>3, <3>1 DEF SlotInv
      <3>2. CASE ~Filling(u)'
        BY <3>2 DEF SlotInv, Filling
      <3> QED
        BY <3>1, <3>2
    <2> QED
      BY <1>3, <1>5, <1>7, <2>2, <2>4
  <1>9. CASE AddClaim(t)
    <2>1. /\ UNCHANGED <<vif, spawned, handle, at>>
          /\ at[t] \in Ifaces /\ at[t] \notin used /\ used' = used \cup {at[t]}
          /\ tpc'[t] = "fill"
      BY <1>9 DEF AddClaim, TaskGoto, TaskTypes, RegistryTypes
    <2>2. RegistryTypes' /\ HandlesOwn'
      BY <2>1 DEF RegistryTypes, HandlesOwn, Valid, InfoOf, FoundByName
    <2>3. ASSUME NEW u \in Tasks, u # t, Filling(u)'
          PROVE  Filling(u) /\ tpc'[u] = tpc[u] /\ at[u] \in used
      BY <1>3, <2>3 DEF Filling, SlotInv
    <2>4. ASSUME NEW u \in Tasks PROVE SlotInv(u)'
      <3>1. CASE u = t
        <4>1. at'[t] \in used'
          <5> HIDE DEF IpInv, IpTypes
          <5> QED
            BY <2>1
        <4>3. \A v \in Vifs : handle'[v] # at'[t]
          <5>1. at[t] # Null
            BY <2>1 DEF Vifs
          <5>2. \A v \in Vifs : handle[v] = Null \/ handle[v] \in used
            BY DEF HandlesOwn, Valid
          <5> HIDE DEF IpInv, IpTypes
          <5> QED
            BY <2>1, <5>1, <5>2
        <4>2. ASSUME NEW w \in Tasks, w # t, Filling(w)' PROVE at'[w] # at'[t]
          BY <2>1, <2>3, <4>2
        <4> HIDE DEF IpInv, IpTypes
        <4> QED
          BY <2>1, <3>1, <4>1, <4>2, <4>3 DEF SlotInv, Filling
      <3>2. CASE u # t /\ Filling(u)'
        <4>1. SlotInv(u) /\ Filling(u) /\ tpc'[u] = tpc[u] /\ at[u] \in used
          BY <2>3, <3>2
        <4>2. \A v \in Tasks : v # u /\ Filling(v)' => at[v] # at[u]
          BY <2>1, <2>3, <4>1 DEF SlotInv
        <4> QED
          BY <1>1, <2>1, <4>1, <4>2 DEF SlotInv
      <3>3. CASE ~Filling(u)'
        BY <3>3 DEF SlotInv, Filling
      <3> QED
        BY <3>1, <3>2, <3>3
    <2> QED
      BY <1>3, <1>5, <1>7, <2>2, <2>4
  <1>10. CASE AddFill(t)
    <2>1. /\ UNCHANGED <<used, spawned, handle, at>>
          /\ tpc[t] = "fill" /\ tpc'[t] = "return"
          /\ vif' = [vif EXCEPT ![at[t]] = call[t][2]]
      BY <1>10 DEF AddFill, TaskGoto, TaskTypes
    <2>2. /\ Filling(t) /\ at[t] \in used /\ at[t] \in Ifaces
          /\ \A v \in Vifs : handle[v] # at[t]
          /\ \A u \in Tasks : u # t /\ Filling(u) => at[u] # at[t]
      BY <2>1 DEF SlotInv, Filling, RegistryTypes
    <2>3. /\ vif'[at[t]] = call[t][2]
          /\ \A h \in Ifaces : h # at[t] => vif'[h] = vif[h]
      BY <2>1, <2>2 DEF RegistryTypes
    <2>4. RegistryTypes'
      BY <1>4, <2>1 DEF RegistryTypes
    <2>5. HandlesOwn'
      BY <2>1, <2>2, <2>3 DEF RegistryTypes, HandlesOwn, Valid, InfoOf, FoundByName
    <2>6. ASSUME NEW u \in Tasks, Filling(u)'
          PROVE  Filling(u) /\ (u # t => tpc'[u] = tpc[u] /\ vif'[at[u]] = vif[at[u]])
      <3>1. CASE u = t
        BY <2>2, <3>1
      <3>2. CASE u # t
        <4>1. Filling(u) /\ tpc'[u] = tpc[u]
          BY <1>3, <2>6, <3>2 DEF Filling
        <4>2. at[u] \in Ifaces /\ at[u] # at[t]
          BY <2>2, <3>2, <4>1 DEF SlotInv, RegistryTypes
        <4> QED
          BY <2>3, <4>1, <4>2
      <3> QED
        BY <3>1, <3>2
    <2>7. ASSUME NEW u \in Tasks PROVE SlotInv(u)'
      <3>1. CASE u = t
        BY <1>1, <2>1, <2>2, <2>3, <2>6, <3>1 DEF SlotInv
      <3>2. CASE u # t /\ Filling(u)'
        BY <1>1, <2>1, <2>6, <3>2 DEF SlotInv
      <3>3. CASE ~Filling(u)'
        BY <3>3 DEF SlotInv, Filling
      <3> QED
        BY <3>1, <3>2, <3>3
    <2> QED
      BY <1>3, <1>5, <1>7, <2>4, <2>5, <2>7
  <1>11. CASE AddReturn(t)
    <2>1. /\ UNCHANGED <<used, vif, spawned>>
          /\ tpc[t] = "return" /\ tpc'[t] = "spawn"
          /\ handle' = [handle EXCEPT ![call[t][2]] = at[t]]
          /\ at' = [at EXCEPT ![t] = Station]
      BY <1>11 DEF AddReturn, TaskGoto, TaskTypes
    <2>2. /\ Filling(t) /\ at[t] \in used /\ at[t] \in Ifaces /\ vif[at[t]] = call[t][2]
          /\ \A u \in Tasks : u # t /\ Filling(u) => at[u] # at[t]
      BY <2>1 DEF SlotInv, Filling, RegistryTypes
    <2>3. RegistryTypes'
      BY <1>4, <2>1, <2>2 DEF RegistryTypes, Ifaces
    <2>4. /\ handle'[call[t][2]] = at[t]
          /\ \A v \in Vifs : v # call[t][2] => handle'[v] = handle[v]
      BY <1>4, <2>1 DEF RegistryTypes
    <2>5. HandlesOwn'
      BY <1>4, <2>1, <2>2, <2>4 DEF HandlesOwn, Valid, InfoOf, FoundByName
    <2>6. ASSUME NEW u \in Tasks, Filling(u)'
          PROVE  u # t /\ Filling(u) /\ tpc'[u] = tpc[u] /\ at'[u] = at[u]
      BY <1>3, <2>1, <2>6 DEF Filling, RegistryTypes
    <2>7. ASSUME NEW u \in Tasks PROVE SlotInv(u)'
      <3>1. CASE Filling(u)'
        <4>1. SlotInv(u) /\ at[u] # at[t]
          BY <2>2, <2>6, <3>1
        <4>2. tpc[u] = "fill" => \A v \in Vifs : handle'[v] # at[u]
          BY <2>4, <4>1 DEF SlotInv
        <4>3. \A w \in Tasks : w # u /\ Filling(w)' => at'[w] # at'[u]
          BY <2>6, <3>1, <4>1 DEF SlotInv
        <4> QED
          BY <1>1, <2>1, <2>6, <3>1, <4>1, <4>2, <4>3 DEF SlotInv
      <3>2. CASE ~Filling(u)'
        BY <3>2 DEF SlotInv, Filling
      <3> QED
        BY <3>1, <3>2
    <2> QED
      BY <1>3, <1>5, <1>7, <2>3, <2>5, <2>7
  <1> QED
    BY <1>8, <1>9, <1>10, <1>11 DEF Add, AddStep

LEMMA PollKeeps ==
  ASSUME IpInv, Polls
  PROVE  IpInv'
  <1> USE IpAssumption, NetIfAssumption DEF IpAssumption, NetIfAssumption
  <1>1. PollStep /\ UNCHANGED <<registry, tasks, target, owner>>
    BY DEF Polls, PollStep, PollStart, PollBind, PollAdopt, PollWriteBack, PollCommand, PollAnswer,
       PollSync, PollCompare, PollNet, PollClientSkip, PollClientConfigured,
       PollClientDeconfigured, PollClientQuiet, PollAnswerClient, netifs, mailbox
  <1>2. TaskTypes' /\ \A t \in Tasks : InCall(t)'
    BY <1>1 DEF IpInv, IpTypes, TaskTypes, InCall, tasks
  <1>3. MailTypes'
    <2>1. command' \in {command, "None"} /\ result' \in {result, "ok"} /\ running' \in {running, TRUE}
      BY <1>1 DEF PollStep, PollStart, PollBind, PollAdopt, PollWriteBack, PollCommand, PollAnswer,
         PollSync, PollCompare, PollNet, PollClientSkip, PollClientConfigured,
         PollClientDeconfigured, PollClientQuiet, PollAnswerClient, mailbox
    <2> QED
      BY <1>1, <2>1 DEF IpInv, IpTypes, MailTypes
  <1>4. StackTypes'
    <2> USE DEF IpInv, IpTypes, StackTypes
    <2>1. CASE PollStart
      BY <2>1 DEF PollStart, netifs
    <2>2. CASE PollBind
      <3>1. target # Null => target \in Ifaces
        BY DEF MailTypes
      <3>2. ASSUME NEW i \in Ifaces PROVE NewStack(i) \in Stacks
        BY <3>2 DEF NewStack, Stacks, ClientStates
      <3>3. Designated \in Ifaces
        BY DEF Designated, Ifaces
      <3>4. stack' \in Stacks
        BY <2>2, <3>1, <3>2, <3>3 DEF PollBind
      <3> QED
        BY <2>2, <3>4 DEF PollBind, netifs
    <2>3. CASE PollAdopt \/ PollSync \/ PollCompare
      <3>1. stack \in Stacks /\ stack.applied \in Addrs \cup {Null}
            /\ addr[stack.iface] \in Addrs \cup {Null}
        BY <2>3 DEF PollAdopt, PollSync, PollCompare, Stacks
      <3>2. ASSUME NEW x \in Addrs \cup {Null} PROVE SetAddr(stack, x) \in Stacks
        BY <3>1, <3>2 DEF SetAddr, Stacks
      <3>3. stack' \in {stack, SetAddr(stack, addr[stack.iface]), SetAddr(stack, stack.applied)}
        BY <2>3 DEF PollAdopt, PollSync, PollCompare
      <3>4. stack' \in Stacks
        BY <3>1, <3>2, <3>3
      <3>5. ppc' \in {"command", "adopted", "serve", "compare", "synced"} /\ UNCHANGED addr
        BY <2>3 DEF PollAdopt, PollSync, PollCompare, netifs
      <3> QED
        BY <3>4, <3>5
    <2>4. CASE PollWriteBack
      <3>1. stack \in Stacks /\ stack.applied \in Addrs \cup {Null}
        BY <2>4 DEF PollWriteBack, Stacks
      <3>2. addr' \in [Ifaces -> Addrs \cup {Null}]
        BY <2>4, <3>1 DEF PollWriteBack
      <3> QED
        BY <2>4, <3>1, <3>2 DEF PollWriteBack
    <2>5. CASE PollCommand
      <3>1. stack \in Stacks
        BY <2>5 DEF PollCommand
      <3>2. stack.bound \in Addrs \cup {Null} /\ StartClient \in Stacks
        BY <3>1 DEF StartClient, Stacks, ClientStates
      <3>3. [stack EXCEPT !.client = "off"] \in Stacks
        BY <3>1 DEF Stacks, ClientStates
      <3>4. [stack EXCEPT !.wanted = FALSE, !.dhcpd = FALSE] \in Stacks
        BY <3>1 DEF Stacks
      <3>5. ServerIfReady([stack EXCEPT !.wanted = TRUE]) \in Stacks
        BY <3>1 DEF Stacks, ServerIfReady
      <3>6. stack' \in {StartClient, [stack EXCEPT !.client = "off"], stack,
                        [stack EXCEPT !.wanted = FALSE, !.dhcpd = FALSE],
                        ServerIfReady([stack EXCEPT !.wanted = TRUE])}
        BY <2>5 DEF PollCommand
      <3>7. stack' \in Stacks
        BY <3>1, <3>2, <3>3, <3>4, <3>5, <3>6
      <3> QED
        BY <2>5, <3>7 DEF PollCommand, netifs
    <2>6. CASE PollAnswer \/ PollClientSkip \/ PollClientQuiet \/ PollAnswerClient
      BY <2>6 DEF PollAnswer, PollClientSkip, PollClientQuiet, PollAnswerClient, netifs
    <2>7. CASE \E lease \in ClientStates : PollNet(lease)
      <3>1. PICK lease \in ClientStates : PollNet(lease)
        BY <2>7
      <3>2. stack \in Stacks /\ stack.iface \in Ifaces
        BY <3>1 DEF PollNet, Stacks
      <3>3. ServerIfReady(stack) \in Stacks
        BY <3>2 DEF ServerIfReady, Stacks
      <3>4. stack' \in Stacks
        BY <3>1, <3>3 DEF PollNet, Stacks
      <3> QED
        BY <3>1, <3>4 DEF PollNet, netifs
    <2>8. CASE PollClientConfigured \/ PollClientDeconfigured
      <3>1. stack \in Stacks /\ stack.iface \in Ifaces
        BY <2>8 DEF PollClientConfigured, PollClientDeconfigured, Stacks
      <3>2. stack' \in Stacks
        BY <2>8, <3>1 DEF PollClientConfigured, PollClientDeconfigured, Stacks, ClientStates, Addrs
      <3>3. addr' \in [Ifaces -> Addrs \cup {Null}]
        BY <2>8, <3>1 DEF PollClientConfigured, PollClientDeconfigured, Addrs
      <3> QED
        BY <2>8, <3>2, <3>3 DEF PollClientConfigured, PollClientDeconfigured
    <2> QED
      BY <1>1, <2>1, <2>2, <2>3, <2>4, <2>5, <2>6, <2>7, <2>8 DEF PollStep
  <1>5. HistoryTypes'
    <2>1. executed' \subseteq Tasks
      <3>1. CASE PollCommand
        BY <3>1 DEF PollCommand, IpInv, IpTypes, HistoryTypes, MailTypes
      <3>2. CASE ~PollCommand
        BY <1>1, <3>2 DEF PollStep, PollStart, PollBind, PollAdopt, PollWriteBack, PollAnswer,
           PollSync, PollCompare, PollNet, PollClientSkip, PollClientConfigured,
           PollClientDeconfigured, PollClientQuiet, PollAnswerClient, IpInv, IpTypes, HistoryTypes
      <3> QED
        BY <3>1, <3>2
    <2>2. awaiting' \in BOOLEAN
      BY <1>1 DEF PollStep, PollStart, PollBind, PollAdopt, PollWriteBack, PollCommand, PollAnswer,
         PollSync, PollCompare, PollNet, PollClientSkip, PollClientConfigured,
         PollClientDeconfigured, PollClientQuiet, PollAnswerClient, IpInv, IpTypes, HistoryTypes
    <2>3. given' \in [Ifaces -> Addrs \cup {Null}]
      <3>1. CASE Gives
        BY <1>4, <3>1, GivesTyped DEF StackTypes
      <3>2. CASE UNCHANGED given
        BY <3>2 DEF IpInv, IpTypes, HistoryTypes
      <3> QED
        BY <3>1, <3>2 DEF Polls
    <2>4. UNCHANGED <<slipped, overtaken>>
      BY DEF Polls
    <2> QED
      BY <1>1, <2>1, <2>2, <2>3, <2>4 DEF IpInv, IpTypes, HistoryTypes, tasks
  <1>6. RegistryTypes' /\ HandlesOwn' /\ \A u \in Tasks : SlotInv(u)'
    <2>1. ASSUME NEW u \in Tasks PROVE Steady(u)
      BY <1>1 DEF Steady, tasks
    <2>2. UNCHANGED registry
      BY <1>1
    <2> QED
      BY <2>1, <2>2, RegistryKept
  <1> QED
    BY <1>2, <1>3, <1>4, <1>5, <1>6 DEF IpInv, IpTypes

LEMMA StackHolds == IpSpec => []IpInv
  <1>1. IpInv /\ [IpNext]_ipVars => IpInv'
    <2> SUFFICES ASSUME IpInv, [IpNext]_ipVars PROVE IpInv'
      OBVIOUS
    <2>1. ASSUME NEW t \in Tasks, Call(t) \/ TaskStep(t), Slips PROVE IpInv'
      BY <2>1, CallKeeps, RegistrationKeeps, AskingKeeps DEF TaskStep, Asking
    <2>2. CASE Polls
      BY <2>2, PollKeeps
    <2>3. CASE UNCHANGED ipVars
      <3>1. IpTypes'
        <4>1. RegistryTypes' /\ TaskTypes'
          BY <2>3 DEF ipVars, netifs, registry, tasks, IpInv, IpTypes, RegistryTypes, TaskTypes
        <4>2. HistoryTypes' /\ MailTypes'
          BY <2>3 DEF ipVars, history, tasks, mailbox, IpInv, IpTypes, HistoryTypes, MailTypes
        <4>3. StackTypes'
          BY <2>3 DEF ipVars, netifs, IpInv, IpTypes, StackTypes
        <4> QED
          BY <4>1, <4>2, <4>3 DEF IpTypes
      <3>2. HandlesOwn' /\ \A t \in Tasks : InCall(t)' /\ SlotInv(t)'
        BY <2>3 DEF ipVars, netifs, registry, tasks, IpInv, HandlesOwn, Valid, InfoOf,
           FoundByName, InCall, SlotInv, Filling
      <3> QED
        BY <3>1, <3>2 DEF IpInv
    <2> QED
      BY <2>1, <2>2, <2>3 DEF IpNext
  <1> QED
    BY <1>1, StackStarts, PTL DEF IpSpec

\* net_if_add and start(): whichever tasks register at once, in whatever
\* order, every handle given out leads to the interface it was given for, and
\* one task runs the stack.
THEOREM InterfacesAreSound == IpSpec => []InterfacesSound
  <1>1. IpInv => InterfacesSound
    <2> SUFFICES ASSUME IpInv PROVE InterfacesSound
      OBVIOUS
    <2>1. IpTypeOK
      <3>1. spawned \in Nat /\ (stack = Null \/ stack \in Stacks)
        <4>1. spawned \in {0, 1} /\ StackTypes
          BY DEF IpInv, IpTypes, RegistryTypes
        <4>2. stack = Null \/ stack \in Stacks
          BY <4>1 DEF StackTypes
        <4>3. spawned \in Nat
          BY <4>1
        <4> QED
          BY <4>2, <4>3
      <3>2. /\ used \subseteq Ifaces /\ vif \in [Ifaces -> Vifs \cup {Null}]
            /\ handle \in [Vifs -> Ifaces \cup {Null}] /\ at \in [Tasks -> Ifaces \cup {Null}]
        BY DEF IpInv, IpTypes, RegistryTypes
      <3>3. MailTypes /\ HistoryTypes /\ TaskTypes /\ StackTypes
        BY DEF IpInv, IpTypes
      <3> HIDE DEF IpInv
      <3> QED
        BY <3>1, <3>2, <3>3 DEF IpTypeOK, TaskTypes, HistoryTypes, MailTypes, StackTypes, Calling
    <2>2. OnePollTask
      BY DEF OnePollTask, IpInv, IpTypes, RegistryTypes
    <2> QED
      BY <2>1, <2>2 DEF InterfacesSound, IpInv
  <1> QED
    BY <1>1, StackHolds, PTL

-----------------------------------------------------------------------------
(* RESULT has no name on it: it answers the DHCP server's requests as long *)
(* as one task makes them and no DHCP client is asked for beside them.     *)

OpsOf(calls) == {calls[i][1] : i \in DOMAIN calls}

\* The requests s alone makes are the server's.
Sole(requests, t, s) == requests \cap Requests \subseteq IF t = s THEN ServerRequests ELSE {}

OneServerUser ==
  \A p \in Programs :
    \/ \A t \in Tasks : OpsOf(p[t]) \cap ServerRequests = {}
    \/ \E s \in Tasks : \A t \in Tasks : Sole(OpsOf(p[t]), t, s)

\* What a task may still ask for, has asked for, or has an answer to.
Asks(t) ==
  OpsOf(todo[t]) \cup (IF tpc[t] = "idle" /\ returned[t] # TRUE THEN {} ELSE {call[t][1]})

NoServer(t) == Asks(t) \cap ServerRequests = {}
SoleAsker(t, s) == Sole(Asks(t), t, s)

\* One request of s is in the mailbox, being answered, or answered.
Exchange(s) ==
  /\ command \in {"None", "ServerStart", "ServerStop"}
  /\ command # "None" => owner = s /\ tpc[s] = "wait" /\ result = "pending"
  /\ ppc = "answer" =>
       tpc[s] = "wait" /\ s \in executed /\ result = "pending" /\ command = "None"
  /\ tpc[s] = "post" => result = "pending"
  /\ tpc[s] = "wait" => command # "None" \/ ppc = "answer" \/ (result = "ok" /\ s \in executed)
  /\ returned[s] = TRUE => s \in executed

NoClient ==
  /\ ppc # "answer client"
  /\ ppc = "start" \/ (ppc = "bind" /\ stack = Null) \/ stack.client = "off"

OwnInv ==
  \/ \A t \in Tasks : NoServer(t)
  \/ \E s \in Tasks : Exchange(s) /\ NoClient /\ \A t \in Tasks : SoleAsker(t, s)

\* Nobody asks for more than it was going to.
LEMMA AsksShrink ==
  ASSUME IpInv, IpNext, NEW t \in Tasks
  PROVE  Asks(t)' \subseteq Asks(t)
  <1> USE IpAssumption, NetIfAssumption DEF IpAssumption, NetIfAssumption
  <1>1. ASSUME NEW u \in Tasks, Call(u) PROVE Asks(t)' \subseteq Asks(t)
    <2>1. /\ tpc[u] = "idle" /\ todo[u] # << >>
          /\ todo' = [todo EXCEPT ![u] = Tail(@)]
          /\ call' = [call EXCEPT ![u] = Head(todo[u])]
          /\ returned' = [returned EXCEPT ![u] = Null]
          /\ \E label : tpc' = [tpc EXCEPT ![u] = label]
      BY <1>1 DEF Call, TaskGoto
    <2>2. todo \in [Tasks -> Seq(Calling)] /\ call \in [Tasks -> Calling \cup {Null}]
      BY DEF IpInv, IpTypes, TaskTypes
    <2>3. DOMAIN tpc = Tasks /\ DOMAIN returned = Tasks
      BY DEF IpInv, IpTypes, TaskTypes, HistoryTypes
    <2>4. CASE u # t
      <3>1. UNCHANGED <<todo[t], call[t], tpc[t], returned[t]>>
        BY <2>1, <2>2, <2>3, <2>4
      <3> QED
        BY <3>1 DEF Asks
    <2>5. CASE u = t
      <3>1. todo'[t] = Tail(todo[t]) /\ call'[t] = Head(todo[t]) /\ returned'[t] = Null
        BY <2>1, <2>2, <2>3, <2>5
      <3>2. OpsOf(Tail(todo[t])) \subseteq OpsOf(todo[t]) /\ Head(todo[t])[1] \in OpsOf(todo[t])
        BY <2>1, <2>2, <2>5, TailsAreCalls DEF OpsOf
      <3> QED
        BY <3>1, <3>2 DEF Asks
    <2> QED
      BY <2>4, <2>5
  <1>2. ASSUME NEW u \in Tasks, TaskStep(u) PROVE Asks(t)' \subseteq Asks(t)
    <2>1. UNCHANGED <<todo, call>> /\ tpc[u] # "idle"
      BY <1>2 DEF TaskStep, Add, AddStep, AddTaken, AddRefused, AddClaim, AddFill, AddReturn, Spawn,
         SetAddress, RequestTooEarly, RequestEarly, RequestReset, Post, RequestAnswered,
         RequestTimeout
    <2>2. /\ \E label : tpc' \in {tpc, [tpc EXCEPT ![u] = label]}
          /\ \E r : returned' \in {returned, [returned EXCEPT ![u] = r]}
      BY <1>2 DEF TaskStep, Add, AddStep, AddTaken, AddRefused, AddClaim, AddFill, AddReturn, Spawn,
         SetAddress, RequestTooEarly, RequestEarly, RequestReset, Post, RequestAnswered,
         RequestTimeout, TaskGoto
    <2>3. DOMAIN tpc = Tasks /\ DOMAIN returned = Tasks
      BY DEF IpInv, IpTypes, TaskTypes, HistoryTypes
    <2>4. CASE u # t
      <3>1. UNCHANGED <<tpc[t], returned[t]>>
        BY <2>2, <2>3, <2>4
      <3> QED
        BY <2>1, <3>1 DEF Asks
    <2>5. CASE u = t
      BY <2>1, <2>5 DEF Asks
    <2> QED
      BY <2>4, <2>5
  <1>3. ASSUME PollStep PROVE Asks(t)' \subseteq Asks(t)
    <2>1. UNCHANGED tasks
      BY <1>3 DEF PollStep, PollStart, PollBind, PollAdopt, PollWriteBack, PollCommand, PollAnswer,
         PollSync, PollCompare, PollNet, PollClientSkip, PollClientConfigured,
         PollClientDeconfigured, PollClientQuiet, PollAnswerClient
    <2> QED
      BY <2>1 DEF Asks, tasks
  <1> QED
    BY <1>1, <1>2, <1>3 DEF IpNext, Polls

LEMMA SolesStay ==
  ASSUME IpInv, IpNext
  PROVE  /\ (\A t \in Tasks : NoServer(t)) => \A t \in Tasks : NoServer(t)'
         /\ \A s \in Tasks :
              (\A t \in Tasks : SoleAsker(t, s)) => \A t \in Tasks : SoleAsker(t, s)'
  <1>1. ASSUME NEW t \in Tasks PROVE NoServer(t) => NoServer(t)'
    BY AsksShrink DEF NoServer
  <1>2. ASSUME NEW t \in Tasks, NEW s \in Tasks PROVE SoleAsker(t, s) => SoleAsker(t, s)'
    <2>1. Asks(t)' \subseteq Asks(t)
      BY AsksShrink
    <2> QED
      BY <2>1 DEF SoleAsker, Sole
  <1> QED
    BY <1>1, <1>2

\* What a task is in the middle of asking it is counted as asking.
LEMMA AskingIsAsked ==
  ASSUME IpInv, NEW s \in Tasks, NEW t \in Tasks, SoleAsker(t, s),
         tpc[t] \in {"early", "reset", "post", "wait"}
  PROVE  t = s /\ call[t][1] \in ServerRequests
  <1>1. call[t][1] \in Requests /\ call[t][1] \in Asks(t)
    BY DEF IpInv, InCall, Asks
  <1> QED
    BY <1>1 DEF SoleAsker, Sole

\* The other tasks do not touch the mailbox.
LEMMA OthersKeepExchange ==
  ASSUME IpInv, NEW s \in Tasks, NEW t \in Tasks, t # s, Exchange(s), NoClient, SoleAsker(t, s),
         Call(t) \/ TaskStep(t)
  PROVE  Exchange(s)' /\ NoClient'
  <1>1. tpc[t] \notin {"early", "reset", "post", "wait"}
    BY AskingIsAsked
  <1>2. /\ UNCHANGED <<mailbox, stack, ppc>>
        /\ executed' \in {executed, executed \ {t}}
        /\ \E label : tpc' \in {tpc, [tpc EXCEPT ![t] = label]}
        /\ returned' \in {returned, [returned EXCEPT ![t] = Null]}
    <2>1. CASE Call(t)
      BY <2>1 DEF Call, TaskGoto
    <2>2. CASE Add(t) \/ SetAddress(t)
      BY <2>2 DEF Add, AddStep, AddTaken, AddRefused, AddClaim, AddFill, AddReturn, Spawn,
         SetAddress, TaskGoto
    <2> QED
      BY <1>1, <2>1, <2>2 DEF TaskStep, RequestTooEarly, RequestEarly, RequestReset, Post,
         RequestAnswered, RequestTimeout
  <1>3. DOMAIN tpc = Tasks /\ DOMAIN returned = Tasks
    BY DEF IpInv, IpTypes, TaskTypes, HistoryTypes
  <1>4. tpc'[s] = tpc[s] /\ returned'[s] = returned[s] /\ (s \in executed => s \in executed')
    BY <1>2, <1>3
  <1> QED
    BY <1>2, <1>4 DEF Exchange, NoClient, mailbox

\* request(): the answer is reset, the command stored, and the answer read.
LEMMA RequestKeepsExchange ==
  ASSUME IpInv, NEW s \in Tasks, Exchange(s), NoClient, SoleAsker(s, s),
         Call(s) \/ TaskStep(s)
  PROVE  Exchange(s)' /\ NoClient'
  <1> USE IpAssumption, NetIfAssumption DEF IpAssumption, NetIfAssumption
  <1>1. /\ DOMAIN tpc = Tasks /\ DOMAIN returned = Tasks
        /\ tpc[s] \in {"early", "reset", "post", "wait"} => call[s][1] \in ServerRequests
    BY AskingIsAsked DEF IpInv, IpTypes, TaskTypes, HistoryTypes
  <1>2. /\ UNCHANGED <<stack, ppc>> /\ NoClient'
    BY DEF TaskStep, Call, Add, AddStep, AddTaken, AddRefused, AddClaim, AddFill, AddReturn, Spawn,
       SetAddress, RequestTooEarly, RequestEarly, RequestReset, Post, RequestAnswered,
       RequestTimeout, NoClient
  <1>3. CASE Call(s)
    <2>1. /\ tpc[s] = "idle" /\ todo[s] # << >> /\ returned'[s] # TRUE
          /\ UNCHANGED mailbox
      BY <1>1, <1>3 DEF Call
    <2>2. Head(todo[s])[1] \in Asks(s)
      <3>1. todo[s] \in Seq(Calling)
        BY DEF IpInv, IpTypes, TaskTypes
      <3>2. \E i \in DOMAIN todo[s] : Head(todo[s]) = todo[s][i]
        BY <2>1, <3>1, TailsAreCalls
      <3> QED
        BY <3>2 DEF Asks, OpsOf
    <2>3. Head(todo[s])[1] # "dhcp_connect"
      BY <2>2 DEF SoleAsker, Sole, Requests, ServerRequests
    <2>4. \E label \in {"idle", "scan", "address", "early"} : tpc' = [tpc EXCEPT ![s] = label]
      <3>1. CASE Refused(Head(todo[s])[1], Head(todo[s])[2])
        BY <1>3, <3>1 DEF Call, TaskGoto
      <3>2. CASE ~Refused(Head(todo[s])[1], Head(todo[s])[2])
        BY <1>3, <2>3, <3>2 DEF Call, TaskGoto
      <3> QED
        BY <3>1, <3>2
    <2>5. tpc'[s] \notin {"post", "wait"}
      BY <1>1, <2>4
    <2> QED
      BY <1>2, <2>1, <2>5 DEF Exchange, mailbox
  <1>4. CASE Add(s) \/ SetAddress(s)
    <2>1. /\ tpc[s] \in {"scan", "fill", "return", "spawn", "address"}
          /\ UNCHANGED <<mailbox, executed, returned>>
          /\ \E label \in {"idle", "scan", "fill", "return", "spawn"} :
               tpc' \in {tpc, [tpc EXCEPT ![s] = label]}
      BY <1>4 DEF Add, AddStep, AddTaken, AddRefused, AddClaim, AddFill, AddReturn, Spawn,
         SetAddress, TaskGoto
    <2>2. tpc'[s] \notin {"post", "wait"}
      BY <1>1, <2>1
    <2> QED
      BY <1>2, <2>1, <2>2 DEF Exchange, mailbox
  <1>5. CASE RequestTooEarly(s) \/ RequestEarly(s)
    <2>1. /\ tpc[s] = "early" /\ tpc'[s] \in {"idle", "reset"}
          /\ returned'[s] \in {returned[s], FALSE}
          /\ UNCHANGED <<mailbox, executed>>
      BY <1>1, <1>5 DEF RequestTooEarly, RequestEarly, TaskGoto
    <2> QED
      BY <1>2, <2>1 DEF Exchange, mailbox
  <1>6. CASE RequestReset(s)
    <2>1. /\ tpc[s] = "reset" /\ tpc'[s] = "post" /\ result' = "pending"
          /\ UNCHANGED <<command, owner, executed, returned>>
      BY <1>1, <1>6 DEF RequestReset, TaskGoto
    <2> QED
      BY <1>2, <2>1 DEF Exchange
  <1>7. CASE Post(s)
    <2>1. /\ tpc[s] = "post" /\ call[s][1] \in ServerRequests
          /\ tpc'[s] = (IF call[s][1] = "dhcp_connect" THEN "idle" ELSE "wait")
          /\ command' = CommandOf(call[s][1]) /\ owner' = s
          /\ UNCHANGED <<result, executed, returned>>
      BY <1>1, <1>7 DEF Post, TaskGoto
    <2>2. tpc'[s] = "wait" /\ command' \in {"ServerStart", "ServerStop"}
      BY <2>1 DEF ServerRequests, CommandOf
    <2> QED
      BY <1>2, <2>1, <2>2 DEF Exchange
  <1>8. CASE RequestAnswered(s)
    <2>1. /\ tpc[s] = "wait" /\ result = "ok" /\ tpc'[s] = "idle"
          /\ UNCHANGED <<mailbox, executed>>
      BY <1>1, <1>8 DEF RequestAnswered, TaskGoto
    <2> QED
      BY <1>2, <2>1 DEF Exchange, mailbox
  <1>9. CASE RequestTimeout(s)
    <2>1. /\ tpc[s] = "wait" /\ result = "pending" /\ ~(command # "None" /\ owner = s)
          /\ ppc # "answer"
      BY <1>9 DEF RequestTimeout
    <2> QED
      BY <2>1 DEF Exchange
  <1> QED
    BY <1>3, <1>4, <1>5, <1>6, <1>7, <1>8, <1>9 DEF TaskStep

\* The poll task carries out what it finds, and answers that.
LEMMA PollKeepsExchange ==
  ASSUME IpInv, NEW s \in Tasks, Exchange(s), NoClient, PollStep
  PROVE  Exchange(s)' /\ NoClient'
  <1>1. UNCHANGED <<tasks, owner>>
    BY DEF PollStep, PollStart, PollBind, PollAdopt, PollWriteBack, PollCommand, PollAnswer,
       PollSync, PollCompare, PollNet, PollClientSkip, PollClientConfigured,
       PollClientDeconfigured, PollClientQuiet, PollAnswerClient, mailbox
  <1>2. stack \in Stacks => stack.client \in ClientStates
    BY DEF Stacks
  <1>3. CASE PollStart
    BY <1>1, <1>3 DEF PollStart, Exchange, NoClient, mailbox, tasks, IpInv, IpTypes, StackTypes
  <1>4. CASE PollBind
    <2>1. stack'.client = "off"
      BY <1>4 DEF PollBind, NewStack, NoClient
    <2> QED
      BY <1>1, <1>4, <2>1 DEF PollBind, Exchange, NoClient, mailbox, tasks
  <1>5. CASE PollCommand
    <2>1. stack \in Stacks /\ stack.client = "off" /\ command' = "None"
          /\ result' = result
      BY <1>5 DEF PollCommand, IpInv, IpTypes, StackTypes, NoClient
    <2>2. CASE command = "None"
      BY <1>1, <1>5, <2>1, <2>2 DEF PollCommand, Exchange, NoClient, tasks
    <2>3. CASE command \in {"ServerStart", "ServerStop"}
      <3>1. /\ ppc' = "answer" /\ executed' = executed \cup {s}
            /\ tpc[s] = "wait" /\ result = "pending"
        BY <1>5, <2>3 DEF PollCommand, Exchange
      <3>2. Exchange(s)'
        BY <1>1, <2>1, <3>1 DEF Exchange, tasks
      <3>3. stack'.client = "off"
        <4>1. CASE command = "ServerStart"
          BY <1>5, <2>1, <4>1 DEF PollCommand, ServerIfReady, Stacks
        <4>2. CASE command = "ServerStop"
          BY <1>5, <2>1, <4>2 DEF PollCommand, Stacks
        <4> QED
          BY <2>3, <4>1, <4>2
      <3> QED
        BY <3>1, <3>2, <3>3 DEF NoClient
    <2>4. command \in {"None", "ServerStart", "ServerStop"}
      BY DEF Exchange
    <2> QED
      BY <2>2, <2>3, <2>4
  <1>6. CASE PollAnswer
    <2>1. /\ ppc = "answer" /\ ppc' = "poll" /\ result' = "ok"
          /\ UNCHANGED <<command, stack, tpc, returned, executed>>
      BY <1>1, <1>6 DEF PollAnswer, tasks
    <2>2. tpc[s] = "wait" /\ s \in executed /\ command = "None"
      BY <2>1 DEF Exchange
    <2>3. Exchange(s)'
      BY <2>1, <2>2 DEF Exchange
    <2> QED
      BY <2>1, <2>3 DEF NoClient
  <1>7. CASE \E lease \in ClientStates : PollNet(lease)
    <2>1. PICK lease \in ClientStates : PollNet(lease)
      BY <1>7
    <2>2. stack \in Stacks /\ stack.client = "off"
      BY <2>1 DEF PollNet, IpInv, IpTypes, StackTypes, NoClient
    <2>3. lease = "off" /\ ppc = "serve" /\ ppc' = "client" /\ UNCHANGED <<mailbox, executed>>
      BY <2>1, <2>2 DEF PollNet
    <2>4. ServerIfReady(stack) \in Stacks
      BY <2>2 DEF ServerIfReady, Stacks
    <2>5. stack'.client = "off"
      BY <2>1, <2>3, <2>4 DEF PollNet, Stacks
    <2> QED
      BY <1>1, <2>3, <2>5 DEF Exchange, NoClient, mailbox, tasks
  <1>8. CASE PollClientSkip
    BY <1>1, <1>8 DEF PollClientSkip, Exchange, NoClient, mailbox, tasks
  <1>9. CASE PollClientConfigured \/ PollClientDeconfigured \/ PollClientQuiet \/ PollAnswerClient
    BY <1>9 DEF PollClientConfigured, PollClientDeconfigured, PollClientQuiet, PollAnswerClient,
       NoClient
  <1>10. CASE PollAdopt \/ PollSync \/ PollCompare
    <2>1. /\ stack \in Stacks /\ stack.client = "off" /\ UNCHANGED <<mailbox, executed>>
          /\ ppc' \in {"command", "adopted", "serve", "compare", "synced"} /\ ppc # "answer"
      BY <1>10 DEF PollAdopt, PollSync, PollCompare, IpInv, IpTypes, StackTypes, NoClient
    <2>2. \A x : SetAddr(stack, x).client = "off"
      BY <2>1 DEF SetAddr, Stacks
    <2>3. stack'.client = "off"
      BY <1>10, <2>1, <2>2 DEF PollAdopt, PollSync, PollCompare
    <2> QED
      BY <1>1, <2>1, <2>3 DEF Exchange, NoClient, mailbox, tasks
  <1>11. CASE PollWriteBack
    <2>1. /\ UNCHANGED <<stack, mailbox, executed>> /\ ppc' \in {"command", "serve"}
          /\ ppc \in {"adopted", "synced"}
      BY <1>11 DEF PollWriteBack
    <2> QED
      BY <1>1, <2>1 DEF Exchange, NoClient, mailbox, tasks
  <1> QED
    BY <1>3, <1>4, <1>5, <1>6, <1>7, <1>8, <1>9, <1>10, <1>11 DEF PollStep

LEMMA OwnHolds == ASSUME OneServerUser PROVE IpSpec => []OwnInv
  <1>1. IpInit => OwnInv
    <2> SUFFICES ASSUME IpInit PROVE OwnInv
      OBVIOUS
    <2> USE IpAssumption, NetIfAssumption DEF IpAssumption, NetIfAssumption
    <2>1. ASSUME NEW t \in Tasks PROVE Asks(t) = OpsOf(todo[t]) /\ tpc[t] = "idle" /\ returned[t] = Null
      BY DEF IpInit, NetIfsInit, Asks
    <2>2. CASE \A t \in Tasks : OpsOf(todo[t]) \cap ServerRequests = {}
      BY <2>1, <2>2 DEF OwnInv, NoServer
    <2>3. CASE \E s \in Tasks : \A t \in Tasks : Sole(OpsOf(todo[t]), t, s)
      <3>1. PICK s \in Tasks : \A t \in Tasks : Sole(OpsOf(todo[t]), t, s)
        BY <2>3
      <3>2. \A t \in Tasks : SoleAsker(t, s)
        BY <2>1, <3>1 DEF SoleAsker
      <3>3. Exchange(s) /\ NoClient
        BY <2>1 DEF IpInit, Exchange, NoClient
      <3> QED
        BY <3>2, <3>3 DEF OwnInv
    <2> QED
      BY <2>2, <2>3 DEF IpInit, OneServerUser
  <1>2. IpInv /\ OwnInv /\ [IpNext]_ipVars => OwnInv'
    <2> SUFFICES ASSUME IpInv, OwnInv, [IpNext]_ipVars PROVE OwnInv'
      OBVIOUS
    <2>1. CASE IpNext /\ \A t \in Tasks : NoServer(t)
      BY <2>1, SolesStay DEF OwnInv
    <2>2. CASE IpNext /\ \E s \in Tasks : Exchange(s) /\ NoClient /\ \A t \in Tasks : SoleAsker(t, s)
      <3>1. PICK s \in Tasks : Exchange(s) /\ NoClient /\ \A t \in Tasks : SoleAsker(t, s)
        BY <2>2
      <3>2. \A t \in Tasks : SoleAsker(t, s)'
        BY <2>2, <3>1, SolesStay
      <3>3. Exchange(s)' /\ NoClient'
        <4>1. ASSUME NEW t \in Tasks, Call(t) \/ TaskStep(t) PROVE Exchange(s)' /\ NoClient'
          BY <3>1, <4>1, OthersKeepExchange, RequestKeepsExchange
        <4> QED
          BY <2>2, <3>1, <4>1, PollKeepsExchange DEF IpNext, Polls
      <3> QED
        BY <3>2, <3>3 DEF OwnInv
    <2>3. CASE UNCHANGED ipVars
      BY <2>3 DEF ipVars, mailbox, tasks, netifs, OwnInv, NoServer, SoleAsker, Asks, Exchange, NoClient
    <2> QED
      BY <2>1, <2>2, <2>3 DEF OwnInv
  <1> QED
    BY <1>1, <1>2, StackHolds, PTL DEF IpSpec

\* request(): as long as one task makes all the requests, and they are the DHCP
\* server's, true means that the poll task has carried out this one: RESULT is
\* reset before the command is stored and not answered until it is taken.
THEOREM ServerAnswersAreOwn == ASSUME OneServerUser PROVE IpSpec => []ServerAnswerIsOwn
  <1>1. IpInv /\ OwnInv => ServerAnswerIsOwn
    <2> SUFFICES ASSUME IpInv, OwnInv, NEW t \in Tasks,
                        returned[t] = TRUE, call[t][1] \in {"dhcpd_start", "dhcpd_stop"}
                 PROVE  t \in executed
      BY DEF ServerAnswerIsOwn
    <2>1. call[t][1] \in Asks(t) \cap ServerRequests
      BY DEF Asks, ServerRequests
    <2>2. PICK s \in Tasks : Exchange(s) /\ \A u \in Tasks : SoleAsker(u, s)
      BY <2>1 DEF OwnInv, NoServer
    <2>3. t = s
      BY <2>1, <2>2 DEF SoleAsker, Sole, Requests
    <2> QED
      BY <2>2, <2>3 DEF Exchange
  <1> QED
    BY <1>1, StackHolds, OwnHolds, PTL
=============================================================================
