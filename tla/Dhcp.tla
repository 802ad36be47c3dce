-------------------------------- MODULE Dhcp --------------------------------
(* The DHCP server of bl616-dhcp: the lease table and the answer to each   *)
(* message, with the clients (external) and the network between them.      *)
(*                                                                         *)
(* Addresses are host numbers; 0 is "no lease" as in the code.  The packet *)
(* layout is not modelled, only the fields a decision reads.               *)
EXTENDS Integers, Sequences, FiniteSets

CONSTANTS
  Clients,    \* stations, by MAC address
  Slots,      \* MAX_LEASES
  Configs,    \* <<start, limit>> pairs a server may be built with
  LastHost,   \* 254, the last host number below the broadcast address
  ServerHost, \* the server's own host number
  MaxSent,    \* bound: messages of the clients under way at once, replies included
  Nobody      \* the MAC address of an empty slot

Hosts == 0 .. LastHost
NoAddress == 0

ASSUME DhcpAssumption ==
  /\ Slots \in Nat \ {0} /\ LastHost \in Nat /\ MaxSent \in Nat
  /\ Configs \subseteq Nat \X Nat
  /\ ServerHost \in 1 .. LastHost
  /\ Nobody \notin Clients

VARIABLES
  first, last, \* the pool
  leases,      \* the lease table
  toServer,    \* per client: messages to the server, in order
  toClient,    \* per client: replies, in order
  asked,       \* the exchange a client is in
  sought,      \* the address it named in its last request, while that matters
  held         \* the address a client uses

vars == <<first, last, leases, toServer, toClient, asked, sought, held>>

Empty == [mac |-> Nobody, host |-> NoAddress]

AtMost(a, b) == IF a < b THEN a ELSE b

\* Mutant: the end of the pool is not clamped.
PoolUnclamped(start, limit) ==
  /\ start # 0 /\ limit # 0
  /\ first = AtMost(start, LastHost) /\ last = start + limit - 1
  /\ first >= 2 /\ first <= last

\* Leases::new, on a configuration it accepts.
Pool(start, limit) ==
  /\ start # 0 /\ limit # 0
  /\ first = AtMost(start, LastHost) /\ last = AtMost(start + limit - 1, LastHost)
  /\ first >= 2 /\ first <= last

Init ==
  /\ \E c \in Configs : Pool(c[1], c[2])
  /\ leases = [s \in 1 .. Slots |-> Empty]
  /\ toServer = [c \in Clients |-> << >>]
  /\ toClient = [c \in Clients |-> << >>]
  /\ asked = [c \in Clients |-> "nothing"]
  /\ sought = [c \in Clients |-> NoAddress]
  /\ held = [c \in Clients |-> NoAddress]

-----------------------------------------------------------------------------
(* The lease table.  An operator that finds nothing returns NoAddress.     *)

TableSlots == 1 .. Slots

\* iter().find: the first slot a set of slots holds.
FirstOf(S) == CHOOSE s \in S : \A t \in S : s <= t

OwnSlots(mac) == {s \in TableSlots : leases[s].host # NoAddress /\ leases[s].mac = mac}

\* Mutant: the last slot is not looked at.
TakenButLast == {leases[s].host : s \in 1 .. Slots - 1}

Taken == {leases[s].host : s \in TableSlots}

Untaken == {h \in first .. last : h \notin Taken}

Offer(mac) ==
  IF OwnSlots(mac) # {} THEN leases[FirstOf(OwnSlots(mac))].host
  ELSE IF Untaken # {} THEN FirstOf(Untaken)
  ELSE NoAddress

HeldByOther(mac, host) ==
  \E s \in TableSlots : leases[s].host = host /\ leases[s].mac # mac

\* What commit settles on: the address asked for if it is in the pool and
\* nobody else's, no address if it is somebody's, else what it would offer.
\* Mutant: the holder is not looked at.
CommitAnyHost(mac, wanted) ==
  IF wanted \in first .. last THEN wanted ELSE Offer(mac)

CommitHost(mac, wanted) ==
  IF wanted \in first .. last
  THEN IF HeldByOther(mac, wanted) THEN NoAddress ELSE wanted
  ELSE Offer(mac)

\* The slot it goes to: one that has the address or belongs to the client, else
\* an empty one.
\* Mutant: always an empty one.
CommitSlotsEmpty(mac, host) == {s \in TableSlots : leases[s].host = NoAddress}

CommitSlots(mac, host) ==
  LET own == {s \in TableSlots : leases[s].host = host} \cup OwnSlots(mac)
  IN IF own # {} THEN own ELSE {s \in TableSlots : leases[s].host = NoAddress}

CanCommit(mac, wanted) ==
  LET host == CommitHost(mac, wanted)
  IN host # NoAddress /\ CommitSlots(mac, host) # {}

Committed(mac, wanted) ==
  LET host == CommitHost(mac, wanted)
  IN [leases EXCEPT ![FirstOf(CommitSlots(mac, host))] = [mac |-> mac, host |-> host]]

\* Mutant: the slot keeps its address.
ReleasedKept(mac) ==
  [s \in TableSlots |-> IF leases[s].mac = mac THEN [leases[s] EXCEPT !.mac = Nobody] ELSE leases[s]]

Released(mac) ==
  [s \in TableSlots |-> IF leases[s].mac = mac THEN Empty ELSE leases[s]]

-----------------------------------------------------------------------------
(* Leases::handle, on the next message of a client.                        *)

Receive(c) == toServer[c] # << >> /\ toServer' = [toServer EXCEPT ![c] = Tail(@)]

Reply(c, type, host) ==
  toClient' = [toClient EXCEPT ![c] = Append(@, [type |-> type, host |-> host])]

\* An exhausted pool stays silent.
HandleDiscover(c) ==
  /\ Receive(c) /\ Head(toServer[c]).type = "DISCOVER"
  /\ IF Offer(c) # NoAddress THEN Reply(c, "OFFER", Offer(c)) ELSE UNCHANGED toClient
  /\ UNCHANGED <<first, last, leases, asked, sought, held>>

HandleRequest(c) ==
  LET wanted == Head(toServer[c]).wanted IN
  /\ Receive(c) /\ Head(toServer[c]).type = "REQUEST"
  /\ IF CanCommit(c, wanted)
     THEN leases' = Committed(c, wanted) /\ Reply(c, "ACK", CommitHost(c, wanted))
     ELSE UNCHANGED leases /\ Reply(c, "NAK", NoAddress)
  /\ UNCHANGED <<first, last, asked, sought, held>>

HandleRelease(c) ==
  /\ Receive(c) /\ Head(toServer[c]).type = "RELEASE"
  /\ leases' = Released(c)
  /\ UNCHANGED <<first, last, toClient, asked, sought, held>>

-----------------------------------------------------------------------------
(* The clients and the network.  A client tells its exchanges apart by     *)
(* their transaction identifier, which the server echoes: here, it starts  *)
(* one only when nothing of the last is under way.                         *)

InFlight(c) == Len(toServer[c]) + Len(toClient[c])

AllInFlight == Cardinality({m \in Clients \X (1 .. MaxSent) : m[2] <= InFlight(m[1])})

Send(c, message) ==
  /\ AllInFlight < MaxSent
  /\ toServer' = [toServer EXCEPT ![c] = Append(@, message)]
  /\ UNCHANGED <<first, last, leases, toClient>>

\* Ask for an address, or ask again.
Discover(c) ==
  /\ held[c] = NoAddress
  /\ asked[c] = "offer" \/ InFlight(c) = 0
  /\ Send(c, [type |-> "DISCOVER", wanted |-> NoAddress])
  /\ asked' = [asked EXCEPT ![c] = "offer"]
  /\ sought' = [sought EXCEPT ![c] = NoAddress]
  /\ UNCHANGED held

\* Ask for an address it remembers, or for its own again (no address named);
\* or repeat that.
Request(c) ==
  /\ \/ asked[c] = "nothing" /\ InFlight(c) = 0
     \/ asked[c] = "lease"
  /\ \E wanted \in Hosts :
       /\ IF asked[c] = "lease" THEN wanted = sought[c]
          ELSE IF held[c] = NoAddress THEN wanted # NoAddress
          ELSE wanted \in {NoAddress, held[c]}
       /\ Send(c, [type |-> "REQUEST", wanted |-> wanted])
       /\ sought' = [sought EXCEPT ![c] = wanted]
  /\ asked' = [asked EXCEPT ![c] = "lease"]
  /\ UNCHANGED held

Release(c) ==
  /\ held[c] # NoAddress
  /\ Send(c, [type |-> "RELEASE", wanted |-> NoAddress])
  /\ held' = [held EXCEPT ![c] = NoAddress]
  /\ asked' = [asked EXCEPT ![c] = "nothing"]
  /\ sought' = [sought EXCEPT ![c] = NoAddress]

\* A reply that arrives: an offer is requested, a lease is taken, a refusal
\* gives the address up; one nobody waits for is ignored.
TakeReply(c) ==
  LET reply == Head(toClient[c]) IN
  /\ toClient[c] # << >>
  /\ toClient' = [toClient EXCEPT ![c] = Tail(@)]
  /\ \/ /\ asked[c] = "offer" /\ reply.type = "OFFER"
        /\ toServer' = [toServer EXCEPT ![c] = Append(@, [type |-> "REQUEST", wanted |-> reply.host])]
        /\ asked' = [asked EXCEPT ![c] = "lease"]
        /\ sought' = [sought EXCEPT ![c] = reply.host]
        /\ UNCHANGED held
     \/ /\ asked[c] = "lease" /\ reply.type \in {"ACK", "NAK"}
        /\ held' = [held EXCEPT ![c] = reply.host]
        /\ asked' = [asked EXCEPT ![c] = "nothing"]
        /\ sought' = [sought EXCEPT ![c] = IF reply.type = "NAK" THEN NoAddress ELSE @]
        /\ UNCHANGED toServer
     \/ /\ <<asked[c], reply.type>> \notin {<<"offer", "OFFER">>, <<"lease", "ACK">>, <<"lease", "NAK">>}
        /\ UNCHANGED <<toServer, asked, sought, held>>
  /\ UNCHANGED <<first, last, leases>>

\* Datagrams get lost.
LoseRequest(c) ==
  /\ Receive(c)
  /\ UNCHANGED <<first, last, leases, toClient, asked, sought, held>>

LoseReply(c) ==
  /\ toClient[c] # << >>
  /\ toClient' = [toClient EXCEPT ![c] = Tail(@)]
  /\ UNCHANGED <<first, last, leases, toServer, asked, sought, held>>

-----------------------------------------------------------------------------

Server(c) == HandleDiscover(c) \/ HandleRequest(c) \/ HandleRelease(c)

Client(c) ==
  Discover(c) \/ Request(c) \/ Release(c) \/ TakeReply(c) \/ LoseRequest(c) \/ LoseReply(c)

Next == \E c \in Clients : Server(c) \/ Client(c)

Spec == Init /\ [][Next]_vars

-----------------------------------------------------------------------------
(* Properties.                                                             *)

Messages == [type : {"DISCOVER", "REQUEST", "RELEASE"}, wanted : Hosts]
Replies == [type : {"OFFER", "ACK", "NAK"}, host : Hosts]

\* Every variable keeps its type.
TypeOK ==
  /\ first \in Hosts /\ last \in Hosts
  /\ leases \in [TableSlots -> [mac : Clients \cup {Nobody}, host : Hosts]]
  /\ toServer \in [Clients -> Seq(Messages)]
  /\ toClient \in [Clients -> Seq(Replies)]
  /\ asked \in [Clients -> {"nothing", "offer", "lease"}]
  /\ sought \in [Clients -> Hosts] /\ held \in [Clients -> Hosts]

\* No two slots lease one address, no client has two leases, an address without
\* a client cannot be stuck in the table, and every lease is from the pool.
TableConsistent ==
  /\ \A s, t \in TableSlots :
       s # t /\ leases[s].host # NoAddress
         => leases[s].host # leases[t].host /\ leases[s].mac # leases[t].mac
  /\ \A s \in TableSlots :
       IF leases[s].host = NoAddress THEN leases[s] = Empty
       ELSE leases[s].mac \in Clients /\ leases[s].host \in first .. last

\* Two stations never use one address, and the server knows of every address in
\* use, whatever messages are lost and however often stations ask again, leave
\* and return.
AddressesUnique ==
  /\ \A c, d \in Clients : c # d /\ held[c] # NoAddress => held[c] # held[d]
  /\ \A c \in Clients : held[c] # NoAddress =>
       \E s \in TableSlots : leases[s] = [mac |-> c, host |-> held[c]]

\* A station's lease changes only by what that station sent.
LeaseOf(table, mac) == {table[s].host : s \in {t \in TableSlots : table[t].mac = mac}}

LeasesPrivate ==
  [][\A c \in Clients :
       LeaseOf(leases', c) # LeaseOf(leases, c) => toServer'[c] # toServer[c]]_vars

\* There is a slot for a station: its own, or an empty one.
RoomFor(c) == OwnSlots(c) # {} \/ \E s \in TableSlots : leases[s].host = NoAddress

\* An address offered to a station is one that a request would get it, as long as
\* the table has room for the station; with a pool larger than the table it may
\* have none, and nothing else stands in the way.
OfferGranted ==
  \A c \in Clients : Offer(c) # NoAddress => (CanCommit(c, Offer(c)) <=> RoomFor(c))

\* A station that uses an address and asks for it again, by name or not, is given
\* that one, however full the table is and whatever others were leased meanwhile.
RenewalGranted ==
  \A c \in Clients : held[c] # NoAddress =>
    \A wanted \in {held[c], NoAddress} : CanCommit(c, wanted) /\ CommitHost(c, wanted) = held[c]

\* An address is offered only if a request for it would be granted: an
\* exhausted pool says nothing.
OffersHonoured ==
  \A c \in Clients : Offer(c) # NoAddress => CanCommit(c, Offer(c))

\* The server never offers nor leases its own address.
OwnAddressKept ==
  \A c \in Clients : Offer(c) # ServerHost /\ ServerHost \notin LeaseOf(leases, c)

\* A request is granted if it can be: for an address that was offered, and for one
\* that is held.
RequestsGranted == OfferGranted /\ RenewalGranted

\* The table is in order, and the stations agree with it.
LeasesSound == TypeOK /\ TableConsistent /\ AddressesUnique
=============================================================================
