------------------------------- MODULE TxPool -------------------------------
(***************************************************************************)
(* The transmit buffer pool of bl616-wifi (net_al/txbuf.rs), the chains    *)
(* net_al builds from it, and their way to the MAC and back                *)
(* (net_al/mod.rs, net_al/stack.rs).                                       *)
(*                                                                         *)
(* A client is one frame on its way: whoever holds it at the moment, a     *)
(* task, the MAC or an interrupt handler, runs its next step.  Every       *)
(* access to the shared FREE_MASK is one step, and so is every step along  *)
(* a chain.                                                                *)
(***************************************************************************)
EXTENDS Integers, FiniteSets

CONSTANTS
  Clients,   \* frames in preparation or in flight
  PoolSize,  \* POOL_SIZE
  Null,      \* a null pointer
  Foreign    \* a pointer that is not into the pool

Slots == 0 .. PoolSize - 1

ASSUME PoolAssumption ==
  /\ PoolSize \in Nat \ {0}
  /\ Null \notin Slots /\ Foreign \notin Slots /\ Null # Foreign

VARIABLES
  free,   \* FREE_MASK, as the set of slots whose bit is set
  next,   \* TxBuf.next
  peak,   \* IN_USE_PEAK
  pc,     \* where the client is inside the call it made
  snap,   \* the mask a client's alloc last saw, then the one it installed
  first,  \* the chain the client holds
  second, \* a buffer it allocated to append to it
  cur,    \* cursor of the loops in net_buf_tx_cat, net_buf_tx_info and free
  rest,   \* what free still has to return
  segs    \* segments net_buf_tx_info has described to the MAC

vars == <<free, next, peak, pc, snap, first, second, cur, rest, segs>>

Init ==
  /\ free = Slots
  /\ next = [s \in Slots |-> Null]
  /\ peak = 0
  /\ pc = [c \in Clients |-> "idle"]
  /\ snap = [c \in Clients |-> {}]
  /\ first = [c \in Clients |-> Null]
  /\ second = [c \in Clients |-> Null]
  /\ cur = [c \in Clients |-> Null]
  /\ rest = [c \in Clients |-> Null]
  /\ segs = [c \in Clients |-> 0]

Goto(c, label) == pc' = [pc EXCEPT ![c] = label]

-----------------------------------------------------------------------------
(* alloc: load the mask, then compare-and-swap until a bit is claimed.     *)

\* trailing_zeros of the mask
Lowest(mask) == CHOOSE s \in mask : \A t \in mask : s <= t

AllocLoad(c) ==
  /\ pc[c] = "idle" /\ second[c] = Null
  /\ snap' = [snap EXCEPT ![c] = free]
  /\ Goto(c, "alloc")
  /\ UNCHANGED <<free, next, peak, first, second, cur, rest, segs>>

AllocExhausted(c) ==
  /\ pc[c] = "alloc" /\ snap[c] = {}
  /\ Goto(c, "idle")
  /\ UNCHANGED <<free, next, peak, snap, first, second, cur, rest, segs>>

\* Mutant: the bit is cleared without checking that the mask is still the one
\* that was read.
AllocStore(c) ==
  /\ pc[c] = "alloc" /\ snap[c] # {}
  /\ LET slot == Lowest(snap[c]) IN
       /\ free' = snap[c] \ {slot}
       /\ snap' = [snap EXCEPT ![c] = @ \ {slot}]
       /\ cur' = [cur EXCEPT ![c] = slot]
  /\ Goto(c, "claimed")
  /\ UNCHANGED <<next, peak, first, second, rest, segs>>

AllocClaim(c) ==
  /\ pc[c] = "alloc" /\ snap[c] # {} /\ free = snap[c]
  /\ LET slot == Lowest(snap[c]) IN
       /\ free' = free \ {slot}
       /\ snap' = [snap EXCEPT ![c] = @ \ {slot}]
       /\ cur' = [cur EXCEPT ![c] = slot]
  /\ Goto(c, "claimed")
  /\ UNCHANGED <<next, peak, first, second, rest, segs>>

\* The mask changed (or the weak exchange failed spuriously): retry with the
\* value seen.
AllocRetry(c) ==
  /\ pc[c] = "alloc" /\ snap[c] # {}
  /\ snap' = [snap EXCEPT ![c] = free]
  /\ UNCHANGED <<free, next, peak, pc, first, second, cur, rest, segs>>

\* Mutant: the mask installed already misses the slot, and it is counted again.
AllocPeakTwice(c) ==
  LET inUse == PoolSize - Cardinality(snap[c]) + 1 IN
  /\ pc[c] = "claimed"
  /\ peak' = IF inUse > peak THEN inUse ELSE peak
  /\ snap' = [snap EXCEPT ![c] = {}]
  /\ Goto(c, "reset")
  /\ UNCHANGED <<free, next, first, second, cur, rest, segs>>

\* Mutant: stored, where another allocation may have recorded more.
AllocPeakStore(c) ==
  /\ pc[c] = "claimed"
  /\ peak' = PoolSize - Cardinality(snap[c])
  /\ snap' = [snap EXCEPT ![c] = {}]
  /\ Goto(c, "reset")
  /\ UNCHANGED <<free, next, first, second, cur, rest, segs>>

\* fetch_max on the peak, from the mask this allocation installed.
AllocPeak(c) ==
  LET inUse == PoolSize - Cardinality(snap[c]) IN
  /\ pc[c] = "claimed"
  /\ peak' = IF inUse > peak THEN inUse ELSE peak
  /\ snap' = [snap EXCEPT ![c] = {}]
  /\ Goto(c, "reset")
  /\ UNCHANGED <<free, next, first, second, cur, rest, segs>>

\* The buffer is initialised and returned.
AllocReturn(c) ==
  /\ pc[c] = "reset"
  /\ next' = [next EXCEPT ![cur[c]] = Null]
  /\ IF first[c] = Null
     THEN first' = [first EXCEPT ![c] = cur[c]] /\ UNCHANGED second
     ELSE second' = [second EXCEPT ![c] = cur[c]] /\ UNCHANGED first
  /\ cur' = [cur EXCEPT ![c] = Null]
  /\ Goto(c, "idle")
  /\ UNCHANGED <<free, peak, snap, rest, segs>>

\* net_buf_tx_alloc claims first and looks at the length after: a frame that
\* does not fit gives the buffer straight back.
AllocTooLong(c) ==
  /\ pc[c] = "reset"
  /\ next' = [next EXCEPT ![cur[c]] = Null]
  /\ Goto(c, "free")
  /\ UNCHANGED <<free, peak, snap, first, second, cur, rest, segs>>

-----------------------------------------------------------------------------
(* net_buf_tx_cat: walk to the last segment, link the second buffer.       *)

CatStart(c) ==
  /\ pc[c] = "idle" /\ second[c] # Null
  /\ cur' = [cur EXCEPT ![c] = first[c]]
  /\ Goto(c, "cat")
  /\ UNCHANGED <<free, next, peak, snap, first, second, rest, segs>>

CatWalk(c) ==
  /\ pc[c] = "cat" /\ next[cur[c]] # Null
  /\ cur' = [cur EXCEPT ![c] = next[cur[c]]]
  /\ UNCHANGED <<free, next, peak, pc, snap, first, second, rest, segs>>

\* Mutant: linked to the head of its own chain.
CatLinkBack(c) ==
  /\ pc[c] = "cat" /\ next[cur[c]] = Null
  /\ next' = [next EXCEPT ![cur[c]] = second[c], ![second[c]] = first[c]]
  /\ second' = [second EXCEPT ![c] = Null]
  /\ cur' = [cur EXCEPT ![c] = Null]
  /\ Goto(c, "idle")
  /\ UNCHANGED <<free, peak, snap, first, rest, segs>>

\* Mutant: appended to the first segment, dropping what followed it.
CatLinkFirst(c) ==
  /\ pc[c] = "cat" /\ next[cur[c]] = Null
  /\ next' = [next EXCEPT ![first[c]] = second[c]]
  /\ second' = [second EXCEPT ![c] = Null]
  /\ cur' = [cur EXCEPT ![c] = Null]
  /\ Goto(c, "idle")
  /\ UNCHANGED <<free, peak, snap, first, rest, segs>>

CatLink(c) ==
  /\ pc[c] = "cat" /\ next[cur[c]] = Null
  /\ next' = [next EXCEPT ![cur[c]] = second[c]]
  /\ second' = [second EXCEPT ![c] = Null]
  /\ cur' = [cur EXCEPT ![c] = Null]
  /\ Goto(c, "idle")
  /\ UNCHANGED <<free, peak, snap, first, rest, segs>>

-----------------------------------------------------------------------------
(* The MAC takes a frame, asks what to send, and confirms.                 *)

HasFrame(c) == pc[c] = "idle" /\ first[c] # Null /\ second[c] = Null

\* The MAC has the frame and calls net_buf_tx_info for it.
Accepted(c) ==
  /\ cur' = [cur EXCEPT ![c] = first[c]]
  /\ Goto(c, "info")
  /\ UNCHANGED <<free, next, peak, snap, first, second, rest, segs>>

\* The whole frame goes to free.
GiveBack(c) ==
  /\ cur' = [cur EXCEPT ![c] = first[c]]
  /\ first' = [first EXCEPT ![c] = Null]
  /\ segs' = [segs EXCEPT ![c] = 0]
  /\ Goto(c, "free")
  /\ UNCHANGED <<free, next, peak, snap, second, rest>>

\* net_al_tx_req: a frame for an interface that is not registered is freed
\* here, and its submitter told.
TxReq(c) == HasFrame(c) /\ (Accepted(c) \/ GiveBack(c))

\* WifiTxToken::consume sends a frame of one buffer; one that the firmware
\* refuses is freed.
ConsumeToken(c) == HasFrame(c) /\ next[first[c]] = Null /\ (Accepted(c) \/ GiveBack(c))

\* net_buf_tx_info walks the chain, as far as the caller has room for.
InfoWalk(c) ==
  /\ pc[c] = "info" /\ cur[c] # Null /\ segs[c] < PoolSize
  /\ segs' = [segs EXCEPT ![c] = @ + 1]
  /\ cur' = [cur EXCEPT ![c] = next[cur[c]]]
  /\ UNCHANGED <<free, next, peak, pc, snap, first, second, rest>>

\* Mutant: what fits is sent, the rest of the frame left off.
InfoTruncated(c) ==
  /\ pc[c] = "info" /\ cur[c] # Null /\ segs[c] > 0
  /\ cur' = [cur EXCEPT ![c] = Null]
  /\ Goto(c, "told")
  /\ UNCHANGED <<free, next, peak, snap, first, second, rest, segs>>

\* Segments are left and there is no room for them: refused, and the MAC drops
\* the frame.
InfoRefuse(c) ==
  /\ pc[c] = "info" /\ cur[c] # Null /\ segs[c] > 0
  /\ GiveBack(c)

InfoTold(c) ==
  /\ pc[c] = "info" /\ cur[c] = Null
  /\ Goto(c, "told")
  /\ UNCHANGED <<free, next, peak, snap, first, second, cur, rest, segs>>

\* The confirmation: the buffers go back, from whatever context it comes in.
Confirm(c) == pc[c] = "told" /\ GiveBack(c)

-----------------------------------------------------------------------------
(* free: return the chain, one segment at a time.                          *)

\* net_buf_tx_free: the holder gives up its frame, or passes a pointer that
\* never was one.
FreeFrame(c) == HasFrame(c) /\ GiveBack(c)

FreeForeign(c) ==
  /\ pc[c] = "idle" /\ second[c] = Null
  /\ cur' = [cur EXCEPT ![c] = Foreign]
  /\ Goto(c, "free")
  /\ UNCHANGED <<free, next, peak, snap, first, second, rest, segs>>

\* A pointer that is not a slot of the pool ends the loop.
FreeReject(c) ==
  /\ pc[c] = "free" /\ cur[c] \notin Slots
  /\ cur' = [cur EXCEPT ![c] = Null]
  /\ Goto(c, "idle")
  /\ UNCHANGED <<free, next, peak, snap, first, second, rest, segs>>

\* next is read and cleared while the slot is still ours.
FreeDetach(c) ==
  /\ pc[c] = "free" /\ cur[c] \in Slots
  /\ rest' = [rest EXCEPT ![c] = next[cur[c]]]
  /\ next' = [next EXCEPT ![cur[c]] = Null]
  /\ Goto(c, "release")
  /\ UNCHANGED <<free, peak, snap, first, second, cur, segs>>

\* fetch_or makes the slot allocatable; the loop moves on.
FreeRelease(c) ==
  /\ pc[c] = "release"
  /\ free' = free \cup {cur[c]}
  /\ cur' = [cur EXCEPT ![c] = rest[c]]
  /\ rest' = [rest EXCEPT ![c] = Null]
  /\ Goto(c, "free")
  /\ UNCHANGED <<next, peak, snap, first, second, segs>>

-----------------------------------------------------------------------------

ClientStep(c) ==
  \/ AllocLoad(c) \/ AllocExhausted(c) \/ AllocClaim(c) \/ AllocRetry(c)
  \/ AllocPeak(c) \/ AllocReturn(c) \/ AllocTooLong(c)
  \/ CatStart(c) \/ CatWalk(c) \/ CatLink(c)
  \/ TxReq(c) \/ ConsumeToken(c) \/ InfoWalk(c) \/ InfoRefuse(c)
  \/ InfoTold(c) \/ Confirm(c)
  \/ FreeFrame(c) \/ FreeForeign(c) \/ FreeReject(c) \/ FreeDetach(c) \/ FreeRelease(c)

Next == \E c \in Clients : ClientStep(c)

Spec == Init /\ [][Next]_vars

\* A context that is inside net_buf_tx_cat, net_buf_tx_info or free runs on:
\* none of them waits for anything.  Nothing is assumed of alloc, nor that a
\* frame is ever sent, confirmed or freed.
FairSpec ==
  /\ Spec
  /\ \A c \in Clients :
       /\ WF_vars(CatWalk(c) \/ CatLink(c))
       /\ WF_vars(InfoWalk(c) \/ InfoRefuse(c) \/ InfoTold(c))
       /\ WF_vars(FreeReject(c) \/ FreeDetach(c) \/ FreeRelease(c))

-----------------------------------------------------------------------------
(* Properties.                                                             *)

Walking == {"cat", "info", "free", "release"}

Labels == {"idle", "alloc", "claimed", "reset", "told"} \cup Walking

Pointers == Slots \cup {Null, Foreign}

\* Every variable keeps its type.
TypeOK ==
  /\ free \in SUBSET Slots
  /\ next \in [Slots -> Slots \cup {Null}]
  /\ peak \in 0 .. PoolSize
  /\ pc \in [Clients -> Labels]
  /\ snap \in [Clients -> SUBSET Slots]
  /\ first \in [Clients -> Slots \cup {Null}]
  /\ second \in [Clients -> Slots \cup {Null}]
  /\ cur \in [Clients -> Pointers]
  /\ rest \in [Clients -> Slots \cup {Null}]
  /\ segs \in [Clients -> 0 .. PoolSize]

\* The slots a client has a pointer to, other than as a cursor over its own
\* chain.
Roots(c) ==
  {first[c], second[c], rest[c]}
    \cup (IF pc[c] \in {"claimed", "reset", "free", "release"} THEN {cur[c]} ELSE {})

\* Everything reachable from a client's pointers along next, the least set
\* that holds them and is closed: the buffers the client may touch.
ClosedUnderNext(S) == \A s \in S : next[s] \in S \cup {Null}

Held(c) ==
  {s \in Slots : \A S \in SUBSET Slots :
     Roots(c) \cap Slots \subseteq S /\ ClosedUnderNext(S) => s \in S}

\* No buffer belongs to two frames, and none that a frame can still reach is
\* free for another to claim, whatever tasks and interrupts interleave in
\* alloc and free.
Exclusive ==
  /\ \A c, d \in Clients : c # d => Held(c) \cap Held(d) = {}
  /\ \A c \in Clients : Held(c) \cap free = {}

\* Every buffer is free or reachable from the frame that holds it: chains,
\* partial frees and lost races leak nothing.
NoLeak == free \cup UNION {Held(c) : c \in Clients} = Slots

\* The peak is never below what is really in use once every allocation has
\* recorded its own (stats reports it as the high-water mark).
PeakCounts ==
  (\A c \in Clients : pc[c] # "claimed") => peak >= PoolSize - Cardinality(free)

\* A chain has an end: appending to, describing and freeing one return, whatever the
\* other contexts do to the pool meanwhile.  (A ring of buffers would have
\* net_buf_tx_cat walk for ever with the caller's task stuck in it.)
WalksEnd ==
  \A c \in Clients :
    pc[c] \in Walking ~> pc[c] \notin Walking

\* What the MAC is told to send is the whole frame: every segment chained to
\* it, by however many calls, and none left off because the MAC's table of
\* segments is shorter.
WholeFrame == \A c \in Clients : pc[c] = "told" => segs[c] = Cardinality(Held(c))

\* The pool's books are in order: no buffer is lost, and the counters stats
\* reports are those of what is in use.
Accounted == TypeOK /\ NoLeak /\ PeakCounts
=============================================================================
