------------------------------- MODULE RxRing -------------------------------
(* The receive path of bl616-wifi: net_al_input (net_al/mod.rs) sorts each *)
(* frame the MAC hands over and rx_push copies it into a ring that rx_pop  *)
(* empties (net_al/iface.rs).                                              *)
(*                                                                         *)
(* One producer, the blob's receive context, and one consumer, the task    *)
(* that runs the IP stack.  They share no lock: each index is written by   *)
(* one side and read by the other, and a frame's bytes are copied in       *)
(* several steps (here two halves), during which the other side runs.      *)
(* Indices are usize and wrap at Width.                                    *)
EXTENDS Integers, Sequences

CONSTANTS
  Ring,      \* RX_RING
  Width,     \* usize counts modulo this
  MaxInput,  \* bound: frames the MAC delivers
  Ifaces,    \* registered interfaces
  Station,   \* the interface in slot 0
  Bogus      \* a handle that validate rejects

ASSUME RingAssumption ==
  /\ Ring \in Nat \ {0} /\ Width \in Nat /\ Width > Ring
  /\ MaxInput \in Nat
  /\ Station \in Ifaces /\ Bogus \notin Ifaces

\* What net_al_input tells apart in a frame: nothing left after the skip, more
\* than a ring slot holds, the station's own address as source, the ethertype
\* the supplicant may have asked for, anything else.
Kinds == {"empty", "oversize", "own", "eapol", "data"}

Serials == 1 .. MaxInput

\* A frame in a slot: the serial number of the frame each half was copied from,
\* and the interface stored with it.  0 is memory never written.
Contents == [lo : 0 .. MaxInput, hi : 0 .. MaxInput, iface : Ifaces \cup {Bogus}]

VARIABLES
  head, tail,  \* RX_HEAD, RX_TAIL
  slots,       \* RX_SLOTS
  ethertype,   \* interfaces with an l2_ethertype registered
  ppc, frame,  \* the producer: where it is, the frame it handles
  cpc, out,    \* the consumer: where it is, its buffer
  serial,      \* frames delivered so far
  pushed,      \* RX_ACCEPTED, as the frames accepted
  dropped,     \* RX_DROPPED, as the frames counted
  eloop,       \* frames committed to the supplicant's event loop
  popped       \* what rx_pop returned, in order

producer == <<head, ppc, frame, serial, pushed, dropped, eloop>>
consumer == <<tail, cpc, out, popped>>
vars == <<producer, consumer, slots, ethertype>>

NoFrame == [serial |-> 0, kind |-> "empty", iface |-> Bogus]
Unwritten == [lo |-> 0, hi |-> 0, iface |-> Bogus]

Init ==
  /\ head = 0 /\ tail = 0
  /\ slots = [s \in 0 .. Ring - 1 |-> Unwritten]
  /\ ethertype = {}
  /\ ppc = "idle" /\ frame = NoFrame
  /\ cpc = "idle" /\ out = Unwritten
  /\ serial = 0 /\ pushed = << >> /\ dropped = {} /\ eloop = << >> /\ popped = << >>

\* Frames between the two indices: head.wrapping_sub(tail).
Pending == (head - tail) % Width

Slot(index) == index % Ring

-----------------------------------------------------------------------------
(* net_al_input and rx_push.                                               *)

\* The MAC hands over a frame.
Receive(iface, kind) ==
  /\ ppc = "idle" /\ serial < MaxInput
  /\ serial' = serial + 1
  /\ frame' = [serial |-> serial + 1, kind |-> kind, iface |-> iface]
  /\ ppc' = "input"
  /\ UNCHANGED <<head, pushed, dropped, eloop, consumer, slots, ethertype>>

LoopedBack == frame.kind = "own" /\ frame.iface = Station

\* A bad handle, an empty frame, or one of ours: dropped without a count.
Discard ==
  /\ ppc = "input"
  /\ frame.iface \notin Ifaces \/ frame.kind = "empty" \/ LoopedBack
  /\ ppc' = "idle" /\ frame' = NoFrame
  /\ UNCHANGED <<head, serial, pushed, dropped, eloop, consumer, slots, ethertype>>

ForSupplicant == frame.kind = "eapol" /\ frame.iface \in ethertype

\* L2 first: the supplicant gets it, the IP stack does not.
CommitL2 ==
  /\ ppc = "input" /\ frame.iface \in Ifaces /\ ForSupplicant
  /\ eloop' = Append(eloop, frame.serial)
  /\ ppc' = "idle" /\ frame' = NoFrame
  /\ UNCHANGED <<head, serial, pushed, dropped, consumer, slots, ethertype>>

\* Everything else goes to rx_push.
ForStack ==
  /\ ppc = "input" /\ frame.iface \in Ifaces
  /\ frame.kind # "empty" /\ ~LoopedBack /\ ~ForSupplicant

\* Too long for a slot, or no slot left.
Full == Pending >= Ring

PushDrop ==
  /\ ForStack
  /\ frame.kind = "oversize" \/ Full
  /\ dropped' = dropped \cup {frame.serial}
  /\ ppc' = "idle" /\ frame' = NoFrame
  /\ UNCHANGED <<head, serial, pushed, eloop, consumer, slots, ethertype>>

\* Mutant: one frame more than the ring holds.
PushClaimPastEnd ==
  /\ ForStack
  /\ frame.kind # "oversize" /\ Pending <= Ring
  /\ ppc' = "copy"
  /\ UNCHANGED <<head, frame, serial, pushed, dropped, eloop, consumer, slots, ethertype>>

PushClaim ==
  /\ ForStack
  /\ frame.kind # "oversize" /\ ~Full
  /\ ppc' = "copy"
  /\ UNCHANGED <<head, frame, serial, pushed, dropped, eloop, consumer, slots, ethertype>>

PushCopy ==
  /\ ppc = "copy"
  /\ slots' = [slots EXCEPT ![Slot(head)].lo = frame.serial]
  /\ ppc' = "copied"
  /\ UNCHANGED <<head, frame, serial, pushed, dropped, eloop, consumer, ethertype>>

PushFill ==
  /\ ppc = "copied"
  /\ slots' = [slots EXCEPT ![Slot(head)].hi = frame.serial, ![Slot(head)].iface = frame.iface]
  /\ ppc' = "publish"
  /\ UNCHANGED <<head, frame, serial, pushed, dropped, eloop, consumer, ethertype>>

\* Mutant: an index that does not wrap.
PushPublishNoWrap ==
  /\ ppc = "publish"
  /\ head' = head + 1
  /\ pushed' = Append(pushed, frame.serial)
  /\ ppc' = "idle" /\ frame' = NoFrame
  /\ UNCHANGED <<serial, dropped, eloop, consumer, slots, ethertype>>

PushPublish ==
  /\ ppc = "publish"
  /\ head' = (head + 1) % Width
  /\ pushed' = Append(pushed, frame.serial)
  /\ ppc' = "idle" /\ frame' = NoFrame
  /\ UNCHANGED <<serial, dropped, eloop, consumer, slots, ethertype>>

-----------------------------------------------------------------------------
(* rx_pop.  An empty ring returns None and changes nothing.                *)

PopClaim ==
  /\ cpc = "idle" /\ tail # head
  /\ cpc' = "copy"
  /\ UNCHANGED <<producer, tail, out, popped, slots, ethertype>>

PopCopy ==
  /\ cpc = "copy"
  /\ out' = [Unwritten EXCEPT !.lo = slots[Slot(tail)].lo]
  /\ cpc' = "copied"
  /\ UNCHANGED <<producer, tail, popped, slots, ethertype>>

\* Mutant: the slot is given back before its second half is read.
PopFinishLate ==
  /\ cpc = "copied"
  /\ out' = [out EXCEPT !.hi = slots[Slot(tail)].hi, !.iface = slots[Slot(tail)].iface]
  /\ cpc' = "release"
  /\ tail' = (tail + 1) % Width
  /\ UNCHANGED <<producer, popped, slots, ethertype>>

PopFinish ==
  /\ cpc = "copied"
  /\ out' = [out EXCEPT !.hi = slots[Slot(tail)].hi, !.iface = slots[Slot(tail)].iface]
  /\ cpc' = "release"
  /\ UNCHANGED <<producer, tail, popped, slots, ethertype>>

PopRelease ==
  /\ cpc = "release"
  /\ tail' = (tail + 1) % Width
  /\ popped' = Append(popped, out)
  /\ cpc' = "idle"
  /\ UNCHANGED <<producer, out, slots, ethertype>>

-----------------------------------------------------------------------------
(* net_l2_socket_create and net_l2_socket_delete, from the supplicant.     *)

L2SocketCreate(i) ==
  /\ ethertype' = ethertype \cup {i}
  /\ UNCHANGED <<producer, consumer, slots>>

L2SocketDelete(i) ==
  /\ ethertype' = ethertype \ {i}
  /\ UNCHANGED <<producer, consumer, slots>>

-----------------------------------------------------------------------------

Producer ==
  \/ \E i \in Ifaces \cup {Bogus}, k \in Kinds : Receive(i, k)
  \/ Discard \/ CommitL2 \/ PushDrop \/ PushClaim \/ PushCopy \/ PushFill \/ PushPublish

Consumer == PopClaim \/ PopCopy \/ PopFinish \/ PopRelease

Next ==
  \/ Producer
  \/ Consumer
  \/ \E i \in Ifaces : L2SocketCreate(i) \/ L2SocketDelete(i)

Spec == Init /\ [][Next]_vars

-----------------------------------------------------------------------------
(* Properties.                                                             *)

\* Every variable keeps its type.
TypeOK ==
  /\ head \in 0 .. Width - 1 /\ tail \in 0 .. Width - 1
  /\ slots \in [0 .. Ring - 1 -> Contents]
  /\ ethertype \subseteq Ifaces
  /\ ppc \in {"idle", "input", "copy", "copied", "publish"}
  /\ cpc \in {"idle", "copy", "copied", "release"}
  /\ frame \in [serial : 0 .. MaxInput, kind : Kinds, iface : Ifaces \cup {Bogus}]
  /\ out \in Contents
  /\ serial \in 0 .. MaxInput
  /\ pushed \in Seq(Serials) /\ eloop \in Seq(Serials) /\ dropped \subseteq Serials
  /\ popped \in Seq(Contents)

\* rx_pop returns the frames rx_push accepted, whole, each once and oldest
\* first: no half of another frame, none skipped, none repeated.
OldestFirst ==
  /\ Len(popped) <= Len(pushed)
  /\ \A k \in 1 .. Len(popped) : popped[k].lo = pushed[k] /\ popped[k].hi = pushed[k]

\* The frames waiting in the ring, oldest first.
Queue == [k \in 1 .. Pending |-> slots[Slot((tail + k - 1) % Width)]]

Whole == {c \in Contents : c.lo = c.hi /\ c.lo # 0 /\ c.iface # Bogus}

\* The ring implements a bounded queue of whole frames (RxFifo).
Fifo == INSTANCE RxFifo
  WITH Frames <- Whole, Depth <- Ring, queue <- Queue, taken <- popped

Implements == Fifo!Spec

\* The ring gives back what was put in, its indices at most a ring apart.
RingSound == TypeOK /\ OldestFirst
=============================================================================
