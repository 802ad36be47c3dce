-------------------------------- MODULE Uart --------------------------------
(***************************************************************************)
(* UART0 as bl616-wifi/uart.rs drives it: two rings between the caller and *)
(* an interrupt handler, the masks that call the handler back, opening and *)
(* dropping the port, and the async read and write.                        *)
(*                                                                         *)
(* One hart: a task runs only while no handler does, and the handler is    *)
(* entered between any two steps of a task unless an IrqGuard is held.     *)
(* The peripheral moves at any time.  Bytes are numbered, in the order     *)
(* they arrive and in the order they are written.                          *)
(***************************************************************************)
EXTENDS Integers, Sequences, FiniteSets

CONSTANTS
  Tasks,           \* tasks that open and drop the port
  Users,           \* bound: those of them that also read and write
  None,
  RxRing, TxRing,  \* RX_RING, TX_RING
  Fifo,            \* bytes each FIFO of the peripheral holds
  Threshold,       \* RX_FIFO_THRESHOLD
  MaxIn, MaxOut,   \* bound: bytes that arrive, bytes that are written
  MaxCall          \* bound: bytes one call reads or writes

ASSUME UartAssumption ==
  /\ Users \subseteq Tasks /\ None \notin Tasks
  /\ RxRing \in Nat \ {0} /\ TxRing \in Nat \ {0}
  /\ Fifo \in Nat \ {0} /\ Threshold \in 0 .. Fifo - 1
  /\ MaxIn \in Nat /\ MaxOut \in Nat /\ MaxCall \in Nat

VARIABLES
  OPEN,      \* OPEN
  holders,   \* the tasks that own a Uart
  pc,        \* where each task is
  async,     \* whether the call is one of the async ones
  todo,      \* bytes the call has left to move
  seen,      \* the ring length the call read
  irqOff,    \* an IrqGuard is held by a task
  rx, tx,    \* STATE.rx, STATE.tx
  overruns,  \* STATE.overruns
  rxWaker, txWaker, ready, \* the wakers, and the tasks the executor will poll
  hw,        \* the peripheral
  handler,   \* where on_interrupt is, and the status it read
  arrived, accounted, last, \* bytes off the wire, those read or known lost, the newest read
  accepted, sent            \* bytes try_write took, the newest one on the wire

hidden == <<arrived, accounted, last, accepted, sent>>
wakers == <<rxWaker, txWaker, ready>>
vars == <<OPEN, holders, pc, async, todo, seen, irqOff, rx, tx, overruns,
          wakers, hw, handler, hidden>>

Ring(n) == [buf |-> [i \in 0 .. n - 1 |-> 0], head |-> 0, tail |-> 0, len |-> 0]

Init ==
  /\ OPEN = FALSE /\ holders = {}
  /\ pc = [t \in Tasks |-> "idle"]
  /\ async = [t \in Tasks |-> FALSE]
  /\ todo = [t \in Tasks |-> 0] /\ seen = [t \in Tasks |-> 0]
  /\ irqOff = FALSE
  /\ rx = Ring(RxRing) /\ tx = Ring(TxRing) /\ overruns = 0
  /\ rxWaker = None /\ txWaker = None /\ ready = {}
  /\ hw = [on |-> FALSE, attached |-> FALSE, enabled |-> FALSE, rxMask |-> TRUE,
           txMask |-> TRUE, rto |-> FALSE, rxf |-> << >>, txf |-> << >>]
  /\ handler = [at |-> "out", rto |-> FALSE, tx |-> FALSE]
  /\ arrived = 0 /\ accounted = 0 /\ last = 0 /\ accepted = 0 /\ sent = 0

-----------------------------------------------------------------------------
(* The rings.  A caller reads len, moves its bytes and stores len.         *)

Least(a, b) == IF a < b THEN a ELSE b

\* push of the bytes first, first + 1, ... with the length read before
Pushed(r, n, len, first, k) ==
  [buf  |-> [i \in 0 .. n - 1 |->
               LET j == (i + n - r.head) % n IN IF j < k THEN first + j ELSE r.buf[i]],
   head |-> (r.head + k) % n,
   tail |-> r.tail,
   len  |-> len + k]

\* pop; what was popped is overwritten here, so that reading it again would show
Popped(r, n, len, k) ==
  [buf  |-> [i \in 0 .. n - 1 |-> IF (i + n - r.tail) % n < k THEN 0 ELSE r.buf[i]],
   head |-> r.head,
   tail |-> (r.tail + k) % n,
   len  |-> len - k]

\* what waits in a ring, oldest first
Contents(r, n) == [i \in 1 .. r.len |-> r.buf[(r.tail + i - 1) % n]]

\* A task runs: no handler is in the way.
At(t, label) == pc[t] = label /\ handler.at = "out"

Goto(t, label) == pc' = [pc EXCEPT ![t] = label]

Return(t) ==
  /\ Goto(t, "idle")
  /\ todo' = [todo EXCEPT ![t] = 0] /\ async' = [async EXCEPT ![t] = FALSE]

-----------------------------------------------------------------------------
(* open and drop.                                                          *)

OpenClaim(t) ==
  /\ At(t, "idle") /\ t \notin holders
  /\ ~OPEN
  /\ OPEN' = TRUE
  /\ Goto(t, "start")
  /\ UNCHANGED <<holders, async, todo, seen, irqOff, rx, tx, overruns, wakers,
                 hw, handler, hidden>>

\* no such device, a zero baud rate, or no GPIO to route
OpenFails(t) ==
  /\ At(t, "start")
  /\ OPEN' = FALSE
  /\ Goto(t, "idle")
  /\ UNCHANGED <<holders, async, todo, seen, irqOff, rx, tx, overruns, wakers,
                 hw, handler, hidden>>

\* bflb_uart_init; what it leaves masked is the SDK's choice
OpenStart(t) ==
  /\ At(t, "start")
  /\ \E rxm, txm \in BOOLEAN :
       hw' = [hw EXCEPT !.on = TRUE, !.rxMask = rxm, !.txMask = txm,
                        !.rto = FALSE, !.rxf = << >>, !.txf = << >>]
  /\ Goto(t, "clear")
  /\ UNCHANGED <<OPEN, holders, async, todo, seen, irqOff, rx, tx, overruns,
                 wakers, handler, hidden>>

OpenClear(t) ==
  /\ At(t, "clear")
  /\ rx' = Ring(RxRing) /\ tx' = Ring(TxRing) /\ overruns' = 0
  /\ accounted' = arrived - Len(hw.rxf) /\ sent' = accepted
  /\ Goto(t, "mask")
  /\ UNCHANGED <<OPEN, holders, async, todo, seen, irqOff, wakers, hw, handler,
                 arrived, last, accepted>>

OpenMask(t) ==
  /\ At(t, "mask")
  /\ hw' = [hw EXCEPT !.txMask = TRUE, !.rxMask = FALSE]
  /\ Goto(t, "attach")
  /\ UNCHANGED <<OPEN, holders, async, todo, seen, irqOff, rx, tx, overruns,
                 wakers, handler, hidden>>

OpenAttach(t) ==
  /\ At(t, "attach")
  /\ hw' = [hw EXCEPT !.attached = TRUE]
  /\ Goto(t, "enable")
  /\ UNCHANGED <<OPEN, holders, async, todo, seen, irqOff, rx, tx, overruns,
                 wakers, handler, hidden>>

OpenEnable(t) ==
  /\ At(t, "enable")
  /\ hw' = [hw EXCEPT !.enabled = TRUE]
  /\ holders' = holders \union {t}
  /\ Goto(t, "idle")
  /\ UNCHANGED <<OPEN, async, todo, seen, irqOff, rx, tx, overruns, wakers,
                 handler, hidden>>

DropMask(t) ==
  /\ At(t, "idle") /\ t \in holders
  /\ hw' = [hw EXCEPT !.rxMask = TRUE, !.txMask = TRUE]
  /\ holders' = holders \ {t}
  /\ Goto(t, "disable")
  /\ UNCHANGED <<OPEN, async, todo, seen, irqOff, rx, tx, overruns, wakers,
                 handler, hidden>>

DropDisable(t) ==
  /\ At(t, "disable")
  /\ hw' = [hw EXCEPT !.enabled = FALSE]
  /\ Goto(t, "detach")
  /\ UNCHANGED <<OPEN, holders, async, todo, seen, irqOff, rx, tx, overruns,
                 wakers, handler, hidden>>

\* Mutant: the port is given up before the peripheral is switched off.
DropDetachOpens(t) ==
  /\ At(t, "detach")
  /\ hw' = [hw EXCEPT !.attached = FALSE]
  /\ OPEN' = FALSE
  /\ Goto(t, "deinit")
  /\ UNCHANGED <<holders, async, todo, seen, irqOff, rx, tx, overruns, wakers,
                 handler, hidden>>

DropDetach(t) ==
  /\ At(t, "detach")
  /\ hw' = [hw EXCEPT !.attached = FALSE]
  /\ Goto(t, "deinit")
  /\ UNCHANGED <<OPEN, holders, async, todo, seen, irqOff, rx, tx, overruns,
                 wakers, handler, hidden>>

DropDeinit(t) ==
  /\ At(t, "deinit")
  /\ hw' = [hw EXCEPT !.on = FALSE]
  /\ Goto(t, "close")
  /\ UNCHANGED <<OPEN, holders, async, todo, seen, irqOff, rx, tx, overruns,
                 wakers, handler, hidden>>

DropClose(t) ==
  /\ At(t, "close")
  /\ OPEN' = FALSE
  /\ Goto(t, "idle")
  /\ UNCHANGED <<holders, async, todo, seen, irqOff, rx, tx, overruns, wakers,
                 hw, handler, hidden>>

-----------------------------------------------------------------------------
(* try_read and read, try_write and write.  A poll of an async call first  *)
(* registers its waker, then makes the try_ call.                          *)

ReadCall(t) ==
  /\ At(t, "idle") /\ t \in holders \intersect Users
  /\ \E a \in BOOLEAN, k \in 1 .. MaxCall :
       /\ async' = [async EXCEPT ![t] = a]
       /\ todo' = [todo EXCEPT ![t] = k]
       /\ Goto(t, IF a THEN "rpoll" ELSE "rlock")
  /\ UNCHANGED <<OPEN, holders, seen, irqOff, rx, tx, overruns, wakers, hw,
                 handler, hidden>>

ReadRegister(t) ==
  /\ \/ At(t, "rpoll")
     \/ At(t, "rsleep") /\ t \in ready
  /\ rxWaker' = t /\ ready' = ready \ {t}
  /\ Goto(t, "rlock")
  /\ UNCHANGED <<OPEN, holders, async, todo, seen, irqOff, rx, tx, overruns,
                 txWaker, hw, handler, hidden>>

\* Mutant: the guard leaves interrupts on.
ReadUnguarded(t) ==
  /\ At(t, "rlock")
  /\ irqOff' = FALSE
  /\ seen' = [seen EXCEPT ![t] = rx.len]
  /\ Goto(t, "pop")
  /\ UNCHANGED <<OPEN, holders, async, todo, rx, tx, overruns, wakers, hw,
                 handler, hidden>>

ReadLock(t) ==
  /\ At(t, "rlock")
  /\ irqOff' = TRUE
  /\ seen' = [seen EXCEPT ![t] = rx.len]
  /\ Goto(t, "pop")
  /\ UNCHANGED <<OPEN, holders, async, todo, rx, tx, overruns, wakers, hw,
                 handler, hidden>>

\* Mutant: the waker is taken back once the ring was found empty.
ReadForgets(t) ==
  LET k == Least(todo[t], seen[t]) IN
  /\ At(t, "pop")
  /\ rx' = Popped(rx, RxRing, seen[t], k)
  /\ accounted' = accounted + k
  /\ last' = IF k > 0 THEN rx.buf[(rx.tail + k - 1) % RxRing] ELSE last
  /\ irqOff' = FALSE /\ seen' = [seen EXCEPT ![t] = 0]
  /\ rxWaker' = IF k = 0 THEN None ELSE rxWaker
  /\ IF k = 0 /\ async[t] THEN Goto(t, "rsleep") /\ UNCHANGED <<async, todo>> ELSE Return(t)
  /\ UNCHANGED <<OPEN, holders, tx, overruns, txWaker, ready,
                 hw, handler, arrived, accepted, sent>>

ReadPop(t) ==
  LET k == Least(todo[t], seen[t]) IN
  /\ At(t, "pop")
  /\ rx' = Popped(rx, RxRing, seen[t], k)
  /\ accounted' = accounted + k
  /\ last' = IF k > 0 THEN rx.buf[(rx.tail + k - 1) % RxRing] ELSE last
  /\ irqOff' = FALSE /\ seen' = [seen EXCEPT ![t] = 0]
  /\ IF k = 0 /\ async[t] THEN Goto(t, "rsleep") /\ UNCHANGED <<async, todo>> ELSE Return(t)
  /\ UNCHANGED <<OPEN, holders, tx, overruns, wakers, hw,
                 handler, arrived, accepted, sent>>

WriteCall(t) ==
  /\ At(t, "idle") /\ t \in holders \intersect Users
  /\ \E a \in BOOLEAN, k \in 1 .. Least(MaxCall, MaxOut - accepted) :
       /\ async' = [async EXCEPT ![t] = a]
       /\ todo' = [todo EXCEPT ![t] = k]
       /\ Goto(t, IF a THEN "wpoll" ELSE "wlock")
  /\ UNCHANGED <<OPEN, holders, seen, irqOff, rx, tx, overruns, wakers, hw,
                 handler, hidden>>

WriteRegister(t) ==
  /\ \/ At(t, "wpoll")
     \/ At(t, "wsleep") /\ t \in ready
  /\ txWaker' = t /\ ready' = ready \ {t}
  /\ Goto(t, "wlock")
  /\ UNCHANGED <<OPEN, holders, async, todo, seen, irqOff, rx, tx, overruns,
                 rxWaker, hw, handler, hidden>>

\* Mutant: the guard leaves interrupts on.
WriteUnguarded(t) ==
  /\ At(t, "wlock")
  /\ irqOff' = FALSE
  /\ seen' = [seen EXCEPT ![t] = tx.len]
  /\ Goto(t, "push")
  /\ UNCHANGED <<OPEN, holders, async, todo, rx, tx, overruns, wakers, hw,
                 handler, hidden>>

WriteLock(t) ==
  /\ At(t, "wlock")
  /\ irqOff' = TRUE
  /\ seen' = [seen EXCEPT ![t] = tx.len]
  /\ Goto(t, "push")
  /\ UNCHANGED <<OPEN, holders, async, todo, rx, tx, overruns, wakers, hw,
                 handler, hidden>>

WritePush(t) ==
  LET k == Least(todo[t], TxRing - seen[t]) IN
  /\ At(t, "push")
  /\ tx' = Pushed(tx, TxRing, seen[t], accepted + 1, k)
  /\ accepted' = accepted + k
  /\ todo' = [todo EXCEPT ![t] = @ - k]
  /\ seen' = [seen EXCEPT ![t] = k]
  /\ Goto(t, "unmask")
  /\ UNCHANGED <<OPEN, holders, async, irqOff, rx, overruns, wakers, hw, handler,
                 arrived, accounted, last, sent>>

\* Mutant: the handler is called back only for the first byte of an empty ring.
WriteUnmaskWhenFull(t) ==
  /\ At(t, "unmask")
  /\ hw' = [hw EXCEPT !.txMask = @ /\ tx.len < TxRing]
  /\ irqOff' = FALSE /\ seen' = [seen EXCEPT ![t] = 0]
  /\ IF async[t] /\ todo[t] > 0
     THEN Goto(t, IF seen[t] > 0 THEN "wpoll" ELSE "wsleep") /\ UNCHANGED <<async, todo>>
     ELSE Return(t)
  /\ UNCHANGED <<OPEN, holders, rx, tx, overruns, wakers,
                 handler, hidden>>

WriteUnmask(t) ==
  /\ At(t, "unmask")
  /\ hw' = [hw EXCEPT !.txMask = @ /\ seen[t] = 0]
  /\ irqOff' = FALSE /\ seen' = [seen EXCEPT ![t] = 0]
  /\ IF async[t] /\ todo[t] > 0
     THEN Goto(t, IF seen[t] > 0 THEN "wpoll" ELSE "wsleep") /\ UNCHANGED <<async, todo>>
     ELSE Return(t)
  /\ UNCHANGED <<OPEN, holders, rx, tx, overruns, wakers,
                 handler, hidden>>

\* the future of a call that waits is dropped
Cancel(t) ==
  /\ pc[t] \in {"rsleep", "wsleep"} /\ handler.at = "out"
  /\ Return(t)
  /\ UNCHANGED <<OPEN, holders, seen, irqOff, rx, tx, overruns, wakers,
                 hw, handler, hidden>>

Overruns(t) ==
  /\ At(t, "idle") /\ t \in holders /\ overruns > 0
  /\ overruns' = 0
  /\ accounted' = accounted + overruns
  /\ UNCHANGED <<OPEN, holders, pc, async, todo, seen, irqOff, rx, tx, wakers,
                 hw, handler, arrived, last, accepted, sent>>

-----------------------------------------------------------------------------
(* on_interrupt.                                                           *)

RxCondition == hw.rto \/ Len(hw.rxf) > Threshold
TxRoom == Len(hw.txf) < Fifo

\* The status may or may not show a condition that is masked.
Interrupt ==
  /\ handler.at = "out" /\ ~irqOff
  /\ hw.attached /\ hw.enabled
  /\ \/ ~hw.rxMask /\ RxCondition
     \/ ~hw.txMask /\ TxRoom
  /\ \E raw \in BOOLEAN :
       handler' = [at |-> IF RxCondition /\ (raw \/ ~hw.rxMask) THEN "rx" ELSE "tx",
                   rto |-> hw.rto,
                   tx |-> TxRoom /\ (raw \/ ~hw.txMask)]
  /\ UNCHANGED <<OPEN, holders, pc, async, todo, seen, irqOff, rx, tx, overruns,
                 wakers, hw, hidden>>

\* Mutant: a byte with nowhere to go is not counted.
DrainUncounted ==
  /\ handler.at = "rx" /\ hw.rxf # << >>
  /\ hw' = [hw EXCEPT !.rxf = Tail(@)]
  /\ rx' = IF rx.len < RxRing THEN Pushed(rx, RxRing, rx.len, Head(hw.rxf), 1) ELSE rx
  /\ UNCHANGED <<OPEN, holders, pc, async, todo, seen, irqOff, tx, overruns,
                 wakers, handler, hidden>>

Drain ==
  /\ handler.at = "rx" /\ hw.rxf # << >>
  /\ hw' = [hw EXCEPT !.rxf = Tail(@)]
  /\ IF rx.len < RxRing
     THEN rx' = Pushed(rx, RxRing, rx.len, Head(hw.rxf), 1) /\ UNCHANGED overruns
     ELSE overruns' = overruns + 1 /\ UNCHANGED rx
  /\ UNCHANGED <<OPEN, holders, pc, async, todo, seen, irqOff, tx, wakers,
                 handler, hidden>>

\* the FIFO is empty: clear the timeout's latch, wake the reader
Drained ==
  /\ handler.at = "rx" /\ hw.rxf = << >>
  /\ hw' = [hw EXCEPT !.rto = @ /\ ~handler.rto]
  /\ ready' = ready \union ({rxWaker} \ {None})
  /\ rxWaker' = None
  /\ handler' = [handler EXCEPT !.at = "tx"]
  /\ UNCHANGED <<OPEN, holders, pc, async, todo, seen, irqOff, rx, tx, overruns,
                 txWaker, hidden>>

Feed ==
  /\ handler.at = "tx" /\ handler.tx /\ TxRoom /\ tx.len > 0
  /\ tx' = Popped(tx, TxRing, tx.len, 1)
  /\ hw' = [hw EXCEPT !.txf = Append(@, tx.buf[tx.tail])]
  /\ UNCHANGED <<OPEN, holders, pc, async, todo, seen, irqOff, rx, overruns,
                 wakers, handler, hidden>>

\* Mutant: transmit stays unmasked.
FedUnmasked ==
  /\ handler.at = "tx" /\ ~(handler.tx /\ TxRoom /\ tx.len > 0)
  /\ IF handler.tx
     THEN ready' = ready \union ({txWaker} \ {None}) /\ txWaker' = None
     ELSE UNCHANGED <<ready, txWaker>>
  /\ handler' = [at |-> "out", rto |-> FALSE, tx |-> FALSE]
  /\ UNCHANGED <<OPEN, holders, pc, async, todo, seen, irqOff, rx, tx, overruns,
                 rxWaker, hw, hidden>>

\* Mutant: only an empty ring wakes the writer.
FedToTheEnd ==
  /\ handler.at = "tx" /\ ~(handler.tx /\ TxRoom /\ tx.len > 0)
  /\ hw' = [hw EXCEPT !.txMask = @ \/ (handler.tx /\ TxRoom)]
  /\ IF handler.tx
     THEN ready' = ready /\ txWaker' = None
     ELSE UNCHANGED <<ready, txWaker>>
  /\ handler' = [at |-> "out", rto |-> FALSE, tx |-> FALSE]
  /\ UNCHANGED <<OPEN, holders, pc, async, todo, seen, irqOff, rx, tx, overruns,
                 rxWaker, hidden>>

\* The FIFO is full, or the ring is empty and transmit is masked; wake the writer.
Fed ==
  /\ handler.at = "tx" /\ ~(handler.tx /\ TxRoom /\ tx.len > 0)
  /\ hw' = [hw EXCEPT !.txMask = @ \/ (handler.tx /\ TxRoom)]
  /\ IF handler.tx
     THEN ready' = ready \union ({txWaker} \ {None}) /\ txWaker' = None
     ELSE UNCHANGED <<ready, txWaker>>
  /\ handler' = [at |-> "out", rto |-> FALSE, tx |-> FALSE]
  /\ UNCHANGED <<OPEN, holders, pc, async, todo, seen, irqOff, rx, tx, overruns,
                 rxWaker, hidden>>

-----------------------------------------------------------------------------
(* The peripheral.                                                         *)

\* A byte that finds the FIFO full is lost before any software sees it.
Arrive ==
  /\ hw.on /\ arrived < MaxIn
  /\ arrived' = arrived + 1
  /\ IF Len(hw.rxf) < Fifo
     THEN hw' = [hw EXCEPT !.rxf = Append(@, arrived + 1)] /\ UNCHANGED accounted
     ELSE accounted' = accounted + 1 /\ UNCHANGED hw
  /\ UNCHANGED <<OPEN, holders, pc, async, todo, seen, irqOff, rx, tx, overruns,
                 wakers, handler, last, accepted, sent>>

\* The line stays idle longer than a handler runs, so the timeout of a byte
\* is not latched by the handler that is about to clear an older one.
Timeout ==
  /\ hw.on /\ hw.rxf # << >> /\ ~hw.rto /\ handler.at = "out"
  /\ hw' = [hw EXCEPT !.rto = TRUE]
  /\ UNCHANGED <<OPEN, holders, pc, async, todo, seen, irqOff, rx, tx, overruns,
                 wakers, handler, hidden>>

Shift ==
  /\ hw.on /\ hw.txf # << >>
  /\ hw' = [hw EXCEPT !.txf = Tail(@)]
  /\ sent' = Head(hw.txf)
  /\ UNCHANGED <<OPEN, holders, pc, async, todo, seen, irqOff, rx, tx, overruns,
                 wakers, handler, arrived, accounted, last, accepted>>

-----------------------------------------------------------------------------
\* what a task begins of its own accord
Begin(t) == OpenClaim(t) \/ DropMask(t) \/ ReadCall(t) \/ WriteCall(t)
              \/ Cancel(t) \/ Overruns(t)

\* what it then does on its way through a call
Continue(t) ==
  \/ OpenFails(t) \/ OpenStart(t) \/ OpenClear(t) \/ OpenMask(t)
  \/ OpenAttach(t) \/ OpenEnable(t)
  \/ DropDisable(t) \/ DropDetach(t) \/ DropDeinit(t) \/ DropClose(t)
  \/ ReadRegister(t) \/ ReadLock(t) \/ ReadPop(t)
  \/ WriteRegister(t) \/ WriteLock(t) \/ WritePush(t) \/ WriteUnmask(t)

\* With interrupts off nothing preempts the holder of the guard either.
Guarded == {t \in Tasks : pc[t] \in {"pop", "push", "unmask"}}
MayRun(t) == irqOff => t \in Guarded

OnInterrupt == Interrupt \/ Drain \/ Drained \/ Feed \/ Fed

Next ==
  \/ \E t \in Tasks : MayRun(t) /\ (Begin(t) \/ Continue(t))
  \/ OnInterrupt
  \/ Arrive \/ Timeout \/ Shift

\* The scheduler runs a task that is inside a call or woken, the peripheral
\* keeps shifting, and a raised interrupt is taken between two guards at the
\* latest: restoring the enable bit lets it in.
Spec ==
  /\ Init /\ [][Next]_vars
  /\ \A t \in Tasks : WF_vars(MayRun(t) /\ Continue(t))
  /\ SF_vars(OnInterrupt) /\ WF_vars(Timeout) /\ WF_vars(Shift)

-----------------------------------------------------------------------------
RingOK(r, n) ==
  /\ r.head \in 0 .. n - 1 /\ r.tail \in 0 .. n - 1 /\ r.len \in 0 .. n
  /\ (r.tail + r.len) % n = r.head

\* The rings keep head, tail and len in agreement, and every task is at a label
\* the code has.
TypeOK ==
  /\ OPEN \in BOOLEAN /\ holders \subseteq Tasks
  /\ pc \in [Tasks -> {"idle", "start", "clear", "mask", "attach", "enable",
                       "disable", "detach", "deinit", "close", "rpoll", "rlock",
                       "pop", "rsleep", "wpoll", "wlock", "push", "unmask",
                       "wsleep"}]
  /\ RingOK(rx, RxRing) /\ RingOK(tx, TxRing)
  /\ overruns \in Nat
  /\ {rxWaker, txWaker} \subseteq Tasks \union {None} /\ ready \subseteq Tasks
  /\ handler.at \in {"out", "rx", "tx"}
  /\ Len(hw.rxf) <= Fifo /\ Len(hw.txf) <= Fifo

\* Whoever holds a Uart holds a working one, whatever other tasks open and drop:
\* it is the only one, its handler is attached and enabled, receive is unmasked,
\* and once no guard and no handler is in the way, transmit is unmasked if
\* anything waits to be sent (open, Drop, try_write).
PortLive ==
  \A t \in holders :
    /\ OPEN /\ holders = {t}
    /\ hw.on /\ hw.attached /\ hw.enabled /\ ~hw.rxMask
    /\ handler.at = "out" /\ ~irqOff /\ tx.len > 0 => ~hw.txMask

\* While a port is held, every byte that came off the wire is in the FIFO, in
\* the ring, read, or counted lost; and bytes are read in the order they came
\* (on_interrupt, try_read, overruns).
RxAccounted ==
  holders # {} =>
    LET waiting == <<last>> \o Contents(rx, RxRing) \o hw.rxf IN
      /\ arrived = accounted + overruns + rx.len + Len(hw.rxf)
      /\ \A i \in 1 .. Len(waiting) - 1 : waiting[i] < waiting[i + 1]

\* While a port is held, what try_write accepted and has not left yet is exactly
\* what the FIFO and the ring hold, in order.
TxInOrder ==
  holders # {} =>
    hw.txf \o Contents(tx, TxRing) = [i \in 1 .. accepted - sent |-> sent + i]

\* A reader that waits with bytes received is woken: the handler may run between
\* the registration of the waker and the look at the ring (read).
ReaderWakes ==
  \A t \in Users :
    pc[t] = "rsleep" /\ (rx.len > 0 \/ hw.rxf # << >>) ~> pc[t] # "rsleep"

\* A writer that found the ring full is woken once there is room (write).
WriterWakes == \A t \in Users : pc[t] = "wsleep" ~> pc[t] # "wsleep"

\* All that was accepted goes out in the end, unless the port is dropped first
\* (the number of bytes written is bounded, so the writer does end).
BytesLeave ==
  sent < accepted ~> (sent = accepted \/ holders = {})

\* A port with nothing to send does not keep interrupting: the level-triggered
\* condition ends masked (on_interrupt).
StormEnds == holders # {} /\ tx.len = 0 ~> (hw.txMask \/ tx.len > 0)

\* Bytes are kept: none is lost uncounted, repeated or reordered on its way in
\* or out.
BytesKept == TypeOK /\ RxAccounted /\ TxInOrder

\* Whoever waits is woken once it need not wait.
SleepersWake == ReaderWakes /\ WriterWakes

\* What is to be sent is sent, and then the port falls silent.
OutputEnds == BytesLeave /\ StormEnds
=============================================================================
