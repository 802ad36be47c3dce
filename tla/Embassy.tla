------------------------------ MODULE Embassy -------------------------------
(***************************************************************************)
(* The embassy front end of bl616-wifi: the executor embassy_rt.rs runs on *)
(* a FreeRTOS task, and the driver net_al/embassy.rs gives embassy-net     *)
(* over the receive ring (here as RxFifo, which RxRing implements, with    *)
(* its frames only counted) and the transmit buffers (counted too).        *)
(*                                                                         *)
(* Two embassy tasks run: net, the runner of embassy-net, which polls the  *)
(* driver, and app, which sets a timer and sends.  What they do in a poll  *)
(* is the library's and the application's; how the driver, the wakers, the *)
(* pender and the loop of run() answer is the code's.                      *)
(***************************************************************************)
EXTENDS Integers

CONSTANTS
  Depth,     \* RX_RING
  MaxArrivals, \* bound: frames that arrive
  Buffers,   \* buffers of the transmit pool
  MaxSend,   \* bound: packets app sends
  MaxDelay,  \* bound: longest timer app sets, in ticks
  Backstop,  \* BACKSTOP_MS, in ticks
  MaxHeld,   \* bound: ticks that pass between run()'s clock read and its wait
  Never      \* no timer is set

ASSUME EmbassyAssumption ==
  /\ Depth \in Nat \ {0} /\ MaxArrivals \in Nat
  /\ Buffers \in Nat \ {0} /\ MaxSend \in Nat /\ MaxDelay \in Nat
  /\ Backstop \in Nat \ {0} /\ MaxHeld \in Nat /\ Never \notin Nat

Tasks == {"net", "app"}

VARIABLES
  PENDING,   \* PENDING
  notified,  \* a notification of the executor's task is pending
  xpc,       \* where run() and the poll it makes are
  runq,      \* tasks enqueued
  batch,     \* tasks this poll dequeued and has not polled yet
  left,      \* ticks the executor still sleeps, or is about to
  timer,     \* ticks until app's timer is due (0: due or overdue), or Never
  held,      \* ticks between run()'s last clock read and the wait it led to
  rxWaker, txWaker, \* whether net is registered in RX_WAKER, in TX_WAKER
  rx, input, \* frames waiting in the ring; frames that arrived
  owed,      \* rx_push has published a frame and not yet called RX_WAKER.wake
  free, flying, \* transmit buffers in the pool, with the MAC
  outbox, sends, \* packets waiting in the stack; packets app has sent
  back,      \* where the poll goes on after a token is consumed
  quiet      \* the pender last ran where it may not notify

clock == <<left, timer, held>>
executor == <<PENDING, notified, xpc, runq, batch, clock, quiet>>
wake == <<PENDING, notified, runq, quiet>>
driver == <<rxWaker, txWaker, free, flying, outbox, sends, back>>
ring == <<rx, input>>
embassyVars == <<executor, driver, owed, ring>>

EmbassyInit ==
  /\ rx = 0 /\ input = 0
  /\ PENDING = FALSE /\ notified = FALSE /\ xpc = "off"
  /\ runq = {} /\ batch = {} /\ left = 0 /\ timer = Never /\ held = 0
  /\ rxWaker = FALSE /\ txWaker = FALSE /\ owed = FALSE
  /\ free = Buffers /\ flying = 0 /\ outbox = 0 /\ sends = 0
  /\ back = "receive" /\ quiet = FALSE

-----------------------------------------------------------------------------
(* Waking: enqueue the task, and call the pender if the queue was empty.   *)

Contexts == {"interrupt", "task", "critical"}

\* The flag always; a notification unless interrupts are masked or there is no
\* executor yet.
Pend(context) ==
  /\ PENDING' = TRUE
  /\ notified' = (notified \/ (xpc # "off" /\ context # "critical"))
  /\ quiet' = (context = "critical")

Wake(t, context) ==
  IF t \in runq \union batch THEN UNCHANGED wake
  ELSE /\ runq' = runq \union {t}
       /\ IF runq = {} THEN Pend(context) ELSE UNCHANGED <<PENDING, notified, quiet>>

\* rx_push wakes RX_WAKER, which may or may not stay registered, and may run
\* its waker inside a critical section of its own.
WakeRx ==
  /\ owed /\ owed' = FALSE
  /\ \E context \in {"task", "critical"} :
       IF rxWaker THEN Wake("net", context) ELSE UNCHANGED wake
  /\ rxWaker' \in {rxWaker, FALSE}
  /\ UNCHANGED <<xpc, batch, clock, txWaker, free, flying, outbox, sends,
                 back, ring>>

\* The MAC is done with a buffer: txbuf::free, which wakes TX_WAKER.
Confirmed ==
  /\ flying > 0
  /\ flying' = flying - 1 /\ free' = free + 1
  /\ \E context \in Contexts :
       IF txWaker THEN Wake("net", context) ELSE UNCHANGED wake
  /\ txWaker' \in {txWaker, FALSE}
  /\ UNCHANGED <<xpc, batch, clock, rxWaker, owed, outbox, sends, back, ring>>

-----------------------------------------------------------------------------
(* run().                                                                  *)

GoTo(label) == xpc' = label

\* The task is claimed as the executor's; init spawns both tasks.
Run ==
  /\ xpc = "off"
  /\ GoTo("top")
  /\ runq' = Tasks
  /\ PENDING' = TRUE /\ notified' = TRUE
  /\ UNCHANGED <<batch, clock, quiet, driver, owed, ring>>

Clear ==
  /\ xpc = "top"
  /\ PENDING' = FALSE
  /\ GoTo("dequeue")
  /\ UNCHANGED <<notified, runq, batch, clock, quiet, driver, owed, ring>>

Dequeue ==
  /\ xpc = "dequeue"
  /\ batch' = runq /\ runq' = {}
  /\ GoTo("poll")
  /\ UNCHANGED <<PENDING, notified, clock, quiet, driver, owed, ring>>

Least(a, b) == IF a < b THEN a ELSE b

\* Mutant: the wait looks at the backstop alone.
ExpireBackstop ==
  /\ xpc = "poll" /\ batch = {}
  /\ GoTo("check")
  /\ IF timer = 0
     THEN timer' = Never /\ Wake("app", "critical")
     ELSE UNCHANGED <<timer, wake>>
  /\ left' = Backstop /\ held' = 0
  /\ UNCHANGED <<batch, driver, owed, ring>>

\* The clock is read; next_expiration dispatches a due timer and says when the
\* next one is due; the wait for it is clamped to 1 .. Backstop.
Expire ==
  /\ xpc = "poll" /\ batch = {}
  /\ GoTo("check")
  /\ IF timer = 0
     THEN timer' = Never /\ Wake("app", "critical")
     ELSE UNCHANGED <<timer, wake>>
  /\ left' = IF timer' = Never THEN Backstop ELSE Least(timer', Backstop)
  /\ held' = 0
  /\ UNCHANGED <<batch, driver, owed, ring>>

Check ==
  /\ xpc = "check"
  /\ GoTo(IF PENDING THEN "top" ELSE "wait")
  /\ UNCHANGED <<wake, batch, clock, driver, owed, ring>>

\* Mutant: a notification that came after the check is forgotten.
WaitForgets ==
  /\ xpc = "wait"
  /\ notified' = FALSE /\ GoTo("asleep")
  /\ UNCHANGED <<PENDING, runq, quiet, batch, clock, driver, owed, ring>>

\* A notification that came after the check ends the wait at once.
Wait ==
  /\ xpc = "wait"
  /\ notified' = FALSE
  /\ GoTo(IF notified THEN "top" ELSE "asleep")
  /\ UNCHANGED <<PENDING, runq, quiet, batch, clock, driver, owed, ring>>

\* Mutant: the wait has no bound.
WakeUpNotified ==
  /\ xpc = "asleep" /\ notified
  /\ notified' = FALSE /\ GoTo("top") /\ left' = 0
  /\ UNCHANGED <<PENDING, runq, quiet, batch, timer, held, driver, owed, ring>>

WakeUp ==
  /\ xpc = "asleep" /\ (notified \/ left = 0)
  /\ notified' = FALSE /\ GoTo("top") /\ left' = 0
  /\ UNCHANGED <<PENDING, runq, quiet, batch, timer, held, driver, owed, ring>>

\* Time passes wherever run() is: also after it read the clock, while handlers
\* and the radio's tasks hold it up, and the wait it has computed grows stale.
Tick ==
  /\ xpc # "off"
  /\ timer \notin {Never, 0} \/ xpc \in {"check", "wait", "asleep"}
  /\ xpc \in {"check", "wait"} => held < MaxHeld
  /\ xpc = "asleep" => left > 0
  /\ timer' = IF timer \in {Never, 0} THEN timer ELSE timer - 1
  /\ left' = IF xpc = "asleep" THEN left - 1 ELSE left
  /\ held' = IF xpc \in {"check", "wait"} THEN held + 1 ELSE held
  /\ UNCHANGED <<wake, xpc, batch, driver, owed, ring>>

-----------------------------------------------------------------------------
(* A poll of net: receive until there is nothing, send until there is      *)
(* nothing or no buffer, then ask for the link state.                      *)

PollNet ==
  /\ xpc = "poll" /\ "net" \in batch
  /\ batch' = batch \ {"net"}
  /\ GoTo("receive")
  /\ UNCHANGED <<wake, clock, driver, owed, ring>>

\* Mutant: the ring is looked at first, the waker registered afterwards.
ReceiveUnarmed ==
  /\ xpc = "receive"
  /\ rxWaker' = FALSE
  /\ GoTo("pop")
  /\ UNCHANGED <<wake, batch, clock, txWaker, free, flying, outbox, sends,
                 back, owed, ring>>

ReceiveArm ==
  /\ xpc = "receive"
  /\ rxWaker' = TRUE
  /\ GoTo("pop")
  /\ UNCHANGED <<wake, batch, clock, txWaker, free, flying, outbox, sends,
                 back, owed, ring>>

\* rx_pop; the stack may answer a frame with its transmit token
Receiving ==
  /\ xpc = "pop" /\ rx > 0
  /\ rx' = rx - 1
  /\ xpc' \in {"receive", "consume"} /\ back' = "receive"
  /\ UNCHANGED <<wake, batch, clock, rxWaker, txWaker, free, flying, outbox,
                 sends, owed, input>>

ReceiveNone ==
  /\ xpc = "pop" /\ rx = 0
  /\ GoTo("transmit")
  /\ UNCHANGED <<wake, batch, clock, driver, owed, ring>>

TransmitArm ==
  /\ xpc = "transmit"
  /\ txWaker' = (outbox > 0 \/ txWaker)
  /\ GoTo(IF outbox > 0 THEN "look" ELSE "link")
  /\ UNCHANGED <<wake, batch, clock, rxWaker, free, flying, outbox, sends,
                 back, owed, ring>>

\* free_count: no token, and the packet waits, or a token that is consumed
TransmitLook ==
  /\ xpc = "look"
  /\ IF free = 0 THEN GoTo("link") /\ UNCHANGED <<outbox, back>>
     ELSE GoTo("consume") /\ outbox' = outbox - 1 /\ back' = "transmit"
  /\ UNCHANGED <<wake, batch, clock, rxWaker, txWaker, free, flying, sends,
                 owed, ring>>

\* WifiTxToken::consume: without a buffer the frame is built and dropped
Consume ==
  /\ xpc = "consume"
  /\ IF free = 0 THEN GoTo(back) /\ UNCHANGED free
     ELSE GoTo("submit") /\ free' = free - 1
  /\ UNCHANGED <<wake, batch, clock, rxWaker, txWaker, flying, outbox, sends,
                 back, owed, ring>>

\* Mutant: a frame that was refused keeps its buffer.
SubmitLeaks ==
  /\ xpc = "submit"
  /\ \/ flying' = flying + 1
     \/ flying' = flying
  /\ GoTo(back)
  /\ UNCHANGED <<wake, batch, clock, rxWaker, txWaker, free, outbox, sends,
                 back, owed, ring>>

\* fhost_tx_start takes the buffer, or refuses it and it is freed
Submit ==
  /\ xpc = "submit"
  /\ \/ flying' = flying + 1 /\ UNCHANGED <<free, wake, txWaker>>
     \/ /\ free' = free + 1 /\ UNCHANGED flying
        /\ IF txWaker THEN Wake("net", "task") ELSE UNCHANGED wake
        /\ txWaker' \in {txWaker, FALSE}
  /\ GoTo(back)
  /\ UNCHANGED <<batch, clock, rxWaker, outbox, sends, back, owed, ring>>

LinkState ==
  /\ xpc = "link"
  /\ rxWaker' = TRUE
  /\ GoTo("poll")
  /\ UNCHANGED <<wake, batch, clock, txWaker, free, flying, outbox, sends,
                 back, owed, ring>>

\* A poll of app: hand the stack a packet, which wakes net, or set a timer,
\* whose schedule_wake pends if it is the next one due.
PollApp ==
  /\ xpc = "poll" /\ "app" \in batch
  /\ batch' = batch \ {"app"}
  /\ \/ /\ sends < MaxSend
        /\ outbox' = outbox + 1 /\ sends' = sends + 1
        /\ IF "net" \in runq \union batch THEN UNCHANGED wake
           ELSE Wake("net", "task")
        /\ UNCHANGED timer
     \/ /\ timer = Never /\ timer' \in 1 .. MaxDelay
        /\ Pend("critical")
        /\ UNCHANGED <<runq, outbox, sends>>
     \/ UNCHANGED <<wake, timer, outbox, sends>>
  /\ UNCHANGED <<xpc, left, held, rxWaker, txWaker, free, flying, back, owed, ring>>

-----------------------------------------------------------------------------
Executing ==
  \/ Run \/ Clear \/ Dequeue \/ Expire \/ Check \/ Wait \/ WakeUp
  \/ PollNet \/ ReceiveArm \/ Receiving \/ ReceiveNone \/ TransmitArm
  \/ TransmitLook \/ Consume \/ Submit \/ LinkState \/ PollApp

\* The producer's context publishes, then wakes, before it receives again; a
\* frame that finds the ring full is dropped.
Arrive ==
  /\ ~owed /\ input < MaxArrivals
  /\ input' = input + 1
  /\ IF rx = Depth THEN UNCHANGED <<rx, owed>> ELSE rx' = rx + 1 /\ owed' = TRUE
  /\ UNCHANGED <<executor, driver>>

EmbassyNext ==
  Executing \/ Arrive \/ WakeRx \/ Confirmed \/ Tick

\* The scheduler runs the executor's task and the producer, the MAC confirms,
\* the clock ticks.
EmbassySpec ==
  /\ EmbassyInit /\ [][EmbassyNext]_embassyVars
  /\ WF_embassyVars(Executing) /\ WF_embassyVars(Tick) /\ WF_embassyVars(Confirmed) /\ WF_embassyVars(WakeRx)

-----------------------------------------------------------------------------
\* The executor is at a label of its loop and sleeps no longer than the backstop.
EmbassyTypeOK ==
  /\ xpc \in {"off", "top", "dequeue", "poll", "check", "wait", "asleep", "receive",
              "pop", "transmit", "look", "consume", "submit", "link"}
  /\ runq \subseteq Tasks /\ batch \subseteq Tasks
  /\ runq \intersect batch = {}
  /\ left \in 0 .. Backstop /\ timer \in 0 .. MaxDelay \union {Never}
  /\ held \in 0 .. MaxHeld
  /\ rx \in 0 .. Depth /\ input \in 0 .. MaxArrivals
  /\ free + flying + (IF xpc = "submit" THEN 1 ELSE 0) = Buffers

\* A frame is never left in the ring with nobody to fetch it: once its wake is
\* through, net is enqueued or still on its way to look (receive arms the waker
\* before it looks; link_state arms it again).
NoFrameForgotten ==
  rx > 0 /\ ~owed /\ xpc # "off" =>
    \/ "net" \in runq \union batch
    \/ xpc \in {"receive", "pop"}
    \/ xpc \in {"consume", "submit"} /\ back = "receive"

\* The executor sleeps with work enqueued and no notification only if the wake
\* came where it may not notify: a notification raised between the look at
\* PENDING and the wait is counted (pend, run).
WokenInTime == xpc = "asleep" /\ runq # {} /\ ~notified => quiet

\* The executor oversleeps a timer by no more than it was held up between
\* reading the clock and starting the wait computed from it (next_expiration,
\* run).
TimerInTime == xpc = "asleep" /\ timer # Never => left <= timer + held

\* Work enqueued is taken up, also after a wake that could not notify: the
\* backstop sees to it.
WorkTakenUp == runq # {} ~> runq = {}

\* Every packet is taken from the stack in the end: a sender that found the
\* pool empty is woken when a buffer comes back, refused frames included.
OutboxDrains == outbox > 0 ~> outbox = 0

\* A timer that was set fires, however late: the wait it is due in ends, and
\* the poll after it dispatches it.
TimersFire == timer # Never ~> timer = Never

\* The executor sleeps only when, and only as long as, it may.
SleepsInTime == EmbassyTypeOK /\ WokenInTime /\ TimerInTime

\* What is enqueued, tasks, packets and timers, is worked off.
WorkEnds == WorkTakenUp /\ OutboxDrains /\ TimersFire
=============================================================================
