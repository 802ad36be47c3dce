# TLA+ models of the BL616 WiFi crates

This directory models the Rust side of the BL616 WiFi firmware: the code that
sits between Bouffalo's prebuilt radio libraries ("the blobs") and an
application.  The modules are checked with TLC on small instances, and
TLAPS proves every safety property that is checked for every instance (section 5
names the assumptions; what is eventual is only model-checked).

Everything is translated from the sources in the repository.  What the crates
call but do not contain (the blobs, smoltcp, FreeRTOS, Boot2, the air) is
*external*: it may do whatever its interface allows, and each module says what
is assumed of it.

## 1. The system

| component (source) | state it keeps | operations | who else touches it |
| --- | --- | --- | --- |
| partition table, OTA (`bl616-pt`, `ota.rs`, `flash.rs`) | two table copies and two firmware slots in NOR flash; an `Ota` value in RAM | `begin`, `write`, `commit`, `confirm_boot` | any task; power cuts; Boot2 reads the tables |
| transmit pool (`net_al/txbuf.rs`, `net_buf_tx_*`) | free mask, `next` links, high-water mark | alloc, chain, describe, free | tasks of the blob, the IP task, the MAC's completion |
| receive ring (`net_al/iface.rs`, `net_al_input`) | ring of 12 slots, two indices, registered ethertypes | push, pop | the MAC's receive context pushes, one task pops |
| confirmed L2 transmission (`net_l2_send`) | a spin flag, `L2_DONE`, `L2_ACKED` | send with retries, confirmation callback | supplicant tasks, MAC |
| interfaces (`net_al/iface.rs`, `net_if_*`) | two slots with a used flag each, `SPAWNED` | register, look up by handle, index and name, spawn the IP task | tasks of the blob |
| IP stack task (`net_al/stack.rs`) and addressing (`net_al/mod.rs`) | mailbox `COMMAND`/`RESULT`, `TARGET_IF`, interface addresses, the stack and its DHCP client and server | `net_al_ext_set_vif_ip`, `net_al_ext_dhcp_*`, `net_al_dhcpd_*`, the poll loop | the WiFi manager's and the supplicant's tasks |
| DHCP server (`bl616-dhcp`, `net_al/dhcpd.rs`) | pool, 8 leases | discover, request, decline/release | clients over a lossy network |
| bring-up (`lib.rs`, `runtime.rs`) | `RF_STATUS`, `INITIALISED`, event latch | `radio_task`, `Wifi::init` | application tasks, firmware |
| events and operations (`event.rs`, `sta.rs`, `ap.rs`) | event latch | `connect`, `disconnect`, `scan_and_print`, `start_ap`, `stop_ap` | the vendor's event bus |
| embassy driver and executor glue (`net_al/embassy.rs`, `embassy_rt.rs`) | wakers, pending flag, link state | receive/transmit tokens, pend, run loop | interrupt, timer, tasks |
| UART (`uart.rs`) | two byte rings, wakers, open flag | open, read, write, interrupt, drop | interrupt handler, tasks |
| console (`console.rs`) | a mutex made on first use; with `console-probe` three tables of counts | print, printf, putchar, write, report | tasks, interrupts, code before the scheduler |
| RTOS layer (`rtos_al.rs`) | none of its own: FreeRTOS objects | tasks, notifications, queues, semaphores, mutexes, their results turned round | the blobs |
| crypto (`bl616-crypto`) | none | hashes, AES, bignum arithmetic | wpa_supplicant |

How they meet: the MAC pushes frames into the ring and raises events; the IP
task pops them, feeds smoltcp and allocates transmit buffers; the blobs' tasks
post commands to the IP task and wait for its answer; the supplicant sends
EAPOL frames through `net_l2_send`; the application waits on the event latch
for what its operations lead to.  Nearly all of this is single atomic words,
with no lock and no identity attached to a message.  That is where the hard
behaviour is:

* **interleaving**: lock-free pool and ring, slots claimed by a flag, a mailbox
  of one shared by several tasks, a spin flag, two-word confirmations, an
  interrupt handler between any two steps of a read or a write;
* **wake-ups**: a waker registered, a flag looked at and a wait begun in three
  steps, with the event anywhere between them;
* **staleness**: a mask, a target, a table or an event read in one step and
  used in a later one;
* **crash**: power cuts between any two flash calls of an update;
* **timeouts**: confirmations, answers and events that come after the wait for
  them gave up, and the retries that follow;
* **order**: a server asked for before there is an address; an event posted
  before anybody listens;
* **bounds**: a pool, a ring and a lease table that run full, indices that wrap.

What makes each component correct: an update leaves one whole image to boot
whatever fails (OTA); a buffer has one owner and none is lost (pool); what is
popped is what was accepted, whole and in order (ring); an acknowledgement
reported is that of the caller's frame (L2); an answer is to the request it
answers, addresses and servers asked for come about (IP task); no address has
two holders and an offer can be granted (DHCP); one handle, on a radio that is
up, and retries that work (bring-up); an outcome that is that of the call
(operations); no byte lost uncounted and no sleeper left asleep (UART, embassy);
one lock, whole lines and every call returning (console); results that are true
(RTOS layer).  `PROJECT.json` lists each place where this is hard to test.

## 2. The modules

| module | models | checked by |
| --- | --- | --- |
| `Ota` | update sessions, boot confirmation, flash, reset | `MCOta` |
| `ABUpdate` | what an A/B update promises; `Ota` implements it | `MCOta` |
| `TxPool` | transmit buffers and chains | `MCTxPool` |
| `RxRing`, `RxFifo` | the receive path; the bounded queue it implements | `MCRxRing` |
| `L2Send` | `net_l2_send`, `l2_send_once`, `l2_send_cfm` | `MCL2Send` |
| `NetIfs` | registration and lookup of interfaces, the spawn of the poll task | `MCIpStack` |
| `IpStack` (extends `NetIfs`) | the poll task, its mailbox and the calls that use it | `MCIpStack` |
| `Dhcp` | the lease table, with its clients and the network | `MCDhcp` |
| `Bringup` | radio task, firmware events, `Wifi::init` | `MCBringup` |
| `Control` | the operations of a `Wifi` handle over the event latch | `MCControl` |
| `Uart` | the port, its two rings, its handler and the async calls | `MCUart` |
| `Embassy` | the executor on its FreeRTOS task, and the driver over ring and pool | `MCEmbassy` |
| `Rtos` | what the blobs ask of `rtos_al.rs`, with FreeRTOS behind it | `MCConsole` |
| `Console` (extends `Rtos`) | the console's lock, its lines and its probe | `MCConsole` |
| `OtaProofs`, `TxPoolProofs`, `L2SendProofs`, `ControlProofs`, `UartProofs` | the theorems about the module each is named after, which it extends | TLAPS |
| `ReceiveProofs` | the theorems about `RxRing` and its consumer `Embassy` | TLAPS |
| `AddressingProofs` | the theorems about `Dhcp` and about `IpStack` (with `NetIfs`), whose task runs it | TLAPS |
| `RuntimeProofs` | the theorems about `Bringup`, `Console` and `Rtos` | TLAPS |

A step of a model is one access to something another task, an interrupt or the
power supply could come between: one flash call, one atomic operation, one half
of a copied frame.  Between two of them the code's straight line is one action.
Variables keep the names of the code's statics and fields.  Variables called
*history* record what happened so that a property can speak of it; no action's
guard reads them.  A definition marked as a *mutant* is not part of the model:
it is the form a plausible mistake would give to the definition after it, and
shows that the property it is listed with would notice.  Where a run checks a
conjunction (`Accounted`, `BytesKept`, ...), each of its parts has a mutant.
`Embassy`, `IpStack` and `Bringup` put their names before `Init`, `Next` and
`Spec`, since a proof module extends them together with another component.

**Ota.**  `copy` is the two tables, reduced to the fields the code compares or
changes (`valid`, `age`, which slot is active, the length, the boot-retry
fields); `cell` is the flash of the slots in units, `SectorSize` of which erase
together.  `BeginRead...`, `Write...`, `Commit...` and `Confirm...` are the
flash calls of `ota.rs` in order; `Reboot` is Boot2 (external) choosing the
valid copy with the greater age, ties to copy 0.  A flash call that fails
leaves the sector or the write half done; reads that fail abandon the operation
and change nothing, which is a session that never begins.

**TxPool.**  A client is a frame on its way.  `alloc` is load, compare-exchange
and the update of the high-water mark; `net_buf_tx_cat`, `net_buf_tx_info` and
`free` walk the chain one link a step.  `net_al_tx_req` and the embassy driver's
`WifiTxToken::consume` hand a frame to the MAC, which confirms or refuses it; a
frame of more segments than the MAC's table takes is refused whole.

**RxRing.**  `net_al_input` sorts a frame (empty, oversize, own, EAPOL, data),
`rx_push` and `rx_pop` copy in two halves so that a torn copy shows.  `RxFifo`
is the queue promised; the refinement mapping reads the slots between the
indices.

**L2Send.**  Lock, allocate, reset both flags, submit, poll, retry.  The MAC
confirms by `L2_ACKED`, then `L2_DONE`.  With `Late` FALSE it does so before the
300 ms are over or never; with `Late` TRUE whenever it likes.  Data traffic
(`OtherTraffic`, external) takes and returns buffers of the same pool, so an
allocation can fail at any try.

**IpStack.**  `poll_task`'s loop is `PollBind` (look at `TARGET_IF`), `PollAdopt`
(load the address of the interface), `PollCommand`, `PollAnswer`, `PollSync` and
`PollCompare` (`sync_addr`'s loads), `PollNet` (smoltcp and the network: external)
and the DHCP client's events; `set_addr` binds an address (`SetAddr`) and stores it
back in the interface (`PollWriteBack`) a step later, whatever a task stored there
meanwhile.  The history variable `given` is what each interface was given last,
which that store may overwrite.  Each `net_al` entry point is the sequence of its
stores; a netmask and a gateway go with their address and are only told apart from
those of another store (`PollCompare`).  What the blobs call, and in which order, is `Programs`.  `NetIfs` is the
part before that: `iface::add` claims a slot by an exchange on its flag and fills
it after, `net_if_add` stores the handle and starts the poll task, once.

**Dhcp.**  `Leases::offer`, `commit` and release over the table; clients that
ask, lose, repeat and delay messages.

**Uart.**  One hart: a task's step happens while no handler runs, and the
handler enters between any two of them unless an `IrqGuard` is held.  Reads and
writes look at a ring's `len`, move bytes and store `len` in separate steps, so
that a missing guard shows; the handler drains and feeds in one step each.  The
peripheral (external) has its two FIFOs, raises level-triggered conditions and
shifts bytes when it likes.  Bytes are numbered, which makes order visible.

**Embassy.**  `Run`, `Clear`, `Dequeue`, `Expire`, `Check`, `Wait` and `WakeUp`
are the loop of `run`; `Pend` is the pender in a task, in an interrupt and inside
a critical section, where it may not notify.  The driver's `receive`, `transmit`
and `link_state` register a waker and look, in the code's order.  Time passes
everywhere (`Tick`), also between the reading of the clock (`Expire`) and the wait
computed from it (`Wait`): `held` counts those ticks.  The receive ring
is `RxFifo`'s with its frames counted: what `RxRing` is shown to implement.

**Rtos / Console.**  The blobs' calls are programs over one queue, semaphore,
mutex and pair of tasks, from tasks and handlers; each call is one FreeRTOS call,
whose result the code turns round.  In `Console` the same tasks print: `lock` is
load, create, exchange; a guard is taken for a line, a format or a write and
nested as the code nests them; the probe's tables are walked slot by slot.

**Bringup / Control.**  The firmware and the manager post each event once, in
order, at any moment, or stop for good.  `event::wait` is a look per event and
a sleep; time is counted in sleeps.

## 3. What the runs check

| run | question | bounds |
| --- | --- | --- |
| `ota_update` | do failures and power cuts anywhere leave one whole image, is a commit what boots, is nothing outside the spare slot written, is it an A/B update? | 1 updater, 2 images, 2 sectors a slot, 2 units a sector, table ages to 2 |
| `ota_confirm` | updates and boot confirmations that do not overlap | 1 updater, 1 confirmer, ages to 3, no faults |
| `tx_pool` | owners, leaks, high-water mark, frames told whole, walks that end | 3 frames, 3 buffers |
| `rx_ring` | whole frames in order, nothing overwritten | ring of 2, 2 interfaces, 4 frames, indices modulo 4 |
| `l2_send` | own acknowledgement, retries only of unheard frames, calls return | 2 senders, 2 buffers, 2 retries, MAC prompt or silent |
| `ip` | handles that lead where they should, one poll task, requests carried out, addresses applied, servers up, leases reported, calls that return | 2 callers; an access point's calls in several orders, registered with its address or without, a station's, three registrations at once, two tasks that have a station leave and join |
| `dhcp` | unique addresses, offers granted while there is a slot, renewals granted always, leases left alone | 3 clients, 2 slots, pools of 1, 2 and 3, 2 messages under way |
| `bringup` | one handle, on a booted radio, and retries that get it | 2 tasks, timeouts of 2 sleeps, radio and firmware that may fail |
| `control` | outcomes that are the call's, timeouts that missed nothing, calls that return | timeouts of 1 sleep, all five operations in any order for ever |
| `uart` | bytes kept and in order, a port that works for its holder, sleepers woken, output sent and then silence | 2 tasks, receive ring of 2, transmit ring of 1, FIFOs of 2, 3 bytes in, 2 out |
| `embassy` | no frame or packet left behind, no sleep past work, nor past a timer but for the ticks the executor was held up, every timer fires | ring of 2, 3 frames, 1 buffer, 2 packets, backstop of 2 ticks, timers to 3, held up for 2 |
| `console` | one lock, whole lines, no count lost, results that are true, calls that return | 2 tasks, handlers, 11 programs of up to 6 calls, tables of 2 slots, a queue of 2 |

Why the bounds are enough.  *Ota*: one session writes across a sector boundary
and an update can follow another, so every copy is published at least once;
first slot shorter than its sectors, second a full one.  *TxPool*: three frames
exhaust the pool, and a chain of three has a middle.  *RxRing*: four frames fill
a ring of two twice.  The index width there is a multiple of the ring, which
makes the wrap harmless; `rx_ring_wrap.cfg` shows what happens when it is not.
*L2Send*: a second sender is enough to be given the first one's confirmation,
two retries make a first, a middle and a last try.  *IpStack*: each entry point
before and after each other of one role; three registrations for two slots, so
that two race for one and one is refused; two tasks that ask at once
(`LeavePrograms`), so that a command is overwritten before it is taken, an answer
reset before it is read, and only the timeout ends a wait.  *Dhcp*: a pool
smaller than, as large as and larger than the table, fewer or as many addresses
as clients; the shipped pool of 16 over 8 slots is of the last kind; with three
messages under way (`MaxSent = 3`, 1 884 580 states) the run passes as well.  *Bringup*:
timeouts shorter and longer than the boot, two tasks inside `init` at once.
*Control*: the operations go on for ever; one sleep separates a first from a last pass.
*Uart*: both rings fill and wrap, the receive ring overruns, and the port is
opened a second time by another task.  *Embassy*: the ring fills and drops, the
one buffer is out when the second packet comes, timers fall before and after the
backstop, and being held up for 2 ticks takes an executor past its timer.  *Console*: the race for the first lock, every nesting of guards, a
full table, a full and an empty queue, a semaphore of either kind; one object of
each kind, since the calls share nothing across objects.

**Fairness.**  A call that has begun goes on (weak fairness per task: the
scheduler is preemptive and every wait of the code is a bounded sleep).  In
`IpStack` a caller may be held off again and again by the poll task's turn in
the mailbox, hence strong fairness for the callers, which have the higher
priorities; that the network in the end gives a client that keeps asking a lease is
a hypothesis of `GotIp` alone (`LeaseComes`), so calls return without it.
In `L2Send` a callback that began ends, and a frame is confirmed or forgotten.
In `Bringup` a firmware that boots does so some day, and a task told `Timeout`
calls again.  In `Control` nothing at all is assumed of the manager.
In `Uart` a raised interrupt is taken as soon as a guard is dropped; guards are
taken again and again, hence strong fairness for the handler.  In `Embassy` the
executor's task, the receive context, the MAC's confirmations and the clock go
on.  In `Console` the scheduler is started and handlers run; the
programs end, so a mutex waited for comes free for good.  In `TxPool` a context
that walks a chain goes on walking.  In
`IpStack` a request's timeout is assumed longer than a round of the poll loop:
2 s against a few milliseconds.

## 4. Divergences

Places where the code does not do what its own comments say, or where an
assumption of the listed runs is needed.  None is among the listed runs, which
all pass; each ends in a counterexample as the table says.  The most
serious: a boot confirmation while an update is being written takes the age the
commit will publish, so the committed image never boots (`ota_confirm_tie`), and
after a disconnect was answered a new DHCP client is never polled, so `GOT_IP`
is never posted again (`ip` with `ReconnectPrograms`).

Run a configuration as `tlc -config X.cfg MC...`.  Where the table gives a listed
configuration with a change in brackets, make the change in a copy of it: the
programs named are definitions of `MCIpStack`.

| configuration | module, property | what it shows |
| --- | --- | --- |
| `ota_confirm_tie` | `MCOta`, `CommitLands` | `confirm_boot` while an update is being written: the two copies tie and the committed image never boots |
| `ota_confirm_cut` | `MCOta`, `Bootable` | `confirm_boot` rewrites the live table in place; a power cut then leaves only the other copy, blank on a board never updated |
| `ota_update` [`Faults = FALSE`, this property only] | `MCOta`, `RunningImageSpared` | a second update before the reboot erases the slot being executed |
| `ota_unaligned` | `MCOta`, `OtherSlotSpared` | a slot that ends inside a sector: the last erase takes part of the next |
| `rx_ring_wrap` | `MCRxRing`, `OldestFirst` | 2^32 is no multiple of 12: at the wrap two waiting frames share a slot |
| `l2_late` | `MCL2Send`, `AckIsOwn` | a confirmation after the timeout answers the next sender |
| `ip` [`Programs <- ReconnectPrograms`] | `MCIpStack`, `GotIpPosted` | the answer a disconnect left standing keeps the next client from being polled |
| `ip` [`Programs <- BothPrograms`] | `MCIpStack`, `GotIp` | the answer to the access point's request does the same to a station's client, or its command overwrites the client's |
| `ip` [this property only] | `MCIpStack`, `AddressFollowed` | an address set while the poll task is about to write back the one it loaded is overwritten |
| `ip` [`Programs <- ApPrograms`] | `MCIpStack`, `ServerUp` | a server start between the poll task's two looks is lost |
| `ip` [`Programs <- BothPrograms`] | `MCIpStack`, `ServerUpUndisturbed` | a station's DHCP client takes the stack, and the server on it, from the access point |
| `ip` [`Programs <- StationPrograms`] | `MCIpStack`, `LeaseFollowed` | an expired lease is never noticed |
| `ip` [`Programs <- BothPrograms`] | `MCIpStack`, `ServerAnswerIsOwn` | two requests at once read one another's answer |
| `ip` [`Programs <- AddressPrograms`] | `MCIpStack`, `AddressApplied` | an address taken away stays bound |
| `dhcp` [this property only] | `MCDhcp`, `OffersHonoured` | a pool larger than the table offers what it cannot grant, once the table is full |
| `dhcp_own_address` | `MCDhcp`, `OwnAddressKept` | the server's own address can be in the pool |
| `bringup_second_task` | `MCBringup`, `TimeoutMeansDown` | of two tasks in `init` the second times out on a radio that is up |
| `control_stale` | `MCControl`, `OutcomeIsOwn` | an abandoned attempt's event decides the next one |
| `console_putchar` | `MCConsole`, `ShownClaimed` | a report reads the key of a free slot, a `putchar` claims it, the report reads its count and shows the byte 0 - 1 (`console-probe` builds) |
| `console_notes` | `MCConsole`, `OneNotePerWait` | two notifications before a wait are consumed by that one wait; the comment says each wait consumes one |

Smaller ones, without a configuration: the executor reads the clock and waits for
the time left, so it oversleeps a timer by as long as it is held up in between
(`held` in `Embassy`); `Wifi::init` waits three times and
`connect` twice, each time for the whole timeout (`spent` in `Bringup` and
`Control` is bounded accordingly); `Uart::read` into an empty buffer never
resolves; two `Ota` values open at once write one spare slot, which
`ota_update`'s single updater excludes.

## 5. What is proved

Each theorem holds for every value of the constants; an assumption beyond those
the models declare (that a ring has a slot, that a limit is a number) is named in
the theorem.  Each inductive invariant was checked on its component's run before
it was proved, and is part of that module's theorem only as the means: what the
theorem states is the property the run checks.

| theorem | states | assumes |
| --- | --- | --- |
| `OtaProofs` `TypeCorrect` | `TypeOK` | |
| `OtaInvariant`, `AlwaysBootable`, `CommitsLand`, `UpdateSparesOtherSlot`, `ImplementsABUpdate` | `OtaInv`, `Bootable`, `CommitLands`, `OtherSlotSpared`, `Implements` | `SoleUpdater`, `AlignedSlots` |
| `BootableBetween`, `ConfirmationSticks` | `QuietBootable`, `ConfirmSticks` | `TakingTurns`, `AlignedSlots` |
| `TxPoolProofs` `BuffersAreExclusive`, `BuffersAreAccountedFor`, `WholeFramesAreSent` | `Exclusive`, `Accounted`, `WholeFrame` | |
| `ReceiveProofs` `RingIsSound`, `RingImplementsFifo` | `RingSound`, `Implements` | `IndicesAgree` |
| `FramesAreFetched`, `ExecutorSleepsInTime` | `NoFrameForgotten`, `SleepsInTime` | |
| `L2SendProofs` `AcksAreSound`, `OnlyUnheardIsRetried` | `AcksSound`, `RetriesAreUnheard` | `~Late` |
| `AddressingProofs` `LeasesAreSound`, `LeasesStayPrivate` | `LeasesSound`, `LeasesPrivate` | |
| `RequestsAreGranted` (`OffersAreGranted`, `RenewalsAreGranted`) | `RequestsGranted` (`OfferGranted`, `RenewalGranted`) | |
| `OffersAreHonoured` | `OffersHonoured` | `PoolFits` or `StationsFit` |
| `InterfacesAreSound` | `InterfacesSound` | |
| `ServerAnswersAreOwn` | `ServerAnswerIsOwn` | `OneServerUser` |
| `RuntimeProofs` `BringupTypes`, `HandleIsProof` | `BringupTypeOK`, `HandleMeansUp` | |
| `ConsoleIsSound`, `CountsAreKept` | `ConsoleSound`, `CountsKept` | |
| `ResultsAreTrue` | `ResultsTrue` | |
| `ControlProofs` `OutcomesAreTrue` | `OutcomesTrue` | `Settled` |
| `UartProofs` `PortsWork`, `NoByteIsLost` | `PortLive`, `BytesKept` | |

**The assumptions.**  Each leaves out a case in which the code really fails, and
section 4 has the configuration that shows it.  `SoleUpdater` is one updating
task and no confirmer, with any failures (`ota_confirm_tie`, `ota_confirm_cut`);
`AlignedSlots`, slots that start a sector and do not overlap, is for the partition
table to see to, which `ota.rs` takes as it is (`ota_unaligned`).  `TakingTurns`
is one updater and one confirmer, each beginning when the other is idle, and flash
calls that succeed (`ota_confirm_tie`, `ota_confirm_cut`): the confirmation is made
once after a boot, before an update is looked for.  `IndicesAgree` is a
ring whose size divides the indices' width, or indices that have not wrapped;
with 12 slots and 32 bits it is the second, for the first 2^32 - 1 frames
(`rx_ring_wrap`).  `~Late`: the MAC confirms within the 300 ms or never
(`l2_late`).  `PoolFits`: the pool is no larger than the lease table.  The shipped
one is larger (`dhcp_limit` is 16, the table has 8 leases), and then it takes
`StationsFit`, no more stations than leases, for every offer to be honoured; what
holds of a larger pool and any number of stations is `RequestsAreGranted`.
`Settled`: the application calls again only when the manager has posted all it
owes to the call before (`control_stale`).  `OneServerUser`: of the tasks that post requests to the
IP stack either none makes one of the DHCP server's, or one task makes all there
are and all are the server's.  That is an access point's supplicant; `RESULT`
carries no name, so with two tasks at once, or with the poll task answering a
client of its own, a request can read another's answer (`ip` with `BothPrograms`).

A theorem without an assumption covers every instance its module declares.  Of
those declarations one is a contract with the callers: `Promised` has the blobs
create a semaphore with a maximum of at least 1 and an initial count up to it, and
create only tasks that exist.  FreeRTOS asserts the former of a counting semaphore;
of a binary one nothing does, and the code gives it one signal whatever was asked.
`Embassy`'s `MaxHeld` is a bound on the model, not on the code: `SleepsInTime` says
how far a timer is overslept when the executor is held up, for any `MaxHeld`.

**Ota.**  That one image boots is not inductive by itself: a commit could
publish a slot whose contents are unknown.  `OtaInv` therefore says of a
session in progress (`SessionInv`) that the table it read is still the live
one, that its target is the slot that table does not name, and that the target
holds the image up to `written` and is blank or the image up to `erased`; of a
commit in progress (`ProgressInv`) that what it will publish is that table with
the slots exchanged, into the copy that is not live; and of the live slot
(`LiveImage`) that it holds one image.  A step writes either the spare slot,
which `LiveImage` does not mention, or the copy that is not live, which is
invalid or older until the one write that makes it the newer one: that is the
step that maps to `Install`, all others map to a stutter or to a change of the
offered image.  `TurnsInv` reuses all of it between confirmations: while the
confirmer is idle it is `OtaInv`, and while it rewrites the live copy in place
(`Rewriting`) the table in its hands is the one that will win.

**TxPool.**  `Held(c)` is what a frame can reach through `next`, which no step
preserves syntactically: an append changes what is reachable everywhere behind
it.  `PoolInv` instead says that *some* division of the slots in use among the
frames exists, each part closed under `next` and made of chains that begin at a
pointer of its frame (`Owns`, `Chained`), with what each frame's pointers are at
each point of its calls (`Calling`) and, while the MAC's table is filled, that
the slots described are the frame up to the cursor (`Described`).  A step moves
one slot of one part.  A part then turns out to be exactly `Held(c)`: that lemma
(`HeldDivides`) gives the three theorems.  The peak needs `PeakInv`, how far a
claim in progress is from having been counted.

**RxRing.**  `RingInv` fixes the indices to the numbers pushed and popped
(`Counting`), says what a half-done copy holds on each side (`Pushing`,
`Popping`) and that every waiting frame is in its slot, whole (`Stored`).  The
arithmetic it rests on, that two counts less than a ring apart select different
slots, is proved first; `IndicesAgree` is needed there and nowhere else.  The
refinement reads the abstract queue from the slots between the indices: the store
of `RX_HEAD` is its push, that of `RX_TAIL` its pop.

**Embassy.**  A frame that waits has net enqueued, or a wake still owed for it.
What keeps that so is that net leaves the queue only for a poll which registers
its waker before it looks at the ring (`Armed`): a frame pushed before the look is
seen, one pushed after it wakes.  `FrontInv` adds that a batch is polled to its
end before `run` goes on (`BatchDone`); that past the look at `PENDING` work
enqueued is notified or came where nothing may be (`RousedInTime`); and that the
sleep settled on outlasts the timer by no more than `held` (`SleepShort`), which
holds because only a poll sets timers, `Expire` reads the clock after it, a tick
before the wait is counted in `held` and one in the wait shortens both.

**L2Send.**  `LockInv`: who is between taking and clearing `L2_BUSY` is alone.
`PendingInv`: the MAC holds, and confirms, only the frame waited for; here
`~Late` is used.  `FlagsInv`: `L2_DONE` is not read before `L2_ACKED` is of this
frame, from the resets before the submission to the poll.

**Dhcp.**  `AddressesUnique` depends on messages that are still under way:
`DhcpInv` says of a client that uses an address that the table holds it
(`HeldIsLeased`), of what it has sent that its requests are alike
(`RequestsAlike`), and of every reply on its way that a grant is what the table
holds (`GrantsHold`), an offer was made (`OffersOnly`) and a refusal carries no
address (`RefusalsNameNothing`).  Messages may be
lost and delayed, and a client may ask again, at every point.  `OffersAreGranted`
and `RenewalsAreGranted` follow from what is offered being free for the station or
its own (`OfferedIsFree`).  `OffersAreHonoured` adds that a slot is left, which is a
counting argument: a full table leases as many addresses, to as many stations, as
it has slots.

**IpStack.**  That handles lead where they should rests on who fills a slot in:
`SlotInv` says that a task past the exchange on a slot's flag is alone in it, that
nobody has its handle while it is filled, and that it is filled for the interface
asked for once the handle is returned; the rest of `IpInv` are types, among them
that the poll task has bound a stack by the time it adopts an address.  `OwnInv`
follows one request of the only task that makes any (`Exchange`): it is in the
mailbox, being answered, or answered and carried out, and `RESULT` says which; no
client is started that could be answered instead (`NoClient`).  Which calls a task
may still make only shrinks (`AsksShrink`), so that the assumption on the
programs, made once about the initial state, holds all along.

**Bringup.**  The invariant adds where a task is in its call to what has
happened: past the wait for `InitDone` the firmware is up, because the event is
posted only then and the filter was installed before the firmware was started; a
task inside a call holds no handle.  The bound on `spent` needs the wait a call
is in: one timeout for each wait already over.

**Control.**  `OwedInv`: all the manager is still to post is of this call.
`FreshInv`: of the events this call looks at, the latch holds none of an earlier
one once they are cleared.  `KeptInv`: what was posted is in the latch or was
taken, and a pass has yet to look at all that was there when it began; a timeout
is true because of it.  `StageInv` and `TimeInv` say what being in the second
wait implies.

**Uart.**  `PortLive` says what a finished `open` leaves behind; `LiveInv` adds
what each step of `open` and `drop` has done to the hardware so far (`HwInv`), that
a port being opened, held or dropped has one owner (`OwnInv`), that a task between
reading and storing a `len` holds the guard and has read what is still there
(`GuardInv`), that both rings' indices and lengths agree (`RingInv`), and that
transmit is masked only with nothing to send or with a writer about to unmask it
(`MaskInv`).  `BytesKept` needs `KeepInv` besides: the bytes waiting in the ring and
behind it in the FIFO are later than the last one read, in order (`InInv`), those
going out are the successors of the last one sent, without a gap (`OutInv`), and
what has arrived is the sum of its fates (`CountInv`).

**Console.**  `TasksFlow` says what being at a point of a call implies: guards
nest as line, format, write, each at most once; a guard is taken only below
those held; there is something to write while a format or write guard is wanted.
`LockInv` follows the mutex: nobody uses one that lost the race for `LOCK`, a
task that has made one and not yet exchanged it still has it (`Place`), and the
mutex counts the guards of its owner.  Lines stay whole because of what `OutputInv`
says of one that is partly out (`Printed`): its call is over, or its task still
holds the lock and nobody has written under the lock since.  `CountsKept` is an
equation between sums over slots and tasks; `TableInv` proves it by counting
pairs of a slot and a number up to its count, so that a step adds or removes one
pair or moves one task out of those recording.

**Rtos.**  `ObjectsInv` adds to `ResultsTrue` that a number is given to one message
(`NumbersOnce`: what was refused is not accepted before or later) and that a
semaphore not yet made has granted nothing.

TLC checked these on the runs' configurations, or on ones as large: `TurnsInv`
on 28 982 states, `PoolInv` on 251 826, `RingInv` on 105 620, `SendInv` on
91 200, `DhcpInv` on 356 961, `ControlInv` on 62 409 (timeouts of 2 sleeps),
`LiveInv` and `KeepInv` on 172 068, `FrontInv` on 170 873, `IpInv` and `OwnInv` on
85 090, `ConsoleInv` on 344 946; `OtaInv` is an invariant of `ota_update`.

**Only model-checked.**  Every safety property of the runs has its theorem; what
has none is everything that is eventual
(`WalksEnd`, `SendReturns`, `GotIpPosted`, `ServerUpUndisturbed`,
`AddressApplied`, `CallsReturn`, `RetryGetsHandle`, `OperationsReturn`,
`SleepersWake`, `OutputEnds`, `WorkEnds`), since the prover does not handle
fairness and ENABLED; what a recursive definition computes for every input, which
would need induction principles the installed provers cannot instantiate.

## 6. Not modelled

*Whole components.*  Stateless wrappers (`heap`, `rng`, `panic`, `shell`,
`cstr`, `net`, `error`), the bindings, build scripts and examples have no
behaviour over time.  `net_al/events.rs` hands one code to the vendor's bus;
`net_al/stack_stub.rs` answers constants.  `bl616-crypto` binds published
primitives to a C interface; its limb arithmetic computes a value and keeps
nothing.  `xtask` runs on the host: that it writes copy 0 of the table with age
0, which a higher age in copy 1 outlives, is known but outside `Ota`, whose
initial state is a board that boots the factory image.

*Inside modelled components.*  Bytes and checksums of tables and packets;
`smoltcp`; in `stack.rs` the ping (`poll_ping`), the link flag, the pool
`net_al_dhcpd_start` leaves for the server, and which interface a popped frame
came in on, which the consumer ignores; in `mod.rs` checksums, header accessors
and `net_al_rx_resend`; in `event.rs` user handlers; in `sta.rs` and `ap.rs` the
setters that pass one value on; in `uart.rs` pins and line settings; in
`rtos_al.rs` the queries of a queue, priorities, suspension, the clock, critical
sections and hooks; in `console.rs` formatting; lease expiry in the DHCP server,
which the code does not do.

*Assumptions that leave a case out.*  A request to the poll task does not time
out while its command is still in the mailbox (2 s against a round of a few
milliseconds).  An access point that starts after `start_ap` gave up beacons
without an address: no document says what should become of it, so `Control` has
no property about it.

## 7. Plan

Done: every model of section 2, and the theorems of section 5.

A composition worth having: `Control` over `IpStack`, so that `connect` and the
lease it waits for are one system; the two are joined here only by their
assumptions on each other.
