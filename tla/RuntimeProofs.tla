--------------------------- MODULE RuntimeProofs ---------------------------
(***************************************************************************)
(* Proofs about Bringup, for any tasks, any timeout and whatever the radio *)
(* and its firmware do: its types, with the bound on how long a call may   *)
(* block, and that a handle is unique and the proof of a booted firmware.  *)
(*                                                                         *)
(* And about what runs once it has: Console and, under it, Rtos, for any   *)
(* tasks, any programs of calls and tables of any size.  One lock serves   *)
(* and keeps lines whole, no count is lost, and results are true.          *)
(***************************************************************************)
EXTENDS Bringup, Console, FiniteSetTheorems, SequenceTheorems, TLAPS

Up == firmware \in {"init", "managed"}

\* radio_task starts the firmware last.
BootInv ==
    /\ firmware # "off" => registered /\ radio = "deleted"
    /\ radio = "create" => registered

\* How long a call can have slept by the time it is in a given wait.
SpentBy(t) ==
    /\ pc[t] = "rf" => spent[t] <= waited[t]
    /\ pc[t] = "init" => spent[t] <= Timeout + waited[t]
    /\ pc[t] = "mgmr" => spent[t] <= 2 * Timeout + waited[t]

\* Where a task is in its call says what has happened before.
TaskInv(t) ==
    /\ SpentBy(t)
    /\ pc[t] # "idle" => result[t] = "none"
    /\ pc[t] \in {"mgmr", "claim"} => Up

BringupInv ==
    /\ BringupTypeOK
    /\ BootInv
    /\ HandleMeansUp
    /\ "InitDone" \in LATCH => Up
    /\ \A t \in Callers : TaskInv(t)

-----------------------------------------------------------------------------

LEMMA InitHolds == BringupInit => BringupInv
  <1> SUFFICES ASSUME BringupInit PROVE BringupInv
    OBVIOUS
  <1> USE BringupAssumption DEF BringupAssumption, BringupInit
  <1>1. BringupTypeOK
    <2>1. 0 \in 0 .. Timeout /\ 0 \in 0 .. 3 * Timeout
      OBVIOUS
    <2> QED
      BY <2>1 DEF BringupTypeOK, Results
  <1>2. HandleMeansUp /\ BootInv
    BY DEF HandleMeansUp, Holds, BootInv
  <1>3. "InitDone" \notin LATCH /\ \A t \in Callers : TaskInv(t)
    BY DEF TaskInv, SpentBy
  <1> QED
    BY <1>1, <1>2, <1>3 DEF BringupInv

\* The radio task and the firmware touch no task's call, and never undo what
\* a handle stands on.
LEMMA WorldKeeps ==
  ASSUME BringupInv, RadioTask \/ OnInitDone \/ OnMgmrDone
  PROVE  BringupInv'
  <1> USE BringupAssumption DEF BringupAssumption, BringupInv, BootInv
  <1>1. UNCHANGED <<INITIALISED, pc, waited, spent, result>>
    BY DEF RadioTask, Calibrate, Register, CreateFirmware, OnInitDone, OnMgmrDone, Post
  <1>2. BringupTypeOK' /\ BootInv'
    <2>1. CASE RadioTask
      <3>1. CASE Calibrate \/ Register
        BY <1>1, <3>1 DEF BringupTypeOK, Calibrate, Register
      <3>2. CASE CreateFirmware
        <4>1. firmware' \in {"booting", "dead"}
          BY <3>2 DEF CreateFirmware
        <4>2. radio' = "deleted" /\ registered /\ UNCHANGED <<rfStatus, registered, LATCH>>
          BY <3>2 DEF CreateFirmware
        <4> QED
          BY <1>1, <4>1, <4>2 DEF BringupTypeOK
      <3> QED
        BY <2>1, <3>1, <3>2 DEF RadioTask
    <2>2. CASE OnInitDone \/ OnMgmrDone
      BY <1>1, <2>2 DEF BringupTypeOK, OnInitDone, OnMgmrDone, Post
    <2> QED
      BY <2>1, <2>2
  <1>3. (Up => Up') /\ ("InitDone" \in LATCH' => Up')
    <2>1. CASE RadioTask
      BY <2>1 DEF BringupTypeOK, Up, RadioTask, Calibrate, Register, CreateFirmware
    <2>2. CASE OnInitDone \/ OnMgmrDone
      BY <2>2 DEF Up, OnInitDone, OnMgmrDone, Post
    <2> QED
      BY <2>1, <2>2
  <1>4. HandleMeansUp'
    BY <1>1, <1>2, <1>3 DEF HandleMeansUp, Holds, Up
  <1>5. \A t \in Callers : TaskInv(t)'
    BY <1>1, <1>3 DEF TaskInv, SpentBy
  <1> QED
    BY <1>2, <1>3, <1>4, <1>5

-----------------------------------------------------------------------------

\* A call that begins: from idle, and with no handle in that task's hands.
LEMMA CallKeeps ==
  ASSUME BringupInv, NEW t \in Callers, Call(t)
  PROVE  BringupInv'
  <1> USE BringupAssumption DEF BringupAssumption, BringupInv
  <1>1. UNCHANGED <<world, LATCH, INITIALISED>>
    BY DEF Call
  <1>2. BringupTypeOK' /\ BootInv'
    BY <1>1 DEF BringupTypeOK, BootInv, Results, Call, ReturnInit, world
  <1>3. \A u \in Callers : Holds(u)' <=> Holds(u)
    BY DEF BringupTypeOK, Call, ReturnInit, Holds
  <1>4. HandleMeansUp' /\ ("InitDone" \in LATCH' => Up')
    BY <1>1, <1>3 DEF HandleMeansUp, world, Up
  <1>5. ASSUME NEW u \in Callers PROVE TaskInv(u)'
    <2>1. CASE u = t
      BY <1>1, <2>1 DEF BringupTypeOK, TaskInv, SpentBy, Call, ReturnInit, Up, world
    <2>2. CASE u # t
      BY <1>1, <2>2 DEF BringupTypeOK, TaskInv, SpentBy, Call, ReturnInit, Up, world
    <2> QED
      BY <2>1, <2>2
  <1> QED
    BY <1>2, <1>4, <1>5

\* The waits of a call: the clock stays within its bound, and a call goes past
\* the second only on a firmware that has booted.
LEMMA WaitKeeps ==
  ASSUME BringupInv, NEW t \in Callers, PollRf(t) \/ WaitInit(t) \/ WaitMgmr(t)
  PROVE  BringupInv'
  <1> USE BringupAssumption DEF BringupAssumption, BringupInv
  <1>1. UNCHANGED <<world, INITIALISED>> /\ LATCH' \subseteq LATCH
    BY DEF PollRf, WaitInit, WaitMgmr
  <1>2. /\ BringupTypeOK'
        /\ SpentBy(t)'
    <2>1. CASE PollRf(t)
      BY <1>1, <2>1 DEF BringupTypeOK, TaskInv, SpentBy, Results, PollRf, ReturnInit, Advance, Sleep, world
    <2>2. CASE WaitInit(t)
      BY <1>1, <2>2 DEF BringupTypeOK, TaskInv, SpentBy, Results, WaitInit, ReturnInit, Advance, Sleep, world
    <2>3. CASE WaitMgmr(t)
      BY <1>1, <2>3 DEF BringupTypeOK, TaskInv, SpentBy, Results, WaitMgmr, ReturnInit, Advance, Sleep, world
    <2> QED
      BY <2>1, <2>2, <2>3
  <1>3. \A u \in Callers : Holds(u)' <=> Holds(u)
    BY DEF BringupTypeOK, TaskInv, Holds, PollRf, WaitInit, WaitMgmr, ReturnInit, Advance, Sleep
  <1>4. HandleMeansUp' /\ BootInv' /\ ("InitDone" \in LATCH' => Up')
    BY <1>1, <1>3 DEF HandleMeansUp, BootInv, world, Up
  <1>5. ASSUME NEW u \in Callers PROVE TaskInv(u)'
    <2>1. CASE u = t
      BY <1>1, <1>2, <2>1 DEF BringupTypeOK, TaskInv, PollRf, WaitInit, WaitMgmr,
         ReturnInit, Advance, Sleep, Up, world
    <2>2. CASE u # t
      BY <1>1, <2>2 DEF BringupTypeOK, TaskInv, SpentBy, PollRf, WaitInit, WaitMgmr,
         ReturnInit, Advance, Sleep, Up, world
    <2> QED
      BY <2>1, <2>2
  <1> QED
    BY <1>2, <1>4, <1>5

\* The swap: the first call to reach it gets the handle, every other is told
\* that there is one.
LEMMA ClaimKeeps ==
  ASSUME BringupInv, NEW t \in Callers, Claim(t)
  PROVE  BringupInv'
  <1> USE BringupAssumption DEF BringupAssumption, BringupInv
  <1>1. UNCHANGED <<world, LATCH>> /\ INITIALISED'
    BY DEF Claim
  <1>2. BringupTypeOK' /\ BootInv'
    BY <1>1 DEF BringupTypeOK, BootInv, Results, Claim, ReturnInit, world
  <1>3. Up /\ registered /\ ~Holds(t)
    BY DEF TaskInv, Claim, BootInv, Up, Holds
  <1>4. \A u \in Callers : Holds(u)' <=> (IF u = t THEN ~INITIALISED ELSE Holds(u))
    BY <1>3 DEF BringupTypeOK, Claim, ReturnInit, Holds
  <1>5. HandleMeansUp'
    BY <1>1, <1>3, <1>4 DEF HandleMeansUp, Up, world
  <1>6. ASSUME NEW u \in Callers PROVE TaskInv(u)'
    <2>1. CASE u = t
      BY <1>1, <2>1 DEF BringupTypeOK, TaskInv, SpentBy, Claim, ReturnInit
    <2>2. CASE u # t
      BY <1>1, <2>2 DEF BringupTypeOK, TaskInv, SpentBy, Claim, ReturnInit, Up, world
    <2> QED
      BY <2>1, <2>2
  <1> QED
    BY <1>1, <1>2, <1>5, <1>6 DEF Up, world

-----------------------------------------------------------------------------

LEMMA NextKeeps == BringupInv /\ [BringupNext]_bringupVars => BringupInv'
  <1> SUFFICES ASSUME BringupInv, [BringupNext]_bringupVars PROVE BringupInv'
    OBVIOUS
  <1>1. CASE RadioTask \/ OnInitDone \/ OnMgmrDone
    BY <1>1, WorldKeeps
  <1>2. ASSUME NEW t \in Callers, Call(t) PROVE BringupInv'
    BY <1>2, CallKeeps
  <1>3. ASSUME NEW t \in Callers, InitStep(t) PROVE BringupInv'
    BY <1>3, WaitKeeps, ClaimKeeps DEF InitStep
  <1>4. CASE UNCHANGED bringupVars
    BY <1>4 DEF bringupVars, BringupInv, BringupTypeOK, BootInv, HandleMeansUp, Holds,
       TaskInv, SpentBy, Up
  <1> QED
    BY <1>1, <1>2, <1>3, <1>4 DEF BringupNext, Settled

LEMMA InvariantHolds == BringupSpec => []BringupInv
  BY InitHolds, NextKeeps, PTL DEF BringupSpec

\* Every variable of Bringup keeps its type; in particular no wait lasts longer
\* than the timeout and no call of init_with_timeout longer than three of them.
THEOREM BringupTypes == BringupSpec => []BringupTypeOK
  <1>1. BringupInv => BringupTypeOK
    BY DEF BringupInv
  <1> QED
    BY <1>1, InvariantHolds, PTL

\* However many tasks call Wifi::init, and however often, one of them at most
\* holds the handle, INITIALISED says whether one does, and the firmware has
\* booted, with its event filter installed, by then.
THEOREM HandleIsProof == BringupSpec => []HandleMeansUp
  <1>1. BringupInv => HandleMeansUp
    BY DEF BringupInv
  <1> QED
    BY <1>1, InvariantHolds, PTL

-----------------------------------------------------------------------------
(* The console and the calls of the blobs: what a task may be doing.  The  *)
(* invariant has a part on each task alone, and one each on the lock, the  *)
(* output, the counts and the objects of Rtos.                             *)

\* The calls of all programs.
TaskCalls == UNION {UNION {ToSet(p.calls[t]) : t \in Tasks} : p \in Programs}
IsrCalls == UNION {ToSet(p.isr) : p \in Programs}

\* What a guard is taken for, outermost first.
Uses == {"line", "format", "write"}
Rank(use) == IF use = "line" THEN 1 ELSE IF use = "format" THEN 2 ELSE 3

Scanning == {"match", "free", "claim", "head", "count", "other"}
Taking == {"take", "create", "exchange", "wait"}
Reporting == {"calls", "others", "look", "swap"}

GuardSet == [for : Uses, mutex : Tasks \union {Null}]

Doing ==
  [pc : {"idle", "next", "real", "drop"} \union Scanning \union Taking \union Reporting,
   todo : Seq(TaskCalls), call : Printing, chunks : Seq(Seq(Nat)), guards : Seq(GuardSet),
   want : Uses, hand : Tasks \union {Null},
   scan : [table : Tables, len : Nat, head : Nat, at : Nat]]

\* A walk is at a slot there is, or at the end of the table.
ScanFlow(c) ==
  /\ c.pc \in Scanning => c.scan.len \in {1, Letter + 1} /\ c.scan.at \in 1 .. Slots + 1
  /\ c.pc \in (Scanning \ {"match", "other"}) \union {"look", "swap"} =>
       c.scan.at \in 1 .. Slots

\* The walk records a call of its own, with no guard to follow.
Putting(c) == c.pc \in Scanning /\ c.scan.table = "PUTCHARS"

\* A guard is on its way to be taken.
Needing(c) == c.pc \in Taking \/ (c.pc \in Scanning /\ c.scan.table # "PUTCHARS")

\* Guards nest: line, format, write, each at most once.
Ranked(g) == \A k, l \in 1 .. Len(g) : k < l => Rank(g[k].for) < Rank(g[l].for)
Below(g, use) == \A k \in 1 .. Len(g) : Rank(g[k].for) < Rank(use)

GuardFlow(c) ==
  /\ Ranked(c.guards)
  /\ Needing(c) => Below(c.guards, c.want)
  /\ c.pc \in Reporting => c.want = "line"
  /\ c.pc = "real" => /\ c.want = "write" /\ c.guards # << >>
                      /\ Last(c.guards).for = "write"
  /\ c.pc = "drop" => c.guards # << >>
  /\ c.pc = "next" \/ Putting(c) => Below(c.guards, "write")
  /\ c.pc \in Reporting \union {"idle"} => c.guards = << >>

\* There is something to write when a guard is taken for it, and nothing left
\* when the guard of the line goes.
ChunkFlow(c) ==
  /\ Needing(c) \/ c.pc \in Reporting => c.chunks # << >>
  /\ c.pc = "drop" /\ Last(c.guards).for = "line" => c.chunks = << >>
  /\ (Needing(c) \/ c.pc = "real") /\ c.want = "write" =>
       c.chunks # << >> /\ c.chunks[1] # << >>

Flow(c) == ScanFlow(c) /\ GuardFlow(c) /\ ChunkFlow(c)

CallTypes ==
  /\ isr \in Seq(IsrCalls)
  /\ ctl \in [Tasks -> Doing]

TasksFlow == \A t \in Tasks : Flow(ctl[t])

-----------------------------------------------------------------------------
(* The moves of one task, as they change what it is doing.                 *)

Steady(t) == \A u \in Tasks \ {t} : ctl'[u] = ctl[u]

\* A task that goes on elsewhere leaves the others where they are.
LEMMA Moved ==
  ASSUME CallTypes, NEW t \in Tasks, NEW c \in Doing, ctl' = [ctl EXCEPT ![t] = c],
         isr' = isr
  PROVE  CallTypes' /\ Steady(t) /\ ctl'[t] = c
  BY DEF CallTypes, Steady

LEMMA Kept ==
  ASSUME TasksFlow, NEW t \in Tasks, Steady(t), Flow(ctl'[t])
  PROVE  TasksFlow'
  BY DEF TasksFlow, Steady

LEMMA CallsPromised == \A c \in TaskCalls : Promised(c)
  BY ConsoleAssumption DEF ConsoleAssumption, TaskCalls

\* The bytes of a call.
LEMMA ChunksTyped ==
  ASSUME NEW call \in Printing
  PROVE  ChunksOf(call) \in Seq(Seq(Nat)) /\ ChunksOf(call) # << >>
  <1>1. ChunksOf(call) \in {<< <<Letter>>, <<Newline>> >>, << <<Letter, Newline>> >>,
                            << <<Letter>> >>, << <<Newline>> >>}
    BY DEF ChunksOf, Printing
  <1>2. Letter \in Nat /\ Newline \in Nat
    BY DEF Letter, Newline
  <1>3. <<Letter>> \in Seq(Nat) /\ <<Newline>> \in Seq(Nat) /\ <<Letter, Newline>> \in Seq(Nat)
    BY <1>2
  <1>4. \A S : \A a, b \in S : <<a>> \in Seq(S) /\ <<a, b>> \in Seq(S)
    OBVIOUS
  <1>5. \A a, b \in Seq(Nat) : <<a>> \in Seq(Seq(Nat)) /\ <<a, b>> \in Seq(Seq(Nat))
    BY <1>4
  <1>6. /\ << <<Letter>>, <<Newline>> >> \in Seq(Seq(Nat))
        /\ << <<Letter, Newline>> >> \in Seq(Seq(Nat))
        /\ << <<Letter>> >> \in Seq(Seq(Nat)) /\ << <<Newline>> >> \in Seq(Seq(Nat))
    BY <1>3, <1>5
  <1>7. \A a, b : <<a>> # << >> /\ <<a, b>> # << >>
    OBVIOUS
  <1>8. /\ << <<Letter>>, <<Newline>> >> # << >> /\ << <<Letter, Newline>> >> # << >>
        /\ << <<Letter>> >> # << >> /\ << <<Newline>> >> # << >>
    BY <1>7
  <1> QED
    BY <1>1, <1>6, <1>8

LEMMA InitFlows == Init => CallTypes /\ TasksFlow
  <1> SUFFICES ASSUME Init PROVE CallTypes /\ TasksFlow
    OBVIOUS
  <1>1. PICK p \in Programs : isr = p.isr /\ ctl = [t \in Tasks |-> Idle(p.calls[t])]
    BY DEF Init
  <1>2. isr \in Seq(IsrCalls)
    <2>1. isr \in Seq(ToSet(p.isr))
      BY <1>1, ConsoleAssumption DEF ConsoleAssumption
    <2>2. ToSet(p.isr) \subseteq IsrCalls
      BY DEF IsrCalls
    <2> QED
      BY <2>1, <2>2, SeqMonotonic
  <1>3. ASSUME NEW t \in Tasks
        PROVE  Idle(p.calls[t]) \in Doing /\ Flow(Idle(p.calls[t]))
    <2>1. p.calls[t] \in Seq(ToSet(p.calls[t]))
      BY ConsoleAssumption DEF ConsoleAssumption
    <2>2. ToSet(p.calls[t]) \subseteq TaskCalls
      BY DEF TaskCalls
    <2>3. p.calls[t] \in Seq(TaskCalls)
      BY <2>1, <2>2, SeqMonotonic
    <2>4. << >> \in Seq(Seq(Nat)) /\ << >> \in Seq(GuardSet)
      OBVIOUS
    <2>5. Idle(p.calls[t]) \in Doing
      BY <2>3, <2>4 DEF Idle, Doing, Printing, Uses, Tables
    <2>6. Flow(Idle(p.calls[t]))
      BY DEF Idle, Flow, ScanFlow, GuardFlow, ChunkFlow, Needing, Putting, Ranked, Below,
         Scanning, Taking, Reporting
    <2> QED
      BY <2>5, <2>6
  <1> QED
    BY <1>1, <1>2, <1>3 DEF CallTypes, TasksFlow

\* The lock and its mutexes.
LockTypes ==
  /\ LOCK \in Tasks \union {Null}
  /\ live \subseteq Tasks
  /\ mutex \in [Tasks -> [owner : Tasks \union {Null}, depth : Nat]]

LEMMA TakeLoadMoves ==
  ASSUME CallTypes, TasksFlow, LockTypes, NEW t \in Tasks, TakeLoad(t)
  PROVE  /\ CallTypes' /\ TasksFlow' /\ Steady(t)
         /\ ctl'[t] = [ctl[t] EXCEPT !.pc = IF LOCK = Null THEN "create" ELSE "wait",
                                     !.hand = LOCK]
  <1> DEFINE d == [ctl[t] EXCEPT !.pc = IF LOCK = Null THEN "create" ELSE "wait",
                                 !.hand = LOCK]
  <1>1. ctl[t] \in Doing /\ ctl[t].pc = "take" /\ Flow(ctl[t])
    BY DEF TakeLoad, At, CallTypes, TasksFlow
  <1>2. d \in Doing
    BY <1>1 DEF Doing, Taking, LockTypes
  <1>3. ctl' = [ctl EXCEPT ![t] = d] /\ isr' = isr
    BY <1>1 DEF TakeLoad
  <1>4. CallTypes' /\ Steady(t) /\ ctl'[t] = d
    BY <1>2, <1>3, Moved
  <1>5. Flow(d)
    BY <1>1 DEF Flow, ScanFlow, GuardFlow, ChunkFlow, Needing, Putting, Scanning, Taking, Reporting, Doing
  <1> QED
    BY <1>4, <1>5, Kept

LEMMA BeginMoves ==
  ASSUME CallTypes, TasksFlow, NEW t \in Tasks, Begin(t)
  PROVE  /\ CallTypes' /\ TasksFlow' /\ Steady(t)
         /\ ctl[t].guards = << >> /\ ctl'[t].guards = << >>
         /\ ctl'[t].pc \in {"take", "calls", "match", "next"}
         /\ ctl'[t].scan.table = "PUTCHARS"
         /\ ctl[t].todo # << >> /\ ctl'[t].todo = Tail(ctl[t].todo)
  <1> DEFINE call == Head(ctl[t].todo).op
             start == CASE call = "println" -> "take"
                    [] call = "report" -> "calls"
                    [] call = "putchar" /\ probed -> "match"
                    [] OTHER -> "next"
             d == [ctl[t] EXCEPT !.pc = start, !.todo = Tail(@), !.call = call,
                           !.chunks = ChunksOf(call), !.want = "line",
                           !.scan = [table |-> "PUTCHARS", len |-> Letter + 1,
                                        head |-> 0, at |-> 1]]
  <1>1. ctl[t] \in Doing /\ ctl[t].pc = "idle" /\ Flow(ctl[t])
    BY DEF Begin, At, CallTypes, TasksFlow
  <1>2. call \in Printing /\ ctl[t].todo # << >>
    BY DEF Begin
  <1>3. start \in {"take", "calls", "match", "next"}
    OBVIOUS
  <1>4. ChunksOf(call) \in Seq(Seq(Nat)) /\ ChunksOf(call) # << >>
    BY <1>2, ChunksTyped
  <1>5. Letter + 1 \in Nat
    BY DEF Letter
  <1>6. Tail(ctl[t].todo) \in Seq(TaskCalls)
    BY <1>1, <1>2 DEF Doing
  <1>7. ctl' = [ctl EXCEPT ![t] = d] /\ isr' = isr
    BY <1>1 DEF Begin
  <1> HIDE DEF start, call
  <1>8. d \in Doing
    BY <1>1, <1>2, <1>3, <1>4, <1>5, <1>6
    DEF Doing, Taking, Scanning, Reporting, Uses, Tables
  <1>9. CallTypes' /\ Steady(t) /\ ctl'[t] = d
    BY <1>7, <1>8, Moved
  <1>10. ctl[t].guards = << >>
    BY <1>1 DEF Flow, GuardFlow
  <1>11. Flow(d)
    <2>1. /\ d.pc = start /\ d.guards = << >> /\ d.want = "line" /\ d.chunks # << >>
          /\ d.scan.table = "PUTCHARS" /\ d.scan.len = Letter + 1 /\ d.scan.at = 1
      BY <1>1, <1>4, <1>10 DEF Doing
    <2> HIDE DEF d
    <2>2. ScanFlow(d)
      BY <1>3, <2>1, ConsoleAssumption DEF ScanFlow, Scanning, ConsoleAssumption
    <2>3. Ranked(d.guards) /\ \A use : Below(d.guards, use)
      BY <2>1 DEF Ranked, Below
    <2>4. GuardFlow(d)
      BY <1>3, <2>1, <2>3 DEF GuardFlow, Reporting
    <2>5. ChunkFlow(d)
      BY <1>3, <2>1 DEF ChunkFlow
    <2> QED
      BY <2>2, <2>4, <2>5 DEF Flow
  <1>12. TasksFlow'
    BY <1>9, <1>11, Kept
  <1>13. /\ d.pc = start /\ d.guards = << >> /\ d.scan.table = "PUTCHARS"
         /\ d.todo = Tail(ctl[t].todo)
    BY <1>1, <1>10 DEF Doing
  <1> HIDE DEF d
  <1> QED
    BY <1>2, <1>3, <1>9, <1>10, <1>12, <1>13

\* What the moves do to the guards a task holds.
LEMMA GuardAdded ==
  ASSUME NEW g \in Seq(GuardSet), Ranked(g), NEW use \in Uses, Below(g, use),
         NEW m \in Tasks \union {Null}
  PROVE  LET h == Append(g, [for |-> use, mutex |-> m]) IN
           /\ h \in Seq(GuardSet) /\ Ranked(h) /\ h # << >>
           /\ Len(h) = Len(g) + 1 /\ Last(h) = [for |-> use, mutex |-> m]
           /\ \A k \in 1 .. Len(g) : h[k] = g[k]
           /\ use # "write" => Below(h, "write")
  <1> DEFINE x == [for |-> use, mutex |-> m]
             h == Append(g, x)
  <1>1. x \in GuardSet /\ x.for = use
    BY DEF GuardSet
  <1> HIDE DEF x
  <1>2. /\ h \in Seq(GuardSet) /\ h # << >> /\ Len(h) = Len(g) + 1 /\ h[Len(g) + 1] = x
        /\ \A k \in 1 .. Len(g) : h[k] = g[k]
    BY <1>1
  <1>3. Len(g) \in Nat /\ \A k \in 1 .. Len(h) : k \in 1 .. Len(g) \/ k = Len(g) + 1
    BY <1>2
  <1> HIDE DEF h
  <1>4. Ranked(h)
    <2>1. SUFFICES ASSUME NEW k \in 1 .. Len(h), NEW l \in 1 .. Len(h), k < l
                   PROVE  Rank(h[k].for) < Rank(h[l].for)
      BY DEF Ranked
    <2>2. CASE l \in 1 .. Len(g)
      <3>1. k \in 1 .. Len(g)
        BY <2>1, <2>2, <1>3
      <3> QED
        BY <1>2, <2>1, <2>2, <3>1 DEF Ranked
    <2>3. CASE l = Len(g) + 1
      <3>1. k \in 1 .. Len(g)
        BY <2>1, <2>3, <1>3
      <3> QED
        BY <1>1, <1>2, <2>3, <3>1 DEF Below
    <2> QED
      BY <1>3, <2>2, <2>3
  <1>5. ASSUME use # "write" PROVE Below(h, "write")
    <2>1. Rank(use) < Rank("write")
      BY <1>5 DEF Rank, Uses
    <2>2. \A k \in 1 .. Len(g) : Rank(g[k].for) \in Int
      BY DEF Rank
    <2>3. \A k \in 1 .. Len(g) : Rank(h[k].for) < Rank("write")
      BY <1>2, <2>1, <2>2 DEF Below, Rank
    <2>4. Rank(h[Len(g) + 1].for) < Rank("write")
      BY <1>1, <1>2, <2>1
    <2> QED
      BY <1>3, <2>3, <2>4 DEF Below
  <1>6. Last(h) = x
    BY <1>2 DEF Last
  <1> QED
    BY <1>2, <1>4, <1>5, <1>6 DEF h, x

LEMMA GuardDropped ==
  ASSUME NEW g \in Seq(GuardSet), Ranked(g), g # << >>
  PROVE  /\ Front(g) \in Seq(GuardSet) /\ Ranked(Front(g)) /\ Below(Front(g), "write")
         /\ Len(g) \in Nat /\ Len(g) > 0 /\ Len(Front(g)) = Len(g) - 1
         /\ \A k \in 1 .. Len(g) - 1 : Front(g)[k] = g[k]
         /\ Last(g) = g[Len(g)] /\ Last(g) \in GuardSet
  <1>1. Len(g) \in Nat /\ Len(g) > 0 /\ g[Len(g)] \in GuardSet
    BY EmptySeq, ElementOfSeq
  <1>2. /\ Front(g) \in Seq(GuardSet) /\ Len(Front(g)) = Len(g) - 1
        /\ \A k \in 1 .. Len(g) - 1 : Front(g)[k] = g[k]
    <2>1. \A k \in 1 .. Len(g) - 1 : g[k] \in GuardSet
      BY <1>1, ElementOfSeq
    <2>2. 1 \in Int /\ Len(g) - 1 \in Int
      BY <1>1
    <2>3. /\ SubSeq(g, 1, Len(g) - 1) \in Seq(GuardSet)
          /\ Len(SubSeq(g, 1, Len(g) - 1)) = IF 1 <= Len(g) - 1 THEN Len(g) - 1 - 1 + 1 ELSE 0
          /\ \A i \in 1 .. Len(g) - 1 - 1 + 1 : SubSeq(g, 1, Len(g) - 1)[i] = g[1 + i - 1]
      BY ONLY <2>1, <2>2, SubSeqProperties
    <2> HIDE DEF Front
    <2>4. Len(Front(g)) = Len(g) - 1
      <3>1. Front(g) = SubSeq(g, 1, Len(g) - 1)
        BY DEF Front
      <3>2. Len(Front(g)) = IF 1 <= Len(g) - 1 THEN Len(g) - 1 - 1 + 1 ELSE 0
        BY <2>3, <3>1
      <3> QED
        BY <1>1, <3>2
    <2>5. ASSUME NEW k \in 1 .. Len(g) - 1 PROVE Front(g)[k] = g[k]
      <3>1. k \in 1 .. Len(g) - 1 - 1 + 1 /\ 1 + k - 1 = k
        BY <1>1
      <3> QED
        BY <2>3, <3>1 DEF Front
    <2> QED
      BY <2>3, <2>4, <2>5 DEF Front
  <1>3. Ranked(Front(g))
    <2>1. SUFFICES ASSUME NEW k \in 1 .. Len(g) - 1, NEW l \in 1 .. Len(g) - 1, k < l
                   PROVE  Rank(g[k].for) < Rank(g[l].for)
      BY <1>2 DEF Ranked
    <2> QED
      BY <1>1, <2>1 DEF Ranked
  <1>4. Below(Front(g), "write")
    <2>1. SUFFICES ASSUME NEW k \in 1 .. Len(g) - 1
                   PROVE  Rank(g[k].for) < Rank("write")
      BY <1>2 DEF Below
    <2>2. Rank(g[k].for) < Rank(g[Len(g)].for)
      BY <1>1 DEF Ranked
    <2> QED
      BY <2>2 DEF Rank
  <1> QED
    BY <1>1, <1>2, <1>3, <1>4 DEF Last

\* A format string is no format's: what is held besides is the line.
LEMMA FormatFits ==
  ASSUME NEW g \in Seq(GuardSet), Ranked(g), Below(g, "write"),
         g = << >> \/ Last(g).for # "format"
  PROVE  Below(g, "format")
  <1>1. SUFFICES ASSUME NEW k \in 1 .. Len(g) PROVE Rank(g[k].for) < Rank("format")
    BY DEF Below
  <1>2. Len(g) \in Nat /\ Len(g) \in 1 .. Len(g) /\ g # << >>
    BY EmptySeq
  <1>3. g[Len(g)] \in GuardSet
    BY <1>2, ElementOfSeq
  <1>4. g[Len(g)].for = "line"
    BY <1>2, <1>3 DEF Below, Last, GuardSet, Uses, Rank
  <1>5. k = Len(g) \/ Rank(g[k].for) < Rank(g[Len(g)].for)
    BY <1>2 DEF Ranked
  <1> QED
    BY <1>4, <1>5 DEF Rank

\* There are three of them at most.
LEMMA FewGuards ==
  ASSUME NEW g \in Seq(GuardSet), Ranked(g)
  PROVE  Len(g) <= 3
  <1>1. Len(g) \in Nat
    OBVIOUS
  <1>2. SUFFICES ASSUME Len(g) > 3 PROVE FALSE
    BY <1>1
  <1>3. 1 \in 1 .. Len(g) /\ 2 \in 1 .. Len(g) /\ 3 \in 1 .. Len(g) /\ 4 \in 1 .. Len(g)
    BY <1>1, <1>2
  <1>4. /\ Rank(g[1].for) < Rank(g[2].for) /\ Rank(g[2].for) < Rank(g[3].for)
        /\ Rank(g[3].for) < Rank(g[4].for)
    BY <1>3 DEF Ranked
  <1> QED
    BY <1>4 DEF Rank

\* A guard is taken: over a mutex, or over nothing.
LEMMA GuardOverMoves ==
  ASSUME CallTypes, TasksFlow, NEW t \in Tasks, NEW h \in Tasks \union {Null},
         ctl[t].pc \in Taking, GuardOver(t, h), isr' = isr
  PROVE  LET c == ctl[t] d == ctl'[t] IN
         /\ CallTypes' /\ TasksFlow' /\ Steady(t)
         /\ d.guards = Append(c.guards, [for |-> c.want, mutex |-> h])
         /\ d.pc \in {"real", "next"} /\ d.todo = c.todo /\ d.chunks = c.chunks
         /\ d.scan = c.scan
  <1> DEFINE c == ctl[t]
             g == Append(c.guards, [for |-> c.want, mutex |-> h])
             d == [c EXCEPT !.pc = Under(c.want), !.hand = Null, !.guards = g]
  <1>1. c \in Doing /\ c.pc \in Taking /\ Flow(c)
    BY DEF CallTypes, TasksFlow
  <1>2. /\ c.guards \in Seq(GuardSet) /\ c.want \in Uses /\ Ranked(c.guards)
        /\ Below(c.guards, c.want) /\ c.chunks # << >>
        /\ c.want = "write" => c.chunks[1] # << >>
    BY <1>1 DEF Doing, Flow, GuardFlow, ChunkFlow, Needing
  <1>3. /\ g \in Seq(GuardSet) /\ Ranked(g) /\ g # << >> /\ Last(g).for = c.want
        /\ c.want # "write" => Below(g, "write")
    BY <1>2, GuardAdded
  <1>4. ctl' = [ctl EXCEPT ![t] = d]
    BY <1>1 DEF GuardOver
  <1> HIDE DEF g
  <1>5. d \in Doing
    BY <1>1, <1>3 DEF Doing, Under
  <1>6. /\ d.pc = Under(c.want) /\ d.guards = g /\ d.want = c.want /\ d.chunks = c.chunks
        /\ d.scan = c.scan /\ d.todo = c.todo
    BY <1>1 DEF Doing
  <1>7. CallTypes' /\ Steady(t) /\ ctl'[t] = d
    BY <1>4, <1>5, Moved
  <1> HIDE DEF c, d
  <1>8. Flow(d)
    BY <1>2, <1>3, <1>6 DEF Flow, ScanFlow, GuardFlow, ChunkFlow, Needing, Putting, Under,
       Scanning, Taking, Reporting
  <1>9. TasksFlow'
    BY <1>7, <1>8, Kept
  <1> QED
    BY <1>6, <1>7, <1>9 DEF Under, c, g

\* The steps of printing that leave the guards alone.
LEMMA FormatMoves ==
  ASSUME CallTypes, TasksFlow, NEW t \in Tasks, Format(t)
  PROVE  LET c == ctl[t] d == ctl'[t] IN
         /\ CallTypes' /\ TasksFlow' /\ Steady(t)
         /\ c.pc = "next" /\ d.pc = "match" /\ d.scan.table = "FMTS"
         /\ d.guards = c.guards /\ d.todo = c.todo /\ d.chunks = c.chunks
  <1> DEFINE c == ctl[t]
             d == [c EXCEPT !.pc = "match", !.want = "format",
                            !.scan = [table |-> "FMTS", len |-> 1, head |-> 1, at |-> 1]]
  <1>1. c \in Doing /\ c.pc = "next" /\ Flow(c) /\ c.chunks # << >> /\ ~Formatting(t)
    BY DEF Format, At, CallTypes, TasksFlow
  <1>2. c.guards \in Seq(GuardSet) /\ Ranked(c.guards) /\ Below(c.guards, "write")
    BY <1>1 DEF Doing, Flow, GuardFlow
  <1>3. Below(c.guards, "format")
    BY <1>1, <1>2, FormatFits DEF Formatting
  <1>4. ctl' = [ctl EXCEPT ![t] = d] /\ isr' = isr
    BY <1>1 DEF Format
  <1>5. d \in Doing
    BY <1>1 DEF Doing, Scanning, Uses, Tables
  <1>6. /\ d.pc = "match" /\ d.guards = c.guards /\ d.want = "format" /\ d.chunks = c.chunks
        /\ d.scan = [table |-> "FMTS", len |-> 1, head |-> 1, at |-> 1] /\ d.todo = c.todo
    BY <1>1 DEF Doing
  <1>7. CallTypes' /\ Steady(t) /\ ctl'[t] = d
    BY <1>4, <1>5, Moved
  <1> HIDE DEF c, d
  <1>8. Flow(d)
    BY <1>1, <1>2, <1>3, <1>6, ConsoleAssumption
    DEF Flow, ScanFlow, GuardFlow, ChunkFlow, Needing, Putting, Scanning, Taking, Reporting,
        ConsoleAssumption
  <1>9. TasksFlow'
    BY <1>7, <1>8, Kept
  <1> QED
    BY <1>1, <1>6, <1>7, <1>9 DEF c

LEMMA WriteMoves ==
  ASSUME CallTypes, TasksFlow, NEW t \in Tasks, Write(t)
  PROVE  LET c == ctl[t] d == ctl'[t] IN
         /\ CallTypes' /\ TasksFlow' /\ Steady(t)
         /\ c.pc = "next" /\ d.pc = (IF probed THEN "match" ELSE "take")
         /\ d.scan.table = "PROBE"
         /\ d.guards = c.guards /\ d.todo = c.todo /\ d.chunks = c.chunks
  <1> DEFINE c == ctl[t]
             scan == [table |-> "PROBE", len |-> 1, head |-> Head(Head(c.chunks)), at |-> 1]
             d == [c EXCEPT !.pc = IF probed THEN "match" ELSE "take", !.want = "write",
                            !.scan = scan]
  <1>1. /\ c \in Doing /\ c.pc = "next" /\ Flow(c) /\ c.chunks # << >>
        /\ Head(c.chunks) # << >>
    BY DEF Write, At, CallTypes, TasksFlow
  <1>2. Below(c.guards, "write") /\ Ranked(c.guards) /\ c.chunks \in Seq(Seq(Nat))
    BY <1>1 DEF Doing, Flow, GuardFlow
  <1>3. Head(c.chunks) \in Seq(Nat) /\ Head(c.chunks) = c.chunks[1]
    BY <1>1, <1>2
  <1>4. Head(Head(c.chunks)) \in Nat
    BY <1>1, <1>3
  <1>5. ctl' = [ctl EXCEPT ![t] = d] /\ isr' = isr
    BY <1>1 DEF Write
  <1>6. d \in Doing
    BY <1>1, <1>4 DEF Doing, Scanning, Taking, Uses, Tables
  <1>7. /\ d.pc = (IF probed THEN "match" ELSE "take") /\ d.guards = c.guards
        /\ d.want = "write" /\ d.chunks = c.chunks /\ d.scan = scan /\ d.todo = c.todo
    BY <1>1 DEF Doing
  <1>8. CallTypes' /\ Steady(t) /\ ctl'[t] = d
    BY <1>5, <1>6, Moved
  <1>9. scan.table = "PROBE" /\ scan.len = 1 /\ scan.at = 1
    OBVIOUS
  <1> HIDE DEF c, d, scan
  <1>10. Flow(d)
    BY <1>1, <1>2, <1>3, <1>7, <1>9, ConsoleAssumption
    DEF Flow, ScanFlow, GuardFlow, ChunkFlow, Needing, Putting, Scanning, Taking, Reporting,
        ConsoleAssumption
  <1>11. TasksFlow'
    BY <1>8, <1>10, Kept
  <1> QED
    BY <1>1, <1>7, <1>8, <1>9, <1>11 DEF c

LEMMA RealMoves ==
  ASSUME CallTypes, TasksFlow, NEW t \in Tasks, Real(t)
  PROVE  LET c == ctl[t] d == ctl'[t] IN
         /\ CallTypes' /\ TasksFlow' /\ Steady(t)
         /\ c.pc = "real" /\ d.pc = "drop" /\ c.chunks # << >> /\ d.chunks # << >>
         /\ c.guards # << >> /\ c.guards \in Seq(GuardSet)
         /\ d.guards = c.guards /\ d.todo = c.todo /\ d.scan = c.scan
  <1> DEFINE c == ctl[t]
             rest == [c.chunks EXCEPT ![1] = Tail(@)]
             d == [c EXCEPT !.pc = "drop", !.chunks = rest]
  <1>1. c \in Doing /\ c.pc = "real" /\ Flow(c) /\ c.chunks \in Seq(Seq(Nat))
    BY DEF Real, At, CallTypes, TasksFlow, Doing
  <1>2. /\ c.chunks # << >> /\ c.chunks[1] # << >> /\ c.want = "write"
        /\ c.guards # << >> /\ Last(c.guards).for = "write" /\ Ranked(c.guards)
    BY <1>1 DEF Flow, GuardFlow, ChunkFlow
  <1>3. 1 \in 1 .. Len(c.chunks) /\ c.chunks[1] \in Seq(Nat)
    BY <1>1, <1>2
  <1>4. Tail(c.chunks[1]) \in Seq(Nat)
    BY <1>2, <1>3
  <1>5. rest \in Seq(Seq(Nat)) /\ Len(rest) = Len(c.chunks)
    BY <1>1, <1>3, <1>4, ExceptSeq
  <1>6. rest # << >>
    BY <1>3, <1>5
  <1>7. ctl' = [ctl EXCEPT ![t] = d] /\ isr' = isr
    BY <1>1 DEF Real
  <1> HIDE DEF rest
  <1>8. d \in Doing
    BY <1>1, <1>5 DEF Doing
  <1>9. /\ d.pc = "drop" /\ d.guards = c.guards
        /\ d.want = c.want /\ d.chunks = rest /\ d.scan = c.scan /\ d.todo = c.todo
    BY <1>1 DEF Doing
  <1>10. CallTypes' /\ Steady(t) /\ ctl'[t] = d
    BY <1>7, <1>8, Moved
  <1>11. c.guards \in Seq(GuardSet)
    BY <1>1 DEF Doing
  <1> HIDE DEF c, d
  <1>12. Flow(d)
    BY <1>2, <1>9 DEF Flow, ScanFlow, GuardFlow, ChunkFlow, Needing, Putting,
       Scanning, Taking, Reporting
  <1>13. TasksFlow'
    BY <1>10, <1>12, Kept
  <1> QED
    BY <1>1, <1>2, <1>6, <1>9, <1>10, <1>11, <1>13 DEF c

LEMMA EndChunkMoves ==
  ASSUME CallTypes, TasksFlow, NEW t \in Tasks, EndChunk(t)
  PROVE  LET c == ctl[t] d == ctl'[t] IN
         /\ CallTypes' /\ TasksFlow' /\ Steady(t)
         /\ c.pc = "next" /\ d.pc \in {"next", "drop"} /\ c.chunks # << >>
         /\ d.guards = c.guards /\ d.todo = c.todo /\ d.scan = c.scan
  <1> DEFINE c == ctl[t]
             d == [c EXCEPT !.chunks = Tail(@), !.pc = IF Formatting(t) THEN "drop" ELSE @]
  <1>1. c \in Doing /\ c.pc = "next" /\ Flow(c) /\ c.chunks # << >>
    BY DEF EndChunk, At, CallTypes, TasksFlow
  <1>2. Tail(c.chunks) \in Seq(Seq(Nat))
    BY <1>1 DEF Doing
  <1>3. ctl' = [ctl EXCEPT ![t] = d] /\ isr' = isr
    BY <1>1 DEF EndChunk
  <1>4. d \in Doing
    BY <1>1, <1>2 DEF Doing
  <1>5. /\ d.pc = (IF Formatting(t) THEN "drop" ELSE "next") /\ d.guards = c.guards
        /\ d.want = c.want /\ d.scan = c.scan /\ d.todo = c.todo
    BY <1>1 DEF Doing
  <1>6. CallTypes' /\ Steady(t) /\ ctl'[t] = d
    BY <1>3, <1>4, Moved
  <1>7. Formatting(t) => c.guards # << >> /\ Last(c.guards).for = "format"
    BY DEF Formatting
  <1> HIDE DEF c, d
  <1>8. Flow(d)
    BY <1>1, <1>5, <1>7 DEF Flow, ScanFlow, GuardFlow, ChunkFlow, Needing, Putting,
       Scanning, Taking, Reporting
  <1>9. TasksFlow'
    BY <1>6, <1>8, Kept
  <1> QED
    BY <1>1, <1>5, <1>6, <1>9 DEF c

LEMMA EndCallMoves ==
  ASSUME CallTypes, TasksFlow, NEW t \in Tasks, EndCall(t)
  PROVE  LET c == ctl[t] d == ctl'[t] IN
         /\ CallTypes' /\ TasksFlow' /\ Steady(t)
         /\ c.pc = "next" /\ d.pc \in {"idle", "drop"}
         /\ d.guards = c.guards /\ d.todo = c.todo /\ d.scan = c.scan /\ d.chunks = c.chunks
  <1> DEFINE c == ctl[t]
             d == [c EXCEPT !.pc = IF c.guards = << >> THEN "idle" ELSE "drop"]
  <1>1. c \in Doing /\ c.pc = "next" /\ Flow(c) /\ c.chunks = << >>
    BY DEF EndCall, At, CallTypes, TasksFlow
  <1>2. ctl' = [ctl EXCEPT ![t] = d] /\ isr' = isr
    BY <1>1 DEF EndCall, Goto
  <1>3. d \in Doing
    BY <1>1 DEF Doing
  <1>4. /\ d.pc = (IF c.guards = << >> THEN "idle" ELSE "drop") /\ d.guards = c.guards
        /\ d.want = c.want /\ d.scan = c.scan /\ d.todo = c.todo /\ d.chunks = c.chunks
    BY <1>1 DEF Doing
  <1>5. CallTypes' /\ Steady(t) /\ ctl'[t] = d
    BY <1>2, <1>3, Moved
  <1> HIDE DEF c, d
  <1>6. Flow(d)
    BY <1>1, <1>4 DEF Flow, ScanFlow, GuardFlow, ChunkFlow, Needing, Putting,
       Scanning, Taking, Reporting
  <1>7. TasksFlow'
    BY <1>5, <1>6, Kept
  <1> QED
    BY <1>1, <1>4, <1>5, <1>7 DEF c

LEMMA DropMoves ==
  ASSUME CallTypes, TasksFlow, NEW t \in Tasks, Drop(t)
  PROVE  LET c == ctl[t] d == ctl'[t] IN
         /\ CallTypes' /\ TasksFlow' /\ Steady(t)
         /\ c.pc = "drop" /\ d.pc = "next" /\ c.guards \in Seq(GuardSet) /\ c.guards # << >>
         /\ Ranked(c.guards) /\ (Last(c.guards).for = "line" => c.chunks = << >>)
         /\ d.guards = Front(c.guards)
         /\ d.todo = c.todo /\ d.scan = c.scan /\ d.chunks = c.chunks
  <1> DEFINE c == ctl[t]
             d == [c EXCEPT !.guards = Front(@), !.pc = "next"]
  <1>1. c \in Doing /\ c.pc = "drop" /\ Flow(c)
    BY DEF Drop, At, CallTypes, TasksFlow
  <1>2. /\ c.guards \in Seq(GuardSet) /\ c.guards # << >> /\ Ranked(c.guards)
        /\ Last(c.guards).for = "line" => c.chunks = << >>
    BY <1>1 DEF Doing, Flow, GuardFlow, ChunkFlow
  <1>3. Front(c.guards) \in Seq(GuardSet) /\ Ranked(Front(c.guards))
        /\ Below(Front(c.guards), "write")
    BY <1>2, GuardDropped
  <1>4. ctl' = [ctl EXCEPT ![t] = d] /\ isr' = isr
    BY <1>1 DEF Drop
  <1>5. d \in Doing
    BY <1>1, <1>3 DEF Doing
  <1>6. /\ d.pc = "next" /\ d.guards = Front(c.guards)
        /\ d.want = c.want /\ d.scan = c.scan /\ d.todo = c.todo /\ d.chunks = c.chunks
    BY <1>1 DEF Doing
  <1>7. CallTypes' /\ Steady(t) /\ ctl'[t] = d
    BY <1>4, <1>5, Moved
  <1> HIDE DEF c, d
  <1>8. Flow(d)
    BY <1>3, <1>6 DEF Flow, ScanFlow, GuardFlow, ChunkFlow, Needing, Putting,
       Scanning, Taking, Reporting
  <1>9. TasksFlow'
    BY <1>7, <1>8, Kept
  <1> QED
    BY <1>1, <1>2, <1>6, <1>7, <1>9 DEF c

\* The steps towards a mutex.
LEMMA CreateMoves ==
  ASSUME CallTypes, TasksFlow, NEW t \in Tasks, Create(t)
  PROVE  LET c == ctl[t] d == ctl'[t] IN
         /\ CallTypes' /\ TasksFlow' /\ Steady(t)
         /\ c.pc = "create" /\ d.pc = "exchange"
         /\ d.guards = c.guards /\ d.todo = c.todo /\ d.scan = c.scan /\ d.chunks = c.chunks
  <1> DEFINE c == ctl[t]
             d == [c EXCEPT !.pc = "exchange"]
  <1>1. c \in Doing /\ c.pc = "create" /\ Flow(c)
    BY DEF Create, At, CallTypes, TasksFlow
  <1>2. ctl' = [ctl EXCEPT ![t] = d] /\ isr' = isr
    BY <1>1 DEF Create, Goto
  <1>3. d \in Doing
    BY <1>1 DEF Doing, Taking
  <1>4. /\ d.pc = "exchange" /\ d.guards = c.guards
        /\ d.want = c.want /\ d.scan = c.scan /\ d.todo = c.todo /\ d.chunks = c.chunks
    BY <1>1 DEF Doing
  <1>5. CallTypes' /\ Steady(t) /\ ctl'[t] = d
    BY <1>2, <1>3, Moved
  <1> HIDE DEF c, d
  <1>6. Flow(d)
    BY <1>1, <1>4 DEF Flow, ScanFlow, GuardFlow, ChunkFlow, Needing, Putting,
       Scanning, Taking, Reporting
  <1>7. TasksFlow'
    BY <1>5, <1>6, Kept
  <1> QED
    BY <1>1, <1>4, <1>5, <1>7 DEF c

LEMMA ExchangeMoves ==
  ASSUME CallTypes, TasksFlow, LockTypes, NEW t \in Tasks, Exchange(t)
  PROVE  LET c == ctl[t] d == ctl'[t] IN
         /\ CallTypes' /\ TasksFlow' /\ Steady(t)
         /\ c.pc = "exchange" /\ d.pc = "wait" /\ d.hand = LOCK'
         /\ d.guards = c.guards /\ d.todo = c.todo /\ d.scan = c.scan /\ d.chunks = c.chunks
  <1> DEFINE c == ctl[t]
             d == [c EXCEPT !.pc = "wait", !.hand = LOCK']
  <1>1. c \in Doing /\ c.pc = "exchange" /\ Flow(c)
    BY DEF Exchange, At, CallTypes, TasksFlow
  <1>2. ctl' = [ctl EXCEPT ![t] = d] /\ isr' = isr
    BY <1>1 DEF Exchange
  <1>3. LOCK' \in Tasks \union {Null}
    BY DEF Exchange, LockTypes
  <1>4. d \in Doing
    BY <1>1, <1>3 DEF Doing, Taking
  <1>5. /\ d.pc = "wait" /\ d.guards = c.guards /\ d.hand = LOCK'
        /\ d.want = c.want /\ d.scan = c.scan /\ d.todo = c.todo /\ d.chunks = c.chunks
    BY <1>1 DEF Doing
  <1>6. CallTypes' /\ Steady(t) /\ ctl'[t] = d
    BY <1>2, <1>4, Moved
  <1> HIDE DEF c, d
  <1>7. Flow(d)
    BY <1>1, <1>5 DEF Flow, ScanFlow, GuardFlow, ChunkFlow, Needing, Putting,
       Scanning, Taking, Reporting
  <1>8. TasksFlow'
    BY <1>6, <1>7, Kept
  <1> QED
    BY <1>1, <1>5, <1>6, <1>8 DEF c

\* The tables of the probe.
Slot == [len : {0, 1, Letter + 1}, head : Nat, count : Nat]

TableTypes ==
  /\ probed \in BOOLEAN
  /\ slots \in [Tables -> [1 .. Slots -> Slot]]
  /\ other \in [Tables -> Nat]
  /\ CALLS \in Nat /\ taken \in Nat /\ summed \in Nat

\* The steps of a walk.
LEMMA MatchMoves ==
  ASSUME CallTypes, TasksFlow, NEW t \in Tasks, Match(t)
  PROVE  LET c == ctl[t] d == ctl'[t] IN
         /\ CallTypes' /\ TasksFlow' /\ Steady(t)
         /\ c.pc = "match" /\ c.scan.table \in Tables /\ c.scan.at \in 1 .. Slots + 1
         /\ d.pc \in {"other", "count", "free"} /\ d.scan = c.scan
         /\ d.guards = c.guards /\ d.todo = c.todo /\ d.chunks = c.chunks
  <1> DEFINE c == ctl[t]
             to == IF c.scan.at > Slots THEN "other"
                   ELSE IF Matches(slots[c.scan.table][c.scan.at], c.scan.table, c.scan.len,
                                   c.scan.head) THEN "count"
                   ELSE "free"
             d == [c EXCEPT !.pc = to]
  <1>1. c \in Doing /\ c.pc = "match" /\ Flow(c)
    BY DEF Match, At, CallTypes, TasksFlow
  <1>2. /\ c.scan \in [table : Tables, len : Nat, head : Nat, at : Nat]
        /\ c.scan.table \in Tables /\ c.scan.at \in 1 .. Slots + 1
    BY <1>1, ConsoleAssumption DEF Doing, Flow, ScanFlow, Scanning, ConsoleAssumption
  <1>3. to \in {"other", "count", "free"} /\ (c.scan.at > Slots <=> to = "other")
    OBVIOUS
  <1>4. ctl' = [ctl EXCEPT ![t] = d] /\ isr' = isr
    BY <1>1 DEF Match, Goto, Recorded
  <1> HIDE DEF to
  <1>5. d \in Doing
    BY <1>1, <1>2, <1>3 DEF Doing, Scanning, Taking, Reporting
  <1>6. /\ d.pc = to /\ d.guards = c.guards /\ d.want = c.want
        /\ d.scan = c.scan /\ d.todo = c.todo /\ d.chunks = c.chunks
    BY <1>1 DEF Doing
  <1>7. CallTypes' /\ Steady(t) /\ ctl'[t] = d
    BY <1>4, <1>5, Moved
  <1> HIDE DEF c, d
  <1>8. Flow(d)
    BY <1>1, <1>2, <1>3, <1>6, ConsoleAssumption
    DEF Flow, ScanFlow, GuardFlow, ChunkFlow, Needing, Putting, Scanning, Taking, Reporting,
        ConsoleAssumption
  <1>9. TasksFlow'
    BY <1>7, <1>8, Kept
  <1> QED
    BY <1>1, <1>2, <1>3, <1>6, <1>7, <1>9 DEF c

LEMMA FreeMoves ==
  ASSUME CallTypes, TasksFlow, NEW t \in Tasks, Free(t)
  PROVE  LET c == ctl[t] d == ctl'[t] IN
         /\ CallTypes' /\ TasksFlow' /\ Steady(t)
         /\ c.pc = "free" /\ c.scan.table \in Tables /\ c.scan.at \in 1 .. Slots
         /\ d.pc \in {"claim", "match"} /\ d.scan.table = c.scan.table
         /\ d.guards = c.guards /\ d.todo = c.todo /\ d.chunks = c.chunks
  <1> DEFINE c == ctl[t]
             free == slots[c.scan.table][c.scan.at].len = 0
             to == IF free THEN "claim" ELSE "match"
             at == IF free THEN c.scan.at ELSE c.scan.at + 1
             d == [c EXCEPT !.pc = to, !.scan.at = at]
  <1>1. c \in Doing /\ c.pc = "free" /\ Flow(c)
    BY DEF Free, At, CallTypes, TasksFlow
  <1>2. /\ c.scan \in [table : Tables, len : Nat, head : Nat, at : Nat]
        /\ c.scan.table \in Tables /\ c.scan.at \in 1 .. Slots
    BY <1>1, ConsoleAssumption DEF Doing, Flow, ScanFlow, Scanning, ConsoleAssumption
  <1>3. /\ to \in {"claim", "match"} /\ at \in Nat /\ at \in 1 .. Slots + 1
        /\ to = "claim" => at \in 1 .. Slots
    BY <1>2, ConsoleAssumption DEF ConsoleAssumption
  <1>4. ctl' = [ctl EXCEPT ![t] = d] /\ isr' = isr
    <2>1. CASE free
      <3>1. d = [c EXCEPT !.pc = "claim"]
        BY <1>1, <1>2, <2>1 DEF Doing
      <3>2. ctl' = [ctl EXCEPT ![t].pc = "claim"] /\ isr' = isr
        BY <2>1 DEF Free, Goto
      <3> QED
        BY <3>1, <3>2
    <2>2. CASE ~free
      BY <1>1, <2>2 DEF Free
    <2> QED
      BY <2>1, <2>2
  <1> HIDE DEF to, at
  <1>5. d \in Doing
    BY <1>1, <1>2, <1>3 DEF Doing, Scanning, Taking, Reporting
  <1>6. /\ d.pc = to /\ d.guards = c.guards /\ d.want = c.want
        /\ d.scan = [c.scan EXCEPT !.at = at] /\ d.todo = c.todo /\ d.chunks = c.chunks
    BY <1>1 DEF Doing
  <1>7. CallTypes' /\ Steady(t) /\ ctl'[t] = d
    BY <1>4, <1>5, Moved
  <1> HIDE DEF c, d
  <1>8. Flow(d)
    BY <1>1, <1>2, <1>3, <1>6, ConsoleAssumption
    DEF Flow, ScanFlow, GuardFlow, ChunkFlow, Needing, Putting, Scanning, Taking, Reporting,
        ConsoleAssumption
  <1>9. TasksFlow'
    BY <1>7, <1>8, Kept
  <1> QED
    BY <1>1, <1>2, <1>3, <1>6, <1>7, <1>9 DEF c

LEMMA ClaimLenMoves ==
  ASSUME CallTypes, TasksFlow, NEW t \in Tasks, ClaimLen(t)
  PROVE  LET c == ctl[t] d == ctl'[t] IN
         /\ CallTypes' /\ TasksFlow' /\ Steady(t)
         /\ c.pc = "claim" /\ c.scan.table \in Tables /\ c.scan.at \in 1 .. Slots
         /\ c.scan.len \in {1, Letter + 1}
         /\ d.pc = "head" /\ d.scan = c.scan
         /\ d.guards = c.guards /\ d.todo = c.todo /\ d.chunks = c.chunks
  <1> DEFINE c == ctl[t]
             d == [c EXCEPT !.pc = "head"]
  <1>1. c \in Doing /\ c.pc = "claim" /\ Flow(c)
    BY DEF ClaimLen, At, CallTypes, TasksFlow
  <1>2. /\ c.scan \in [table : Tables, len : Nat, head : Nat, at : Nat]
        /\ c.scan.table \in Tables /\ c.scan.at \in 1 .. Slots
         /\ c.scan.len \in {1, Letter + 1}
    BY <1>1, ConsoleAssumption DEF Doing, Flow, ScanFlow, Scanning, ConsoleAssumption
  <1>4. ctl' = [ctl EXCEPT ![t] = d] /\ isr' = isr
    BY <1>1 DEF ClaimLen, Goto, Recorded
  <1>5. d \in Doing
    BY <1>1, <1>2 DEF Doing, Scanning, Taking, Reporting
  <1>6. /\ d.pc = "head" /\ d.guards = c.guards /\ d.want = c.want
        /\ d.scan = c.scan /\ d.todo = c.todo /\ d.chunks = c.chunks
    BY <1>1 DEF Doing
  <1>7. CallTypes' /\ Steady(t) /\ ctl'[t] = d
    BY <1>4, <1>5, Moved
  <1> HIDE DEF c, d
  <1>8. Flow(d)
    BY <1>1, <1>2, <1>6, ConsoleAssumption
    DEF Flow, ScanFlow, GuardFlow, ChunkFlow, Needing, Putting, Scanning, Taking, Reporting,
        ConsoleAssumption
  <1>9. TasksFlow'
    BY <1>7, <1>8, Kept
  <1> QED
    BY <1>1, <1>2, <1>6, <1>7, <1>9 DEF c

LEMMA ClaimHeadMoves ==
  ASSUME CallTypes, TasksFlow, NEW t \in Tasks, ClaimHead(t)
  PROVE  LET c == ctl[t] d == ctl'[t] IN
         /\ CallTypes' /\ TasksFlow' /\ Steady(t)
         /\ c.pc = "head" /\ c.scan.table \in Tables /\ c.scan.at \in 1 .. Slots
         /\ d.pc = "count" /\ d.scan = c.scan
         /\ d.guards = c.guards /\ d.todo = c.todo /\ d.chunks = c.chunks
  <1> DEFINE c == ctl[t]
             d == [c EXCEPT !.pc = "count"]
  <1>1. c \in Doing /\ c.pc = "head" /\ Flow(c)
    BY DEF ClaimHead, At, CallTypes, TasksFlow
  <1>2. /\ c.scan \in [table : Tables, len : Nat, head : Nat, at : Nat]
        /\ c.scan.table \in Tables /\ c.scan.at \in 1 .. Slots
    BY <1>1, ConsoleAssumption DEF Doing, Flow, ScanFlow, Scanning, ConsoleAssumption
  <1>4. ctl' = [ctl EXCEPT ![t] = d] /\ isr' = isr
    BY <1>1 DEF ClaimHead, Goto, Recorded
  <1>5. d \in Doing
    BY <1>1, <1>2 DEF Doing, Scanning, Taking, Reporting
  <1>6. /\ d.pc = "count" /\ d.guards = c.guards /\ d.want = c.want
        /\ d.scan = c.scan /\ d.todo = c.todo /\ d.chunks = c.chunks
    BY <1>1 DEF Doing
  <1>7. CallTypes' /\ Steady(t) /\ ctl'[t] = d
    BY <1>4, <1>5, Moved
  <1> HIDE DEF c, d
  <1>8. Flow(d)
    BY <1>1, <1>2, <1>6, ConsoleAssumption
    DEF Flow, ScanFlow, GuardFlow, ChunkFlow, Needing, Putting, Scanning, Taking, Reporting,
        ConsoleAssumption
  <1>9. TasksFlow'
    BY <1>7, <1>8, Kept
  <1> QED
    BY <1>1, <1>2, <1>6, <1>7, <1>9 DEF c

LEMMA CountMoves ==
  ASSUME CallTypes, TasksFlow, NEW t \in Tasks, Count(t)
  PROVE  LET c == ctl[t] d == ctl'[t] IN
         /\ CallTypes' /\ TasksFlow' /\ Steady(t)
         /\ c.pc = "count" /\ c.scan.table \in Tables /\ c.scan.at \in 1 .. Slots
         /\ d.pc \in {"next", "take"} /\ d.scan = c.scan
         /\ d.guards = c.guards /\ d.todo = c.todo /\ d.chunks = c.chunks
  <1> DEFINE c == ctl[t]
             to == IF c.scan.table = "PUTCHARS" THEN "next" ELSE "take"
             d == [c EXCEPT !.pc = to]
  <1>1. c \in Doing /\ c.pc = "count" /\ Flow(c)
    BY DEF Count, At, CallTypes, TasksFlow
  <1>2. /\ c.scan \in [table : Tables, len : Nat, head : Nat, at : Nat]
        /\ c.scan.table \in Tables /\ c.scan.at \in 1 .. Slots
    BY <1>1, ConsoleAssumption DEF Doing, Flow, ScanFlow, Scanning, ConsoleAssumption
  <1>3. /\ to \in {"next", "take"}
        /\ to = "next" <=> c.scan.table = "PUTCHARS"
    OBVIOUS
  <1>4. ctl' = [ctl EXCEPT ![t] = d] /\ isr' = isr
    BY <1>1 DEF Count, Goto, Recorded
  <1> HIDE DEF to
  <1>5. d \in Doing
    BY <1>1, <1>2, <1>3 DEF Doing, Scanning, Taking, Reporting
  <1>6. /\ d.pc = to /\ d.guards = c.guards /\ d.want = c.want
        /\ d.scan = c.scan /\ d.todo = c.todo /\ d.chunks = c.chunks
    BY <1>1 DEF Doing
  <1>7. CallTypes' /\ Steady(t) /\ ctl'[t] = d
    BY <1>4, <1>5, Moved
  <1> HIDE DEF c, d
  <1>8. Flow(d)
    BY <1>1, <1>2, <1>3, <1>6, ConsoleAssumption
    DEF Flow, ScanFlow, GuardFlow, ChunkFlow, Needing, Putting, Scanning, Taking, Reporting,
        ConsoleAssumption
  <1>9. TasksFlow'
    BY <1>7, <1>8, Kept
  <1> QED
    BY <1>1, <1>2, <1>3, <1>6, <1>7, <1>9 DEF c

LEMMA CountOtherMoves ==
  ASSUME CallTypes, TasksFlow, NEW t \in Tasks, CountOther(t)
  PROVE  LET c == ctl[t] d == ctl'[t] IN
         /\ CallTypes' /\ TasksFlow' /\ Steady(t)
         /\ c.pc = "other" /\ c.scan.table \in Tables
         /\ d.pc \in {"next", "take"} /\ d.scan = c.scan
         /\ d.guards = c.guards /\ d.todo = c.todo /\ d.chunks = c.chunks
  <1> DEFINE c == ctl[t]
             to == IF c.scan.table = "PUTCHARS" THEN "next" ELSE "take"
             d == [c EXCEPT !.pc = to]
  <1>1. c \in Doing /\ c.pc = "other" /\ Flow(c)
    BY DEF CountOther, At, CallTypes, TasksFlow
  <1>2. /\ c.scan \in [table : Tables, len : Nat, head : Nat, at : Nat]
        /\ c.scan.table \in Tables
    BY <1>1, ConsoleAssumption DEF Doing, Flow, ScanFlow, Scanning, ConsoleAssumption
  <1>3. /\ to \in {"next", "take"}
        /\ to = "next" <=> c.scan.table = "PUTCHARS"
    OBVIOUS
  <1>4. ctl' = [ctl EXCEPT ![t] = d] /\ isr' = isr
    BY <1>1 DEF CountOther, Goto, Recorded
  <1> HIDE DEF to
  <1>5. d \in Doing
    BY <1>1, <1>2, <1>3 DEF Doing, Scanning, Taking, Reporting
  <1>6. /\ d.pc = to /\ d.guards = c.guards /\ d.want = c.want
        /\ d.scan = c.scan /\ d.todo = c.todo /\ d.chunks = c.chunks
    BY <1>1 DEF Doing
  <1>7. CallTypes' /\ Steady(t) /\ ctl'[t] = d
    BY <1>4, <1>5, Moved
  <1> HIDE DEF c, d
  <1>8. Flow(d)
    BY <1>1, <1>2, <1>3, <1>6, ConsoleAssumption
    DEF Flow, ScanFlow, GuardFlow, ChunkFlow, Needing, Putting, Scanning, Taking, Reporting,
        ConsoleAssumption
  <1>9. TasksFlow'
    BY <1>7, <1>8, Kept
  <1> QED
    BY <1>1, <1>2, <1>3, <1>6, <1>7, <1>9 DEF c

\* The steps of a report.
LEMMA ReportTotalsMoves ==
  ASSUME CallTypes, TasksFlow, NEW t \in Tasks, ReportTotals(t)
  PROVE  LET c == ctl[t] d == ctl'[t] IN
         /\ CallTypes' /\ TasksFlow' /\ Steady(t)
         /\ c.pc = "calls" /\ c.scan.table \in Tables
         /\ d.pc = "others" /\ d.scan = c.scan
         /\ d.guards = c.guards /\ d.todo = c.todo /\ d.chunks = c.chunks
  <1> DEFINE c == ctl[t]
             d == [c EXCEPT !.pc = "others"]
  <1>1. c \in Doing /\ c.pc = "calls" /\ Flow(c)
    BY DEF ReportTotals, At, CallTypes, TasksFlow
  <1>2. /\ c.scan \in [table : Tables, len : Nat, head : Nat, at : Nat]
        /\ c.scan.table \in Tables
    BY <1>1, ConsoleAssumption DEF Doing, Flow, ScanFlow, Scanning, ConsoleAssumption
  <1>4. ctl' = [ctl EXCEPT ![t] = d] /\ isr' = isr
    BY <1>1 DEF ReportTotals, Goto, Recorded
  <1>5. d \in Doing
    BY <1>1, <1>2 DEF Doing, Scanning, Taking, Reporting
  <1>6. /\ d.pc = "others" /\ d.guards = c.guards /\ d.want = c.want
        /\ d.scan = c.scan /\ d.todo = c.todo /\ d.chunks = c.chunks
    BY <1>1 DEF Doing
  <1>7. CallTypes' /\ Steady(t) /\ ctl'[t] = d
    BY <1>4, <1>5, Moved
  <1> HIDE DEF c, d
  <1>8. Flow(d)
    BY <1>1, <1>2, <1>6, ConsoleAssumption
    DEF Flow, ScanFlow, GuardFlow, ChunkFlow, Needing, Putting, Scanning, Taking, Reporting,
        ConsoleAssumption
  <1>9. TasksFlow'
    BY <1>7, <1>8, Kept
  <1> QED
    BY <1>1, <1>2, <1>6, <1>7, <1>9 DEF c

LEMMA ReportOthersMoves ==
  ASSUME CallTypes, TasksFlow, NEW t \in Tasks, ReportOthers(t)
  PROVE  LET c == ctl[t] d == ctl'[t] IN
         /\ CallTypes' /\ TasksFlow' /\ Steady(t)
         /\ c.pc = "others" /\ c.scan.table \in Tables
         /\ d.pc = "look"
         /\ d.guards = c.guards /\ d.todo = c.todo /\ d.chunks = c.chunks
  <1> DEFINE c == ctl[t]
             scan == [table |-> "PROBE", len |-> 0, head |-> 0, at |-> 1]
             d == [c EXCEPT !.pc = "look", !.scan = scan]
  <1>1. c \in Doing /\ c.pc = "others" /\ Flow(c)
    BY DEF ReportOthers, At, CallTypes, TasksFlow
  <1>2. /\ c.scan \in [table : Tables, len : Nat, head : Nat, at : Nat]
        /\ c.scan.table \in Tables
    BY <1>1, ConsoleAssumption DEF Doing, Flow, ScanFlow, Scanning, ConsoleAssumption
  <1>3. /\ scan \in [table : Tables, len : Nat, head : Nat, at : Nat]
        /\ scan.at = 1
    BY DEF Tables
  <1>4. ctl' = [ctl EXCEPT ![t] = d] /\ isr' = isr
    BY <1>1 DEF ReportOthers, Goto, Recorded
  <1> HIDE DEF scan
  <1>5. d \in Doing
    BY <1>1, <1>2, <1>3 DEF Doing, Scanning, Taking, Reporting
  <1>6. /\ d.pc = "look" /\ d.guards = c.guards /\ d.want = c.want
        /\ d.scan = scan /\ d.todo = c.todo /\ d.chunks = c.chunks
    BY <1>1 DEF Doing
  <1>7. CallTypes' /\ Steady(t) /\ ctl'[t] = d
    BY <1>4, <1>5, Moved
  <1> HIDE DEF c, d
  <1>8. Flow(d)
    BY <1>1, <1>2, <1>3, <1>6, ConsoleAssumption
    DEF Flow, ScanFlow, GuardFlow, ChunkFlow, Needing, Putting, Scanning, Taking, Reporting,
        ConsoleAssumption
  <1>9. TasksFlow'
    BY <1>7, <1>8, Kept
  <1> QED
    BY <1>1, <1>2, <1>3, <1>6, <1>7, <1>9 DEF c

LEMMA ReportLookMoves ==
  ASSUME CallTypes, TasksFlow, TableTypes, NEW t \in Tasks, ReportLook(t)
  PROVE  LET c == ctl[t] d == ctl'[t] IN
         /\ CallTypes' /\ TasksFlow' /\ Steady(t)
         /\ c.pc = "look" /\ c.scan.table \in Tables /\ c.scan.at \in 1 .. Slots
         /\ d.pc = "swap"
         /\ d.guards = c.guards /\ d.todo = c.todo /\ d.chunks = c.chunks
  <1> DEFINE c == ctl[t]
             slot == slots[c.scan.table][c.scan.at]
             scan == [c.scan EXCEPT !.len = slot.len, !.head = slot.head]
             d == [c EXCEPT !.pc = "swap", !.scan.len = slot.len, !.scan.head = slot.head]
  <1>1. c \in Doing /\ c.pc = "look" /\ Flow(c)
    BY DEF ReportLook, At, CallTypes, TasksFlow
  <1>2. /\ c.scan \in [table : Tables, len : Nat, head : Nat, at : Nat]
        /\ c.scan.table \in Tables /\ c.scan.at \in 1 .. Slots
    BY <1>1, ConsoleAssumption DEF Doing, Flow, ScanFlow, Scanning, ConsoleAssumption
  <1>3. /\ scan \in [table : Tables, len : Nat, head : Nat, at : Nat]
        /\ scan.at = c.scan.at /\ slot.len \in Nat /\ slot.head \in Nat
    <2>1. slot \in Slot
      BY <1>2 DEF TableTypes
    <2>2. slot.len \in Nat /\ slot.head \in Nat
      BY <2>1 DEF Slot, Letter
    <2> QED
      BY <1>2, <2>2
  <1>4. ctl' = [ctl EXCEPT ![t] = d] /\ isr' = isr
    BY <1>1 DEF ReportLook, Goto, Recorded
  <1> HIDE DEF slot
  <1>5. d \in Doing
    BY <1>1, <1>2, <1>3 DEF Doing, Scanning, Taking, Reporting
  <1>6. /\ d.pc = "swap" /\ d.guards = c.guards /\ d.want = c.want
        /\ d.scan = scan /\ d.todo = c.todo /\ d.chunks = c.chunks
    BY <1>1 DEF Doing
  <1>7. CallTypes' /\ Steady(t) /\ ctl'[t] = d
    BY <1>4, <1>5, Moved
  <1> HIDE DEF c, d
  <1>8. Flow(d)
    BY <1>1, <1>2, <1>3, <1>6, ConsoleAssumption
    DEF Flow, ScanFlow, GuardFlow, ChunkFlow, Needing, Putting, Scanning, Taking, Reporting,
        ConsoleAssumption
  <1>9. TasksFlow'
    BY <1>7, <1>8, Kept
  <1> QED
    BY <1>1, <1>2, <1>3, <1>6, <1>7, <1>9 DEF c

LEMMA ReportSwapMoves ==
  ASSUME CallTypes, TasksFlow, NEW t \in Tasks, ReportSwap(t)
  PROVE  LET c == ctl[t] d == ctl'[t] IN
         /\ CallTypes' /\ TasksFlow' /\ Steady(t)
         /\ c.pc = "swap" /\ c.scan.table \in Tables /\ c.scan.at \in 1 .. Slots
         /\ d.pc \in {"take", "look"}
         /\ d.guards = c.guards /\ d.todo = c.todo /\ d.chunks = c.chunks
  <1> DEFINE c == ctl[t]
             to == IF c.scan.table = "PUTCHARS" /\ c.scan.at = Slots THEN "take" ELSE "look"
             scan == After(c.scan)
             d == [c EXCEPT !.pc = to, !.scan = scan]
  <1>1. c \in Doing /\ c.pc = "swap" /\ Flow(c)
    BY DEF ReportSwap, At, CallTypes, TasksFlow
  <1>2. /\ c.scan \in [table : Tables, len : Nat, head : Nat, at : Nat]
        /\ c.scan.table \in Tables /\ c.scan.at \in 1 .. Slots
    BY <1>1, ConsoleAssumption DEF Doing, Flow, ScanFlow, Scanning, ConsoleAssumption
  <1>3. /\ scan \in [table : Tables, len : Nat, head : Nat, at : Nat]
        /\ scan.at \in 1 .. Slots /\ to \in {"take", "look"}
    <2>1. to \in {"take", "look"}
      OBVIOUS
    <2>2. CASE c.scan.at < Slots
      BY <1>2, <2>2, ConsoleAssumption DEF After, ConsoleAssumption
    <2>3. CASE ~(c.scan.at < Slots)
      <3> DEFINE table == IF c.scan.table = "PROBE" THEN "FMTS" ELSE "PUTCHARS"
      <3>1. table \in Tables
        BY DEF Tables
      <3>2. scan = [c.scan EXCEPT !.at = 1, !.table = table]
        BY <2>3 DEF After
      <3> HIDE DEF table, scan
      <3>3. 1 \in 1 .. Slots
        BY ConsoleAssumption DEF ConsoleAssumption
      <3>4. scan \in [table : Tables, len : Nat, head : Nat, at : Nat] /\ scan.at = 1
        BY <1>2, <3>1, <3>2
      <3> QED
        BY <3>3, <3>4, <2>1
    <2> QED
      BY <2>2, <2>3
  <1>4. ctl' = [ctl EXCEPT ![t] = d] /\ isr' = isr
    BY <1>1 DEF ReportSwap, Goto, Recorded
  <1> HIDE DEF scan, to
  <1>5. d \in Doing
    BY <1>1, <1>2, <1>3 DEF Doing, Scanning, Taking, Reporting
  <1>6. /\ d.pc = to /\ d.guards = c.guards /\ d.want = c.want
        /\ d.scan = scan /\ d.todo = c.todo /\ d.chunks = c.chunks
    BY <1>1 DEF Doing
  <1>7. CallTypes' /\ Steady(t) /\ ctl'[t] = d
    BY <1>4, <1>5, Moved
  <1> HIDE DEF c, d
  <1>8. c.guards = << >> /\ c.want = "line" /\ c.chunks # << >>
    BY <1>1 DEF Flow, GuardFlow, ChunkFlow, Reporting
  <1>9. Below(c.guards, "line") /\ Ranked(c.guards)
    BY <1>8 DEF Below, Ranked
  <1>10. Flow(d)
    BY <1>8, <1>9, <1>2, <1>3, <1>6, ConsoleAssumption
    DEF Flow, ScanFlow, GuardFlow, ChunkFlow, Needing, Putting, Scanning, Taking, Reporting,
        ConsoleAssumption
  <1>11. TasksFlow'
    BY <1>7, <1>10, Kept
  <1> QED
    BY <1>1, <1>2, <1>3, <1>6, <1>7, <1>11 DEF c

-----------------------------------------------------------------------------
(* The calls of the blobs.                                                 *)

\* A call that returns leaves its task idle, with the next one to make.
LEMMA ReturnMoves ==
  ASSUME CallTypes, TasksFlow, NEW t \in Tasks, At(t, "idle"), ctl[t].todo # << >>, Return(t)
  PROVE  LET c == ctl[t] d == ctl'[t] IN
         /\ CallTypes' /\ TasksFlow' /\ Steady(t)
         /\ c.pc = "idle" /\ d.pc = "idle" /\ c.guards = << >>
         /\ d.guards = c.guards /\ d.todo = Tail(c.todo) /\ d.scan = c.scan /\ d.chunks = c.chunks
  <1> DEFINE c == ctl[t]
             d == [c EXCEPT !.todo = Tail(@)]
  <1>1. c \in Doing /\ c.pc = "idle" /\ Flow(c) /\ c.todo # << >>
    BY DEF At, CallTypes, TasksFlow
  <1>2. Tail(c.todo) \in Seq(TaskCalls) /\ c.guards = << >>
    BY <1>1 DEF Doing, Flow, GuardFlow
  <1>3. ctl' = [ctl EXCEPT ![t] = d] /\ isr' = isr
    BY <1>1 DEF Return
  <1>4. d \in Doing
    BY <1>1, <1>2 DEF Doing
  <1>5. /\ d.pc = "idle" /\ d.guards = c.guards /\ d.want = c.want /\ d.scan = c.scan
        /\ d.todo = Tail(c.todo) /\ d.chunks = c.chunks
    BY <1>1 DEF Doing
  <1>6. CallTypes' /\ Steady(t) /\ ctl'[t] = d
    BY <1>3, <1>4, Moved
  <1> HIDE DEF c, d
  <1>7. Flow(d)
    BY <1>1, <1>5 DEF Flow, ScanFlow, GuardFlow, ChunkFlow, Needing, Putting,
       Scanning, Taking, Reporting
  <1>8. TasksFlow'
    BY <1>6, <1>7, Kept
  <1> QED
    BY <1>1, <1>2, <1>5, <1>6, <1>8 DEF c

LEMMA RtosReturns ==
  ASSUME NEW t \in Tasks, RtosStep(t)
  PROVE  At(t, "idle") /\ ctl[t].todo # << >> /\ Return(t)
  BY DEF RtosStep, QueueCreate, SemaphoreCreate, MutexCreate, Delete, Skip, QueueWrite,
     QueueRead, SemaphoreWait, SemaphoreSignal, MutexLock, MutexUnlock, TaskNotify,
     WaitNotification, TaskCreate, TaskDelete, Calls

LEMMA HandlerMoves ==
  ASSUME CallTypes, TasksFlow, isr # << >>, HandlerReturn
  PROVE  CallTypes' /\ TasksFlow' /\ ctl' = ctl
  <1>1. Tail(isr) \in Seq(IsrCalls)
    BY DEF CallTypes
  <1> QED
    BY <1>1 DEF HandlerReturn, CallTypes, TasksFlow

LEMMA RtosHandlerReturns ==
  ASSUME RtosHandler
  PROVE  isr # << >> /\ HandlerReturn
  BY DEF RtosHandler, HandlerQueueWrite, HandlerQueueRead, HandlerSignal, HandlerNotify,
     HandlerSkip, HandlerCalls

-----------------------------------------------------------------------------
(* The objects of Rtos, and what the callers know of them.                 *)

QueueTypes ==
  /\ serial \in Nat
  /\ queue \in Seq(Nat) /\ accepted \in Seq(Nat) /\ got \in Seq(Nat)
  /\ Len(queue) <= Capacity

SemaphoreTypes ==
  /\ made \in [Kinds -> {"none", "live", "failed", "deleted"}]
  /\ limit \in Nat /\ asked \in Nat /\ count \in 0 .. limit
  /\ given \in Nat /\ had \in Nat

NoteTypes ==
  /\ alive \subseteq Tasks
  /\ notes \in [Tasks -> Nat] /\ told \in [Tasks -> Nat] /\ heard \in [Tasks -> Nat]

\* A number is given to one message: what was refused was not accepted before,
\* and cannot be accepted later.
NumbersOnce ==
  /\ refused \subseteq 1 .. serial /\ ToSet(accepted) \subseteq 1 .. serial
  /\ refused \cap ToSet(accepted) = {}

QueueInv == QueueTypes /\ NumbersOnce /\ accepted = got \o queue

SemaphoreInv ==
  /\ SemaphoreTypes /\ SignalsKept
  /\ made["semaphore"] = "none" => had = 0 /\ given = 0

NoteInv == NoteTypes /\ NotesHeard

ObjectsInv == QueueInv /\ SemaphoreInv /\ NoteInv

queueVars == <<queue, serial, accepted, refused, got>>
semaphoreVars == <<made, count, limit, asked, given, had>>
noteVars == <<alive, notes, told, heard>>

LEMMA QueueQuiet ==
  ASSUME QueueInv, UNCHANGED queueVars
  PROVE  QueueInv'
  BY DEF QueueInv, QueueTypes, NumbersOnce, queueVars

LEMMA NoteQuiet ==
  ASSUME NoteInv, UNCHANGED noteVars
  PROVE  NoteInv'
  BY DEF NoteInv, NoteTypes, NotesHeard, noteVars

LEMMA SemaphoreQuiet ==
  ASSUME SemaphoreInv, made' \in [Kinds -> {"none", "live", "failed", "deleted"}],
         made'["semaphore"] \in {made["semaphore"], "deleted"},
         UNCHANGED <<count, limit, asked, given, had>>
  PROVE  SemaphoreInv'
  BY DEF SemaphoreInv, SemaphoreTypes, SignalsKept

LEMMA ObjectsStart == Init => ObjectsInv
  <1> SUFFICES ASSUME Init PROVE ObjectsInv
    OBVIOUS
  <1>1. QueueInv
    <2>1. << >> \in Seq(Nat) /\ Len(<< >>) = 0 /\ << >> \o << >> = << >> /\ ToSet(<< >>) = {}
      BY DEF ToSet
    <2> QED
      BY <2>1, RtosAssumption DEF Init, RtosInit, QueueInv, QueueTypes, NumbersOnce, RtosAssumption
  <1>2. SemaphoreInv
    BY DEF Init, RtosInit, SemaphoreInv, SemaphoreTypes, SignalsKept, Kinds
  <1>3. NoteInv
    BY DEF Init, RtosInit, NoteInv, NoteTypes, NotesHeard
  <1> QED
    BY <1>1, <1>2, <1>3 DEF ObjectsInv

LEMMA AppendedSet ==
  ASSUME NEW S, NEW s \in Seq(S), NEW x \in S
  PROVE  ToSet(Append(s, x)) = ToSet(s) \union {x}
  <1>1. /\ DOMAIN s = 1 .. Len(s) /\ Len(s) \in Nat
        /\ DOMAIN Append(s, x) = 1 .. Len(s) + 1
        /\ \A k \in 1 .. Len(s) : Append(s, x)[k] = s[k]
        /\ Append(s, x)[Len(s) + 1] = x
    OBVIOUS
  <1>2. \A k : k \in 1 .. Len(s) + 1 <=> k \in 1 .. Len(s) \/ k = Len(s) + 1
    BY <1>1
  <1> QED
    BY <1>1, <1>2 DEF ToSet

LEMMA ConcatAppend ==
  ASSUME NEW s \in Seq(Nat), NEW u \in Seq(Nat), NEW x \in Nat,
         NEW w \in Seq(Nat), w = s \o u
  PROVE  Append(w, x) = s \o Append(u, x)
  <1>1. <<x>> \in Seq(Nat)
    OBVIOUS
  <1>2. Append(w, x) = w \o <<x>> /\ Append(u, x) = u \o <<x>>
    BY AppendIsConcat
  <1>3. (s \o u) \o <<x>> = s \o (u \o <<x>>)
    BY <1>1, ConcatAssociative
  <1> QED
    BY <1>2, <1>3, Zenon

LEMMA ConcatHead ==
  ASSUME NEW s \in Seq(Nat), NEW u \in Seq(Nat), u # << >>
  PROVE  s \o u = Append(s, Head(u)) \o Tail(u)
  <1>1. Head(u) \in Nat /\ Tail(u) \in Seq(Nat) /\ <<Head(u)>> \in Seq(Nat)
    OBVIOUS
  <1>2. u = <<Head(u)>> \o Tail(u)
    <2>1. Len(u) \in Nat /\ Len(u) >= 1
      OBVIOUS
    <2>2. Len(<<Head(u)>> \o Tail(u)) = Len(u)
      BY <1>1, <2>1
    <2>3. ASSUME NEW k \in 1 .. Len(u) PROVE u[k] = (<<Head(u)>> \o Tail(u))[k]
      BY <1>1, <2>1
    <2>4. <<Head(u)>> \o Tail(u) \in Seq(Nat)
      BY <1>1
    <2> QED
      BY <2>2, <2>3, <2>4, SeqEqual
  <1>3. Append(s, Head(u)) = s \o <<Head(u)>>
    BY <1>1
  <1>4. (s \o <<Head(u)>>) \o Tail(u) = s \o (<<Head(u)>> \o Tail(u))
    BY <1>1, ConcatAssociative
  <1> QED
    BY <1>2, <1>3, <1>4

LEMMA SendKeeps ==
  ASSUME QueueInv, NEW timeout, NEW sent \in {0, 1}, Send(timeout, sent)
  PROVE  QueueInv'
  <1>1. serial \in Nat /\ serial + 1 \in Nat
    BY DEF QueueInv, QueueTypes
  <1>2. CASE sent = 1
    <2>1. /\ queue' = Append(queue, serial + 1) /\ Len(queue) < Capacity
          /\ accepted' = Append(accepted, serial + 1)
          /\ serial' = serial + 1 /\ got' = got /\ refused' = refused
      BY <1>2 DEF Send, Result
    <2>2. QueueTypes'
      <3>1. queue' \in Seq(Nat) /\ Len(queue') = Len(queue) + 1 /\ Len(queue) \in Nat
        BY <1>1, <2>1 DEF QueueInv, QueueTypes
      <3>2. accepted' \in Seq(Nat)
        BY <1>1, <2>1 DEF QueueInv, QueueTypes
      <3>3. Len(queue') <= Capacity
        BY <2>1, <3>1, RtosAssumption DEF RtosAssumption
      <3> QED
        BY <1>1, <2>1, <3>1, <3>2, <3>3 DEF QueueInv, QueueTypes
    <2>3. accepted' = got' \o queue'
      <3>1. /\ got \in Seq(Nat) /\ queue \in Seq(Nat) /\ accepted \in Seq(Nat)
            /\ accepted = got \o queue
        BY DEF QueueInv, QueueTypes
      <3>2. PICK n \in Nat : n = serial + 1
        BY <1>1
      <3>3. Append(accepted, n) = got \o Append(queue, n)
        BY <3>1, ConcatAppend, ZenonT(60)
      <3>4. accepted' = Append(accepted, n) /\ queue' = Append(queue, n) /\ got' = got
        BY <2>1, <3>2
      <3> QED
        BY <3>3, <3>4, Zenon
    <2>4. ToSet(accepted') = ToSet(accepted) \union {serial + 1}
      <3>1. accepted \in Seq(Nat)
        BY DEF QueueInv, QueueTypes
      <3>2. ToSet(Append(accepted, serial + 1)) = ToSet(accepted) \union {serial + 1}
        BY <1>1, <3>1, AppendedSet
      <3> QED
        BY <2>1, <3>2
    <2>5. NumbersOnce'
      BY <1>1, <2>1, <2>4 DEF QueueInv, NumbersOnce
    <2> QED
      BY <2>2, <2>3, <2>5 DEF QueueInv
  <1>3. CASE sent = 0
    <2>1. /\ queue' = queue /\ accepted' = accepted /\ serial' = serial + 1 /\ got' = got
          /\ refused' = refused \union {serial + 1}
      BY <1>3 DEF Send, Result
    <2>2. NumbersOnce'
      BY <1>1, <2>1 DEF QueueInv, NumbersOnce
    <2> QED
      BY <1>1, <2>1, <2>2 DEF QueueInv, QueueTypes
  <1> QED
    BY <1>2, <1>3

LEMMA ReceiveKeeps ==
  ASSUME QueueInv, NEW timeout, NEW received \in {0, 1}, Receive(timeout, received)
  PROVE  QueueInv'
  <1>1. CASE received = 1
    <2>1. /\ queue # << >> /\ queue' = Tail(queue) /\ got' = Append(got, Head(queue))
          /\ serial' = serial /\ accepted' = accepted /\ refused' = refused
      BY <1>1 DEF Receive, Result
    <2>2. QueueTypes'
      <3>1. /\ Head(queue) \in Nat /\ Tail(queue) \in Seq(Nat)
            /\ Len(Tail(queue)) = Len(queue) - 1 /\ Len(queue) \in Nat
        BY <2>1 DEF QueueInv, QueueTypes
      <3> QED
        BY <2>1, <3>1, RtosAssumption DEF QueueInv, QueueTypes, RtosAssumption
    <2>3. accepted' = got' \o queue'
      BY <2>1, ConcatHead DEF QueueInv, QueueTypes
    <2> QED
      BY <2>1, <2>2, <2>3 DEF QueueInv, NumbersOnce
  <1>2. CASE received = 0
    <2>1. UNCHANGED queueVars
      BY <1>2 DEF Receive, Result, queueVars
    <2> QED
      BY <2>1, QueueQuiet
  <1> QED
    BY <1>1, <1>2

LEMMA SemaphoreCreateKeeps ==
  ASSUME CallTypes, SemaphoreInv, NEW t \in Tasks, SemaphoreCreate(t)
  PROVE  SemaphoreInv'
  <1>1. /\ ctl[t].todo \in Seq(TaskCalls) /\ ctl[t].todo # << >>
        /\ Head(ctl[t].todo).op = "semaphore_create"
    BY DEF SemaphoreCreate, Calls, CallTypes, Doing
  <1>2. Head(ctl[t].todo) \in TaskCalls
    BY <1>1
  <1>3. Promised(Head(ctl[t].todo))
    BY <1>2, CallsPromised
  <1>4. Argument(t).max \in Nat \ {0} /\ Argument(t).init \in 0 .. Argument(t).max
    BY <1>1, <1>3 DEF Promised, Argument
  <1>5. /\ limit' = Argument(t).max /\ asked' = Argument(t).init
        /\ count' = IF limit' = 1 THEN (IF asked' # 0 THEN 1 ELSE 0) ELSE asked'
        /\ given' = given /\ had' = had /\ made["semaphore"] = "none"
        /\ made' \in {[made EXCEPT !["semaphore"] = "live"],
                      [made EXCEPT !["semaphore"] = "failed"]}
    BY DEF SemaphoreCreate, CreateObject, known
  <1>6. /\ limit' \in Nat /\ asked' \in Nat /\ count' \in 0 .. limit' /\ count' = asked'
    BY <1>4, <1>5
  <1>7. /\ made' \in [Kinds -> {"none", "live", "failed", "deleted"}]
        /\ made'["semaphore"] # "none"
    BY <1>5 DEF SemaphoreInv, SemaphoreTypes, Kinds
  <1>8. had = 0 /\ given = 0
    BY <1>5 DEF SemaphoreInv
  <1> QED
    BY <1>5, <1>6, <1>7, <1>8 DEF SemaphoreInv, SemaphoreTypes, SignalsKept

LEMMA SignalKeeps ==
  ASSUME SemaphoreInv, Signal
  PROVE  SemaphoreInv'
  <1>1. /\ made' = made /\ limit' = limit /\ asked' = asked /\ had' = had
        /\ made["semaphore"] = "live"
    BY DEF Signal
  <1>2. \/ count < limit /\ count' = count + 1 /\ given' = given + 1
        \/ ~(count < limit) /\ count' = count + 0 /\ given' = given
    BY DEF Signal, Result
  <1> QED
    BY <1>1, <1>2 DEF SemaphoreInv, SemaphoreTypes, SignalsKept

LEMMA SemaphoreWaitKeeps ==
  ASSUME SemaphoreInv, NEW t \in Tasks, SemaphoreWait(t)
  PROVE  SemaphoreInv'
  <1>1. /\ made' = made /\ limit' = limit /\ asked' = asked /\ given' = given
        /\ made["semaphore"] = "live"
    BY DEF SemaphoreWait
  <1>2. \/ count > 0 /\ count' = count - 1 /\ had' = had + 1
        \/ count' = count /\ had' = had
    BY DEF SemaphoreWait, Result
  <1> QED
    BY <1>1, <1>2 DEF SemaphoreInv, SemaphoreTypes, SignalsKept

LEMMA NotifyKeeps ==
  ASSUME NoteInv, NEW u, Notify(u)
  PROVE  NoteInv'
  <1>1. /\ u \in Tasks /\ alive' = alive /\ heard' = heard
        /\ notes' = [notes EXCEPT ![u] = @ + 1] /\ told' = [told EXCEPT ![u] = @ + 1]
    BY DEF Notify, NoteInv, NoteTypes
  <1> QED
    BY <1>1 DEF NoteInv, NoteTypes, NotesHeard

LEMMA WaitNotificationKeeps ==
  ASSUME NoteInv, NEW t \in Tasks, WaitNotification(t)
  PROVE  NoteInv'
  <1>1. /\ alive' = alive /\ told' = told
        /\ heard' = [heard EXCEPT ![t] = @ + notes[t]] /\ notes' = [notes EXCEPT ![t] = 0]
    BY DEF WaitNotification
  <1> QED
    BY <1>1 DEF NoteInv, NoteTypes, NotesHeard

LEMMA TaskCreateKeeps ==
  ASSUME CallTypes, NoteInv, NEW t \in Tasks, TaskCreate(t)
  PROVE  NoteInv'
  <1>1. /\ ctl[t].todo \in Seq(TaskCalls) /\ ctl[t].todo # << >>
        /\ Head(ctl[t].todo).op = "task_create"
    BY DEF TaskCreate, Calls, CallTypes, Doing
  <1>2. Head(ctl[t].todo) \in TaskCalls
    BY <1>1
  <1>3. Argument(t) \in Tasks
    BY <1>1, <1>2, CallsPromised DEF Promised, Argument
  <1>4. /\ alive' \in {alive, alive \union {Argument(t)}}
        /\ notes' = notes /\ told' = told /\ heard' = heard
    BY DEF TaskCreate, objects, known
  <1> QED
    BY <1>3, <1>4 DEF NoteInv, NoteTypes, NotesHeard

\* Making an object of another kind, or deleting one.
LEMMA MadeKeeps ==
  ASSUME SemaphoreInv, NEW k \in Kinds, UNCHANGED <<count, limit, asked, given, had>>,
         \/ k # "semaphore" /\ CreateObject(k)
         \/ made' = [made EXCEPT ![k] = "deleted"]
  PROVE  SemaphoreInv'
  <1>1. made \in [Kinds -> {"none", "live", "failed", "deleted"}] /\ "semaphore" \in Kinds
    BY DEF SemaphoreInv, SemaphoreTypes, Kinds
  <1>2. \/ k # "semaphore" /\ \E v \in {"live", "failed"} : made' = [made EXCEPT ![k] = v]
        \/ made' = [made EXCEPT ![k] = "deleted"]
    BY DEF CreateObject
  <1>3. /\ made' \in [Kinds -> {"none", "live", "failed", "deleted"}]
        /\ made'["semaphore"] \in {made["semaphore"], "deleted"}
    BY <1>1, <1>2
  <1> QED
    BY <1>3, SemaphoreQuiet

LEMMA SameSemaphore ==
  ASSUME SemaphoreInv, UNCHANGED semaphoreVars
  PROVE  SemaphoreInv'
  BY DEF SemaphoreInv, SemaphoreTypes, SignalsKept, semaphoreVars

LEMMA CallKeepsObjects ==
  ASSUME CallTypes, ObjectsInv, NEW t \in Tasks, RtosStep(t)
  PROVE  ObjectsInv'
  <1> USE DEF ObjectsInv
  <1>1. CASE QueueCreate(t) \/ MutexCreate(t)
    <2>1. UNCHANGED queueVars /\ UNCHANGED noteVars /\ UNCHANGED <<count, limit, asked, given, had>>
      BY <1>1 DEF QueueCreate, MutexCreate, queueVars, noteVars, known
    <2>2. PICK k \in {"queue", "mutex"} : CreateObject(k)
      BY <1>1 DEF QueueCreate, MutexCreate
    <2> QED
      BY <2>1, <2>2, QueueQuiet, NoteQuiet, MadeKeeps DEF Kinds
  <1>2. CASE SemaphoreCreate(t)
    <2>1. UNCHANGED queueVars /\ UNCHANGED noteVars
      BY <1>2 DEF SemaphoreCreate, queueVars, noteVars, known
    <2> QED
      BY <1>2, <2>1, QueueQuiet, NoteQuiet, SemaphoreCreateKeeps
  <1>3. CASE Delete(t)
    <2>1. UNCHANGED queueVars /\ UNCHANGED noteVars /\ UNCHANGED <<count, limit, asked, given, had>>
      BY <1>3 DEF Delete, queueVars, noteVars, known
    <2>2. PICK k : made[k] = "live" /\ made' = [made EXCEPT ![k] = "deleted"]
      BY <1>3 DEF Delete
    <2>3. SemaphoreInv'
      <3>1. CASE k \in Kinds
        BY <2>1, <2>2, <3>1, MadeKeeps
      <3>2. CASE k \notin Kinds
        <4>1. made' = made
          BY <2>2, <3>2 DEF SemaphoreInv, SemaphoreTypes
        <4> QED
          BY <2>1, <4>1, SameSemaphore DEF semaphoreVars
      <3> QED
        BY <3>1, <3>2
    <2> QED
      BY <2>1, <2>3, QueueQuiet, NoteQuiet
  <1>4. CASE Skip(t)
    <2>1. UNCHANGED queueVars /\ UNCHANGED noteVars /\ UNCHANGED semaphoreVars
      BY <1>4 DEF Skip, rtos, queueVars, noteVars, objects, known, semaphoreVars
    <2> QED
      BY <2>1, QueueQuiet, NoteQuiet, SameSemaphore
  <1>5. CASE QueueWrite(t)
    <2>1. PICK sent \in {0, 1} : Send(Argument(t), sent)
      BY <1>5 DEF QueueWrite
    <2>2. UNCHANGED noteVars /\ UNCHANGED semaphoreVars
      BY <2>1 DEF Send, noteVars, semaphoreVars
    <2> QED
      BY <2>1, <2>2, SendKeeps, NoteQuiet, SameSemaphore
  <1>6. CASE QueueRead(t)
    <2>1. PICK received \in {0, 1} : Receive(Argument(t), received)
      BY <1>6 DEF QueueRead
    <2>2. UNCHANGED noteVars /\ UNCHANGED semaphoreVars
      BY <2>1 DEF Receive, noteVars, semaphoreVars
    <2> QED
      BY <2>1, <2>2, ReceiveKeeps, NoteQuiet, SameSemaphore
  <1>7. CASE SemaphoreWait(t)
    <2>1. UNCHANGED queueVars /\ UNCHANGED noteVars
      BY <1>7 DEF SemaphoreWait, queueVars, noteVars
    <2> QED
      BY <1>7, <2>1, QueueQuiet, NoteQuiet, SemaphoreWaitKeeps
  <1>8. CASE SemaphoreSignal(t)
    <2>1. Signal /\ UNCHANGED queueVars /\ UNCHANGED noteVars
      BY <1>8 DEF SemaphoreSignal, Signal, queueVars, noteVars
    <2> QED
      BY <2>1, QueueQuiet, NoteQuiet, SignalKeeps
  <1>9. CASE MutexLock(t) \/ MutexUnlock(t)
    <2>1. UNCHANGED queueVars /\ UNCHANGED noteVars /\ UNCHANGED semaphoreVars
      BY <1>9 DEF MutexLock, MutexUnlock, queueVars, noteVars, known, semaphoreVars
    <2> QED
      BY <2>1, QueueQuiet, NoteQuiet, SameSemaphore
  <1>10. CASE TaskNotify(t)
    <2>1. Notify(Argument(t))
      BY <1>10 DEF TaskNotify
    <2>2. UNCHANGED queueVars /\ UNCHANGED semaphoreVars
      BY <2>1 DEF Notify, queueVars, semaphoreVars
    <2> QED
      BY <2>1, <2>2, NotifyKeeps, QueueQuiet, SameSemaphore
  <1>11. CASE WaitNotification(t)
    <2>1. UNCHANGED queueVars /\ UNCHANGED semaphoreVars
      BY <1>11 DEF WaitNotification, queueVars, semaphoreVars
    <2> QED
      BY <1>11, <2>1, WaitNotificationKeeps, QueueQuiet, SameSemaphore
  <1>12. CASE TaskCreate(t)
    <2>1. UNCHANGED queueVars /\ UNCHANGED semaphoreVars
      BY <1>12 DEF TaskCreate, queueVars, objects, known, semaphoreVars
    <2> QED
      BY <1>12, <2>1, TaskCreateKeeps, QueueQuiet, SameSemaphore
  <1>13. CASE TaskDelete(t)
    <2>1. UNCHANGED queueVars /\ UNCHANGED semaphoreVars
      BY <1>13 DEF TaskDelete, queueVars, objects, known, semaphoreVars
    <2>2. alive' \subseteq alive /\ notes' = notes /\ told' = told /\ heard' = heard
      BY <1>13 DEF TaskDelete, objects, known
    <2>3. NoteInv'
      BY <2>2 DEF NoteInv, NoteTypes, NotesHeard
    <2> QED
      BY <2>1, <2>3, QueueQuiet, SameSemaphore
  <1> QED
    BY <1>1, <1>2, <1>3, <1>4, <1>5, <1>6, <1>7, <1>8, <1>9, <1>10, <1>11, <1>12, <1>13
    DEF RtosStep

LEMMA HandlerKeepsObjects ==
  ASSUME ObjectsInv, RtosHandler
  PROVE  ObjectsInv'
  <1> USE DEF ObjectsInv
  <1>1. CASE HandlerQueueWrite
    <2>1. PICK sent \in {0, 1} : Send(0, sent)
      BY <1>1 DEF HandlerQueueWrite
    <2>2. UNCHANGED noteVars /\ UNCHANGED semaphoreVars
      BY <2>1 DEF Send, noteVars, semaphoreVars
    <2> QED
      BY <2>1, <2>2, SendKeeps, NoteQuiet, SameSemaphore
  <1>2. CASE HandlerQueueRead
    <2>1. PICK received \in {0, 1} : Receive(0, received)
      BY <1>2 DEF HandlerQueueRead
    <2>2. UNCHANGED noteVars /\ UNCHANGED semaphoreVars
      BY <2>1 DEF Receive, noteVars, semaphoreVars
    <2> QED
      BY <2>1, <2>2, ReceiveKeeps, NoteQuiet, SameSemaphore
  <1>3. CASE HandlerSignal
    <2>1. Signal /\ UNCHANGED queueVars /\ UNCHANGED noteVars
      BY <1>3 DEF HandlerSignal, Signal, queueVars, noteVars
    <2> QED
      BY <2>1, QueueQuiet, NoteQuiet, SignalKeeps
  <1>4. CASE HandlerNotify
    <2>1. Notify(HandlerArgument)
      BY <1>4 DEF HandlerNotify
    <2>2. UNCHANGED queueVars /\ UNCHANGED semaphoreVars
      BY <2>1 DEF Notify, queueVars, semaphoreVars
    <2> QED
      BY <2>1, <2>2, NotifyKeeps, QueueQuiet, SameSemaphore
  <1>5. CASE HandlerSkip
    <2>1. UNCHANGED queueVars /\ UNCHANGED noteVars /\ UNCHANGED semaphoreVars
      BY <1>5 DEF HandlerSkip, rtos, queueVars, noteVars, objects, known, semaphoreVars
    <2> QED
      BY <2>1, QueueQuiet, NoteQuiet, SameSemaphore
  <1> QED
    BY <1>1, <1>2, <1>3, <1>4, <1>5 DEF RtosHandler

LEMMA RestKeepsObjects ==
  ASSUME ObjectsInv, UNCHANGED rtos
  PROVE  ObjectsInv'
  <1>1. UNCHANGED queueVars /\ UNCHANGED noteVars /\ UNCHANGED semaphoreVars
    BY DEF rtos, queueVars, noteVars, objects, known, semaphoreVars
  <1> QED
    BY <1>1, QueueQuiet, NoteQuiet, SameSemaphore DEF ObjectsInv

-----------------------------------------------------------------------------
(* The lock: guards taken and given back.                                  *)

HeldIn(g, h) == Cardinality({k \in 1 .. Len(g) : g[k].mutex = h})

\* GuardsBalance, of what tasks are doing and what a mutex says.
Balanced(c, m) ==
  \A h \in Tasks :
    /\ m[h].owner = Null => \A t \in Tasks : HeldIn(c[t].guards, h) = 0
    /\ m[h].owner # Null =>
         /\ m[h].depth = HeldIn(c[m[h].owner].guards, h)
         /\ \A t \in Tasks \ {m[h].owner} : HeldIn(c[t].guards, h) = 0

LEMMA BalancedSame ==
  /\ GuardsBalance <=> Balanced(ctl, mutex)
  /\ GuardsBalance' <=> Balanced(ctl', mutex')
  BY DEF GuardsBalance, Balanced, Held, HeldIn

LEMMA HeldCounts ==
  ASSUME NEW g \in Seq(GuardSet), NEW h
  PROVE  /\ IsFiniteSet({k \in 1 .. Len(g) : g[k].mutex = h})
         /\ HeldIn(g, h) \in Nat
         /\ HeldIn(g, h) = 0 => \A k \in 1 .. Len(g) : g[k].mutex # h
         /\ (\A k \in 1 .. Len(g) : g[k].mutex # h) => HeldIn(g, h) = 0
  <1> DEFINE K == {k \in 1 .. Len(g) : g[k].mutex = h}
  <1>1. Len(g) \in Nat /\ IsFiniteSet(1 .. Len(g))
    BY FS_Interval
  <1>2. IsFiniteSet(K)
    BY <1>1, FS_Subset
  <1>3. Cardinality(K) \in Nat
    BY <1>2, FS_CardinalityType
  <1>4. Cardinality(K) = 0 <=> K = {}
    BY <1>2, FS_EmptySet
  <1> QED
    BY <1>2, <1>3, <1>4 DEF HeldIn

LEMMA HeldAdded ==
  ASSUME NEW g \in Seq(GuardSet), NEW x \in GuardSet, NEW h
  PROVE  HeldIn(Append(g, x), h) = IF x.mutex = h THEN HeldIn(g, h) + 1 ELSE HeldIn(g, h)
  <1> DEFINE K == {k \in 1 .. Len(g) : g[k].mutex = h}
             a == Append(g, x)
             L == {k \in 1 .. Len(a) : a[k].mutex = h}
  <1>1. /\ Len(g) \in Nat /\ Len(a) = Len(g) + 1 /\ a[Len(g) + 1] = x
        /\ \A k \in 1 .. Len(g) : a[k] = g[k]
    OBVIOUS
  <1>2. \A k : k \in 1 .. Len(g) + 1 <=> k \in 1 .. Len(g) \/ k = Len(g) + 1
    BY <1>1
  <1>3. Len(g) + 1 \notin K /\ IsFiniteSet(K)
    <2>1. Len(g) + 1 \notin 1 .. Len(g)
      BY <1>1
    <2>2. IsFiniteSet(K)
      BY HeldCounts
    <2> QED
      BY <2>1, <2>2
  <1> HIDE DEF a
  <1>4. CASE x.mutex = h
    <2>1. L = K \union {Len(g) + 1}
      BY <1>1, <1>2, <1>4
    <2> QED
      BY <1>3, <1>4, <2>1, FS_AddElement DEF HeldIn, a
  <1>5. CASE x.mutex # h
    <2>1. L = K
      BY <1>1, <1>2, <1>5
    <2> QED
      BY <1>5, <2>1 DEF HeldIn, a
  <1> QED
    BY <1>4, <1>5

LEMMA HeldDropped ==
  ASSUME NEW g \in Seq(GuardSet), Ranked(g), g # << >>, NEW h
  PROVE  /\ HeldIn(Front(g), h) \in Nat
         /\ HeldIn(g, h) = IF Last(g).mutex = h THEN HeldIn(Front(g), h) + 1
                           ELSE HeldIn(Front(g), h)
  <1> DEFINE f == Front(g)
  <1>1. /\ f \in Seq(GuardSet) /\ Len(g) \in Nat /\ Len(g) > 0 /\ Len(f) = Len(g) - 1
        /\ \A k \in 1 .. Len(g) - 1 : f[k] = g[k]
        /\ Last(g) = g[Len(g)] /\ Last(g) \in GuardSet
    BY GuardDropped
  <1> HIDE DEF f
  <1>2. g = Append(f, Last(g))
    <2>1. Append(f, Last(g)) \in Seq(GuardSet) /\ Len(Append(f, Last(g))) = Len(g)
      BY <1>1
    <2>2. ASSUME NEW k \in 1 .. Len(g) PROVE g[k] = Append(f, Last(g))[k]
      BY <1>1
    <2> QED
      BY <2>1, <2>2, SeqEqual
  <1>3. HeldIn(Append(f, Last(g)), h) = IF Last(g).mutex = h THEN HeldIn(f, h) + 1 ELSE HeldIn(f, h)
    BY <1>1, HeldAdded
  <1>4. HeldIn(f, h) \in Nat
    BY <1>1, HeldCounts
  <1>5. HeldIn(g, h) = IF Last(g).mutex = h THEN HeldIn(f, h) + 1 ELSE HeldIn(f, h)
    BY <1>2, <1>3, Zenon
  <1> QED
    BY <1>4, <1>5 DEF f

\* A task that waits has a mutex to wait for, and one that made a mutex has not
\* yet lost it.
Place(t) ==
  /\ ctl[t].pc = "wait" => LOCK # Null
  /\ ctl[t].pc = "exchange" => t \in live
  /\ ctl[t].pc \in {"create", "exchange"} => LOCK # t

FreeIsWhole == \A h \in Tasks : mutex[h].owner = Null => mutex[h].depth = 0

LockInv ==
  /\ LockTypes /\ OneMutex /\ GuardsBalance /\ FreeIsWhole
  /\ \A t \in Tasks : Place(t)

LEMMA LockStarts == Init => LockInv
  <1> SUFFICES ASSUME Init PROVE LockInv
    OBVIOUS
  <1>1. /\ LOCK = Null /\ live = {} /\ mutex = [h \in Tasks |-> [owner |-> Null, depth |-> 0]]
        /\ \A t \in Tasks : ctl[t].pc = "idle" /\ ctl[t].guards = << >>
    BY DEF Init, Idle
  <1>2. << >> \in Seq(GuardSet) /\ Len(<< >>) = 0
    OBVIOUS
  <1>3. ASSUME NEW h PROVE HeldIn(<< >>, h) = 0
    <2>1. \A k \in 1 .. Len(<< >>) : << >>[k].mutex # h
      BY <1>2
    <2> QED
      BY <1>2, <2>1, HeldCounts
  <1>4. \A t \in Tasks : \A h : HeldIn(ctl[t].guards, h) = 0
    BY <1>1, <1>3
  <1>5. LockTypes /\ FreeIsWhole
    BY <1>1 DEF LockTypes, FreeIsWhole
  <1>6. GuardsBalance
    BY <1>1, <1>4, BalancedSame DEF Balanced
  <1>7. OneMutex
    BY <1>1, <1>2 DEF OneMutex
  <1> QED
    BY <1>1, <1>5, <1>6, <1>7 DEF LockInv, Place

\* A step that leaves the guards and the lock alone.
Unguarded(t) == Steady(t) /\ ctl'[t].guards = ctl[t].guards /\ mutex' = mutex

LEMMA BalanceQuiet ==
  ASSUME LockTypes, GuardsBalance, FreeIsWhole, NEW t \in Tasks, Unguarded(t)
  PROVE  GuardsBalance' /\ FreeIsWhole'
  <1>1. \A u \in Tasks : ctl'[u].guards = ctl[u].guards
    BY DEF Unguarded, Steady
  <1>2. mutex' = mutex /\ Balanced(ctl, mutex)
    BY BalancedSame DEF Unguarded
  <1>3. \A h \in Tasks : mutex[h].owner # Null => mutex[h].owner \in Tasks
    BY DEF LockTypes
  <1>4. Balanced(ctl', mutex)
    BY <1>1, <1>2, <1>3 DEF Balanced
  <1> QED
    BY <1>2, <1>4, BalancedSame DEF FreeIsWhole

LEMMA LockQuiet ==
  ASSUME LockInv, NEW t \in Tasks, Unguarded(t), UNCHANGED kernel,
         ctl'[t].pc \notin {"wait", "create", "exchange"}
  PROVE  LockInv'
  <1>1. LockTypes'
    BY DEF LockInv, LockTypes, kernel
  <1>2. GuardsBalance' /\ FreeIsWhole'
    BY BalanceQuiet DEF LockInv
  <1>3. OneMutex'
    BY DEF LockInv, OneMutex, kernel, Unguarded, Steady
  <1>4. \A u \in Tasks : Place(u)'
    BY DEF LockInv, Place, kernel, Unguarded, Steady
  <1> QED
    BY <1>1, <1>2, <1>3, <1>4 DEF LockInv

LEMMA LockRests ==
  ASSUME LockInv, ctl' = ctl, UNCHANGED kernel
  PROVE  LockInv'
  <1>1. UNCHANGED <<LOCK, live, mutex>>
    BY DEF kernel
  <1>2. GuardsBalance'
    BY <1>1, BalancedSame DEF LockInv
  <1> QED
    BY <1>1, <1>2 DEF LockInv, LockTypes, OneMutex, FreeIsWhole, Place

LEMMA TakeLoadLocks ==
  ASSUME CallTypes, TasksFlow, LockInv, NEW t \in Tasks, TakeLoad(t)
  PROVE  LockInv'
  <1>1. LockTypes /\ OneMutex /\ GuardsBalance /\ FreeIsWhole /\ \A u \in Tasks : Place(u)
    BY DEF LockInv
  <1>2. ctl[t] \in Doing /\ Steady(t) /\ LOCK' = LOCK /\ live' = live /\ mutex' = mutex
    BY <1>1, TakeLoadMoves DEF CallTypes, TakeLoad, kernel
  <1>3. /\ ctl'[t].guards = ctl[t].guards
        /\ \/ LOCK = Null /\ ctl'[t].pc = "create"
           \/ LOCK # Null /\ ctl'[t].pc = "wait" /\ ctl'[t].hand = LOCK
    BY <1>1, <1>2, TakeLoadMoves DEF Doing
  <1>4. GuardsBalance' /\ FreeIsWhole'
    BY <1>1, <1>2, <1>3, BalanceQuiet DEF Unguarded
  <1>5. OneMutex'
    BY <1>1, <1>2, <1>3 DEF OneMutex, Steady
  <1>6. \A u \in Tasks : Place(u)'
    BY <1>1, <1>2, <1>3, RtosAssumption DEF Place, Steady, RtosAssumption
  <1> QED
    BY <1>1, <1>2, <1>4, <1>5, <1>6 DEF LockInv, LockTypes

LEMMA CreateLocks ==
  ASSUME CallTypes, TasksFlow, LockInv, NEW t \in Tasks, Create(t)
  PROVE  LockInv'
  <1>1. LockTypes /\ OneMutex /\ GuardsBalance /\ FreeIsWhole /\ \A u \in Tasks : Place(u)
    BY DEF LockInv
  <1>2. /\ Steady(t) /\ LOCK' = LOCK /\ live' = live \union {t} /\ mutex' = mutex
        /\ ctl'[t].guards = ctl[t].guards /\ ctl[t].pc = "create" /\ ctl'[t].pc = "exchange"
    BY CreateMoves DEF Create
  <1>3. GuardsBalance' /\ FreeIsWhole'
    BY <1>1, <1>2, BalanceQuiet DEF Unguarded
  <1>4. OneMutex'
    BY <1>1, <1>2 DEF OneMutex, Steady
  <1>5. \A u \in Tasks : Place(u)'
    BY <1>1, <1>2 DEF Place, Steady
  <1> QED
    BY <1>1, <1>2, <1>3, <1>4, <1>5 DEF LockInv, LockTypes

LEMMA ExchangeLocks ==
  ASSUME CallTypes, TasksFlow, LockInv, NEW t \in Tasks, Exchange(t)
  PROVE  LockInv'
  <1>1. LockTypes /\ OneMutex /\ GuardsBalance /\ FreeIsWhole /\ \A u \in Tasks : Place(u)
    BY DEF LockInv
  <1>2. /\ Steady(t) /\ mutex' = mutex /\ ctl'[t].guards = ctl[t].guards
        /\ ctl[t].pc = "exchange" /\ ctl'[t].pc = "wait" /\ ctl'[t].hand = LOCK'
        /\ LOCK' = (IF LOCK = Null THEN t ELSE LOCK)
        /\ live' = (IF LOCK = Null THEN live ELSE live \ {t})
    BY <1>1, ExchangeMoves DEF Exchange
  <1>3. t \in live /\ LOCK # t /\ t # Null
    BY <1>1, <1>2, RtosAssumption DEF Place, RtosAssumption
  <1>4. GuardsBalance' /\ FreeIsWhole'
    BY <1>1, <1>2, BalanceQuiet DEF Unguarded
  <1>5. CASE LOCK = Null
    <2>1. OneMutex'
      BY <1>1, <1>2, <1>3, <1>5 DEF OneMutex, Steady, Place
    <2>2. \A u \in Tasks : Place(u)'
      BY <1>1, <1>2, <1>3, <1>5 DEF Place, Steady
    <2> QED
      BY <1>1, <1>2, <1>4, <1>5, <2>1, <2>2 DEF LockInv, LockTypes
  <1>6. CASE LOCK # Null
    <2>1. OneMutex'
      BY <1>1, <1>2, <1>3, <1>6 DEF OneMutex, Steady
    <2>2. \A u \in Tasks : Place(u)'
      BY <1>1, <1>2, <1>3, <1>6 DEF Place, Steady
    <2> QED
      BY <1>1, <1>2, <1>4, <1>6, <2>1, <2>2 DEF LockInv, LockTypes
  <1> QED
    BY <1>5, <1>6

LEMMA CreateFailsLocks ==
  ASSUME CallTypes, TasksFlow, LockInv, NEW t \in Tasks, CreateFails(t)
  PROVE  LockInv'
  <1> DEFINE g == ctl[t].guards
             x == [for |-> ctl[t].want, mutex |-> Null]
  <1>1. LockTypes /\ OneMutex /\ GuardsBalance /\ FreeIsWhole /\ \A u \in Tasks : Place(u)
    BY DEF LockInv
  <1>2. /\ ctl[t].pc \in Taking /\ GuardOver(t, Null) /\ isr' = isr
        /\ LOCK' = LOCK /\ live' = live /\ mutex' = mutex
    BY DEF CreateFails, At, Taking, kernel
  <1>3. Steady(t) /\ ctl'[t].guards = Append(g, x) /\ ctl'[t].pc \in {"real", "next"}
    BY <1>2, GuardOverMoves
  <1>4. g \in Seq(GuardSet) /\ x \in GuardSet /\ x.mutex = Null
    BY DEF CallTypes, Doing, GuardSet
  <1> HIDE DEF x
  <1>5. /\ Len(Append(g, x)) = Len(g) + 1 /\ Append(g, x)[Len(g) + 1] = x
        /\ \A k \in 1 .. Len(g) : Append(g, x)[k] = g[k]
    BY <1>4
  <1>6. Len(g) \in Nat /\ \A k \in 1 .. Len(g) + 1 : k \in 1 .. Len(g) \/ k = Len(g) + 1
    BY <1>4
  <1>7. GuardsBalance'
    <2>1. \A h \in Tasks : x.mutex # h
      BY <1>4, RtosAssumption DEF RtosAssumption
    <2>2. \A h \in Tasks : HeldIn(Append(g, x), h) = HeldIn(g, h)
      BY <1>4, <2>1, HeldAdded
    <2>3. \A h \in Tasks : \A u \in Tasks : HeldIn(ctl'[u].guards, h) = HeldIn(ctl[u].guards, h)
      BY <1>3, <2>2 DEF Steady
    <2>4. \A h \in Tasks : mutex[h].owner # Null => mutex[h].owner \in Tasks
      BY <1>1 DEF LockTypes
    <2>5. Balanced(ctl, mutex)
      BY <1>1, BalancedSame
    <2>6. Balanced(ctl', mutex)
      BY <2>3, <2>4, <2>5 DEF Balanced
    <2> QED
      BY <1>2, <2>6, BalancedSame
  <1>8. OneMutex'
    <2>1. \A k \in 1 .. Len(g) : g[k].mutex \in {LOCK, Null}
      BY <1>1 DEF OneMutex
    <2>2. \A k \in 1 .. Len(Append(g, x)) : Append(g, x)[k].mutex \in {LOCK, Null}
      BY <1>4, <1>5, <1>6, <2>1
    <2> HIDE DEF g
    <2>3. \A k \in 1 .. Len(ctl'[t].guards) : ctl'[t].guards[k].mutex \in {LOCK, Null}
      BY <1>3, <2>2
    <2> QED
      BY <1>1, <1>2, <1>3, <2>3 DEF OneMutex, Steady
  <1>9. \A u \in Tasks : Place(u)'
    BY <1>1, <1>2, <1>3 DEF Place, Steady
  <1> QED
    BY <1>1, <1>2, <1>7, <1>8, <1>9 DEF LockInv, LockTypes, FreeIsWhole

LEMMA TakeLocks ==
  ASSUME CallTypes, TasksFlow, LockInv, NEW t \in Tasks, Take(t)
  PROVE  LockInv'
  <1> DEFINE g == ctl[t].guards
             x == [for |-> ctl[t].want, mutex |-> LOCK]
  <1>1. LockTypes /\ OneMutex /\ GuardsBalance /\ FreeIsWhole /\ \A u \in Tasks : Place(u)
    BY DEF LockInv
  <1>2. ctl[t].pc = "wait" /\ ctl[t].hand = LOCK /\ LOCK \in Tasks /\ LOCK # Null
    BY <1>1, RtosAssumption DEF Take, At, Place, OneMutex, LockTypes
  <1>3. /\ ctl[t].pc \in Taking /\ GuardOver(t, LOCK) /\ isr' = isr
        /\ LOCK' = LOCK /\ live' = live
        /\ mutex[LOCK].owner \in {Null, t}
        /\ mutex' = [mutex EXCEPT ![LOCK] = [owner |-> t, depth |-> mutex[LOCK].depth + 1]]
    BY <1>2 DEF Take, Taking
  <1>4. Steady(t) /\ ctl'[t].guards = Append(g, x) /\ ctl'[t].pc \in {"real", "next"}
    BY <1>2, <1>3, GuardOverMoves
  <1>5. g \in Seq(GuardSet) /\ x \in GuardSet /\ x.mutex = LOCK
    BY <1>2 DEF CallTypes, Doing, GuardSet
  <1> HIDE DEF x
  <1>6. /\ Len(Append(g, x)) = Len(g) + 1 /\ Append(g, x)[Len(g) + 1] = x
        /\ \A k \in 1 .. Len(g) : Append(g, x)[k] = g[k]
    BY <1>5
  <1>7. Len(g) \in Nat /\ \A k \in 1 .. Len(g) + 1 : k \in 1 .. Len(g) \/ k = Len(g) + 1
    BY <1>5
  <1>8. /\ mutex'[LOCK].owner = t /\ mutex'[LOCK].depth = mutex[LOCK].depth + 1
        /\ \A h \in Tasks \ {LOCK} : mutex'[h] = mutex[h]
        /\ mutex' \in [Tasks -> [owner : Tasks \union {Null}, depth : Nat]]
    BY <1>1, <1>2, <1>3 DEF LockTypes
  <1>9. GuardsBalance'
    <2>1. \A h \in Tasks : HeldIn(Append(g, x), h) =
                              IF LOCK = h THEN HeldIn(g, h) + 1 ELSE HeldIn(g, h)
      BY <1>5, HeldAdded
    <2>2. \A h \in Tasks : /\ \A u \in Tasks \ {t} : HeldIn(ctl'[u].guards, h) = HeldIn(ctl[u].guards, h)
                           /\ HeldIn(ctl'[t].guards, h) =
                                IF LOCK = h THEN HeldIn(g, h) + 1 ELSE HeldIn(g, h)
      BY <1>4, <2>1 DEF Steady
    <2>3. Balanced(ctl, mutex)
      BY <1>1, BalancedSame
    <2>4. HeldIn(g, LOCK) = mutex[LOCK].depth /\ \A u \in Tasks \ {t} : HeldIn(ctl[u].guards, LOCK) = 0
      <3>1. CASE mutex[LOCK].owner = Null
        BY <1>1, <1>2, <2>3, <3>1 DEF Balanced, FreeIsWhole
      <3>2. CASE mutex[LOCK].owner = t
        BY <1>2, <2>3, <3>2, RtosAssumption DEF Balanced, RtosAssumption
      <3> QED
        BY <1>3, <3>1, <3>2
    <2>5. \A h \in Tasks : mutex[h].owner # Null => mutex[h].owner \in Tasks
      BY <1>1 DEF LockTypes
    <2> HIDE DEF g
    <2>6. ASSUME NEW h \in Tasks, h # LOCK
          PROVE  /\ mutex'[h].owner = Null => \A u \in Tasks : HeldIn(ctl'[u].guards, h) = 0
                 /\ mutex'[h].owner # Null =>
                      /\ mutex'[h].depth = HeldIn(ctl'[mutex'[h].owner].guards, h)
                      /\ \A u \in Tasks \ {mutex'[h].owner} : HeldIn(ctl'[u].guards, h) = 0
      <3>1. \A u \in Tasks : HeldIn(ctl'[u].guards, h) = HeldIn(ctl[u].guards, h)
        BY <2>2, <2>6 DEF g
      <3>2. mutex'[h] = mutex[h]
        BY <1>8, <2>6
      <3> QED
        BY <2>3, <2>5, <3>1, <3>2 DEF Balanced
    <2>7. /\ mutex'[LOCK].owner = t /\ t # Null
          /\ mutex'[LOCK].depth = HeldIn(ctl'[t].guards, LOCK)
          /\ \A u \in Tasks \ {t} : HeldIn(ctl'[u].guards, LOCK) = 0
      BY <1>2, <1>8, <2>2, <2>4, RtosAssumption DEF RtosAssumption
    <2>8. Balanced(ctl', mutex')
      BY <2>6, <2>7 DEF Balanced
    <2> QED
      BY <2>8, BalancedSame
  <1>10. OneMutex'
    <2>1. \A k \in 1 .. Len(g) : g[k].mutex \in {LOCK, Null}
      BY <1>1 DEF OneMutex
    <2>2. \A k \in 1 .. Len(Append(g, x)) : Append(g, x)[k].mutex \in {LOCK, Null}
      BY <1>5, <1>6, <1>7, <2>1
    <2> HIDE DEF g
    <2>3. \A k \in 1 .. Len(ctl'[t].guards) : ctl'[t].guards[k].mutex \in {LOCK, Null}
      BY <1>4, <2>2
    <2> QED
      BY <1>1, <1>3, <1>4, <2>3 DEF OneMutex, Steady
  <1>11. \A u \in Tasks : Place(u)'
    BY <1>1, <1>3, <1>4 DEF Place, Steady
  <1>12. FreeIsWhole'
    BY <1>1, <1>8, RtosAssumption DEF FreeIsWhole, RtosAssumption
  <1> QED
    BY <1>1, <1>3, <1>8, <1>9, <1>10, <1>11, <1>12 DEF LockInv, LockTypes

LEMMA DropLocks ==
  ASSUME CallTypes, TasksFlow, LockInv, NEW t \in Tasks, Drop(t)
  PROVE  LockInv'
  <1> DEFINE g == ctl[t].guards
             f == Front(g)
             m == Last(g).mutex
  <1>1. LockTypes /\ OneMutex /\ GuardsBalance /\ FreeIsWhole /\ \A u \in Tasks : Place(u)
    BY DEF LockInv
  <1>2. /\ Steady(t) /\ ctl'[t].pc = "next" /\ ctl'[t].guards = f
        /\ g \in Seq(GuardSet) /\ g # << >> /\ Ranked(g)
    BY DropMoves
  <1>3. /\ LOCK' = LOCK /\ live' = live
        /\ mutex' = IF m = Null THEN mutex ELSE [mutex EXCEPT ![m] = Given(mutex[m])]
    BY DEF Drop
  <1>4. /\ f \in Seq(GuardSet) /\ Len(g) \in Nat /\ Len(g) > 0 /\ Len(f) = Len(g) - 1
        /\ \A k \in 1 .. Len(g) - 1 : f[k] = g[k]
        /\ Last(g) = g[Len(g)] /\ Last(g) \in GuardSet
    BY <1>2, GuardDropped
  <1>5. m \in Tasks \union {Null}
    BY <1>4 DEF GuardSet
  <1>6. \A h \in Tasks : /\ HeldIn(f, h) \in Nat
                         /\ HeldIn(g, h) = IF m = h THEN HeldIn(f, h) + 1 ELSE HeldIn(f, h)
    BY <1>2, HeldDropped
  <1>7. OneMutex'
    <2>1. \A k \in 1 .. Len(g) : g[k].mutex \in {LOCK, Null}
      BY <1>1 DEF OneMutex
    <2> HIDE DEF g, f
    <2>2. \A k \in 1 .. Len(f) : f[k].mutex \in {LOCK, Null}
      BY <1>4, <2>1
    <2> QED
      BY <1>1, <1>2, <1>3, <2>2 DEF OneMutex, Steady
  <1>8. \A u \in Tasks : Place(u)'
    BY <1>1, <1>2, <1>3 DEF Place, Steady
  <1>9. Balanced(ctl, mutex) /\ Null \notin Tasks
    BY <1>1, BalancedSame, RtosAssumption DEF RtosAssumption
  <1>10. \A h \in Tasks : /\ \A u \in Tasks \ {t} : HeldIn(ctl'[u].guards, h) = HeldIn(ctl[u].guards, h)
                          /\ HeldIn(ctl'[t].guards, h) = HeldIn(f, h)
    BY <1>2 DEF Steady
  <1>11. \A h \in Tasks : mutex[h].owner # Null => mutex[h].owner \in Tasks
    BY <1>1 DEF LockTypes
  <1>12. CASE m = Null
    <2>1. mutex' = mutex
      BY <1>3, <1>12
    <2>2. \A h \in Tasks : \A u \in Tasks : HeldIn(ctl'[u].guards, h) = HeldIn(ctl[u].guards, h)
      BY <1>6, <1>9, <1>10, <1>12
    <2>3. Balanced(ctl', mutex)
      BY <1>9, <1>11, <2>2 DEF Balanced
    <2> QED
      BY <1>1, <1>3, <1>7, <1>8, <2>1, <2>3, BalancedSame DEF LockInv, LockTypes, FreeIsWhole
  <1>13. CASE m # Null
    <2>1. m \in Tasks /\ HeldIn(g, m) = HeldIn(f, m) + 1 /\ HeldIn(f, m) \in Nat
      BY <1>5, <1>6, <1>13
    <2>2. mutex[m].owner = t /\ mutex[m].depth = HeldIn(g, m)
      <3>1. HeldIn(g, m) # 0
        BY <2>1
      <3> QED
        BY <1>9, <2>1, <3>1 DEF Balanced
    <2>3. mutex[m] \in [owner : Tasks \union {Null}, depth : Nat]
      BY <1>1, <2>1 DEF LockTypes
    <2>4. /\ Given(mutex[m]) \in [owner : Tasks \union {Null}, depth : Nat]
          /\ Given(mutex[m]).depth = HeldIn(f, m)
          /\ Given(mutex[m]).owner = IF HeldIn(f, m) = 0 THEN Null ELSE t
      <3>1. CASE HeldIn(f, m) = 0
        BY <2>1, <2>2, <2>3, <3>1 DEF Given
      <3>2. CASE HeldIn(f, m) # 0
        <4>1. mutex[m].depth # 1 /\ mutex[m].depth - 1 = HeldIn(f, m)
          BY <2>1, <2>2, <3>2
        <4>2. Given(mutex[m]) = [mutex[m] EXCEPT !.depth = HeldIn(f, m)]
          BY <4>1 DEF Given
        <4> QED
          BY <2>1, <2>2, <2>3, <3>2, <4>2
      <3> QED
        BY <3>1, <3>2
    <2>5. /\ mutex' \in [Tasks -> [owner : Tasks \union {Null}, depth : Nat]]
          /\ mutex'[m].depth = HeldIn(f, m)
          /\ mutex'[m].owner = IF HeldIn(f, m) = 0 THEN Null ELSE t
          /\ \A h \in Tasks \ {m} : mutex'[h] = mutex[h]
      BY <1>1, <1>3, <1>13, <2>1, <2>4 DEF LockTypes
    <2> HIDE DEF g, f, m
    <2>6. ASSUME NEW h \in Tasks, h # m
          PROVE  /\ mutex'[h].owner = Null => \A u \in Tasks : HeldIn(ctl'[u].guards, h) = 0
                 /\ mutex'[h].owner # Null =>
                      /\ mutex'[h].depth = HeldIn(ctl'[mutex'[h].owner].guards, h)
                      /\ \A u \in Tasks \ {mutex'[h].owner} : HeldIn(ctl'[u].guards, h) = 0
      <3>1. \A u \in Tasks : HeldIn(ctl'[u].guards, h) = HeldIn(ctl[u].guards, h)
        BY <1>6, <1>10, <2>6 DEF g
      <3>2. mutex'[h] = mutex[h]
        BY <2>5, <2>6
      <3> QED
        BY <1>9, <1>11, <3>1, <3>2 DEF Balanced
    <2>7. \A u \in Tasks \ {t} : HeldIn(ctl[u].guards, m) = 0
      BY <1>9, <2>1, <2>2 DEF Balanced
    <2>8. /\ mutex'[m].owner = Null => \A u \in Tasks : HeldIn(ctl'[u].guards, m) = 0
          /\ mutex'[m].owner # Null =>
               /\ mutex'[m].depth = HeldIn(ctl'[mutex'[m].owner].guards, m)
               /\ \A u \in Tasks \ {mutex'[m].owner} : HeldIn(ctl'[u].guards, m) = 0
      BY <1>9, <1>10, <2>1, <2>5, <2>7
    <2>9. Balanced(ctl', mutex')
      BY <2>6, <2>8 DEF Balanced
    <2>10. FreeIsWhole'
      BY <1>1, <1>9, <2>5 DEF FreeIsWhole
    <2> QED
      BY <1>1, <1>3, <1>7, <1>8, <2>5, <2>9, <2>10, BalancedSame DEF LockInv, LockTypes
  <1> QED
    BY <1>12, <1>13

-----------------------------------------------------------------------------
(* The output: what is written while a task holds the lock for its line.   *)

Written == [by : Tasks \union {Null}, call : Nat, locked : BOOLEAN, line : BOOLEAN]

HoldsLine(c) == c.guards # << >> /\ c.guards[1].for = "line" /\ c.guards[1].mutex # Null

\* A line some bytes of which are out is complete, or its task holds the lock,
\* and then nobody else has written under it since.
Printed(out, c) ==
  \A i \in DOMAIN out : out[i].line =>
    LET d == c[out[i].by] IN
      /\ out[i].by \in Tasks /\ Len(d.todo) <= out[i].call
      /\ out[i].call = Len(d.todo) =>
           /\ d.chunks = << >> \/ HoldsLine(d)
           /\ HoldsLine(d) =>
                \A j \in DOMAIN out : j > i /\ out[j].locked => out[j].by = out[i].by

OutputInv == output \in Seq(Written) /\ LinesWhole /\ Printed(output, ctl)

LEMMA OutputStarts == Init => OutputInv
  BY DEF Init, OutputInv, LinesWhole, Printed

\* What a step of t that writes nothing may do.
Prints(c, d) ==
  \/ Len(d.todo) < Len(c.todo)
  \/ /\ d.todo = c.todo
     /\ c.chunks = << >> \/ HoldsLine(c) => d.chunks = << >> \/ HoldsLine(d)
     /\ HoldsLine(d) => HoldsLine(c) \/ c.chunks # << >>

LEMMA OutputQuiet ==
  ASSUME CallTypes, OutputInv, NEW t \in Tasks, Steady(t), CallTypes', output' = output,
         Prints(ctl[t], ctl'[t])
  PROVE  OutputInv'
  <1>1. Printed(output, ctl)
    BY DEF OutputInv
  <1>2. Len(ctl[t].todo) \in Nat /\ Len(ctl'[t].todo) \in Nat
    BY DEF CallTypes, Doing
  <1>3. ASSUME NEW i \in DOMAIN output, output[i].line
        PROVE  LET d == ctl'[output[i].by] IN
                 /\ output[i].by \in Tasks /\ Len(d.todo) <= output[i].call
                 /\ output[i].call = Len(d.todo) =>
                      /\ d.chunks = << >> \/ HoldsLine(d)
                      /\ HoldsLine(d) => \A j \in DOMAIN output :
                           j > i /\ output[j].locked => output[j].by = output[i].by
    <2>1. output[i].by \in Tasks /\ Len(ctl[output[i].by].todo) <= output[i].call
      BY <1>1, <1>3 DEF Printed
    <2>2. CASE output[i].by # t
      <3>1. ctl'[output[i].by] = ctl[output[i].by]
        BY <2>1, <2>2 DEF Steady
      <3> QED
        BY <1>1, <1>3, <3>1 DEF Printed
    <2>3. CASE output[i].by = t
      <3>1. /\ Len(ctl[t].todo) <= output[i].call
            /\ output[i].call = Len(ctl[t].todo) =>
                 /\ ctl[t].chunks = << >> \/ HoldsLine(ctl[t])
                 /\ HoldsLine(ctl[t]) => \A j \in DOMAIN output :
                      j > i /\ output[j].locked => output[j].by = output[i].by
        BY <1>1, <1>3, <2>3 DEF Printed
      <3>2. output[i].call \in Nat
        <4>1. output[i] \in Written
          BY DEF OutputInv
        <4> QED
          BY <4>1 DEF Written
      <3> HIDE DEF HoldsLine
      <3>3. CASE Len(ctl'[t].todo) < Len(ctl[t].todo)
        BY <1>2, <2>3, <3>1, <3>2, <3>3
      <3>4. CASE ~(Len(ctl'[t].todo) < Len(ctl[t].todo))
        <4>1. /\ ctl'[t].todo = ctl[t].todo
              /\ ctl[t].chunks = << >> \/ HoldsLine(ctl[t]) =>
                   ctl'[t].chunks = << >> \/ HoldsLine(ctl'[t])
              /\ HoldsLine(ctl'[t]) => HoldsLine(ctl[t]) \/ ctl[t].chunks # << >>
          BY <3>4 DEF Prints
        <4> QED
          BY <2>3, <3>1, <4>1
      <3> QED
        BY <3>3, <3>4
    <2> QED
      BY <2>2, <2>3
  <1>4. Printed(output, ctl')
    BY <1>3 DEF Printed
  <1> QED
    BY <1>4 DEF OutputInv, LinesWhole

LEMMA OutputRests ==
  ASSUME OutputInv, ctl' = ctl, output' = output
  PROVE  OutputInv'
  BY DEF OutputInv, LinesWhole, Printed

\* Two tasks do not hold the lock together.
LEMMA OneHolder ==
  ASSUME CallTypes, LockInv, NEW t \in Tasks, NEW u \in Tasks, t # u,
         NEW k \in 1 .. Len(ctl[t].guards), NEW l \in 1 .. Len(ctl[u].guards),
         ctl[t].guards[k].mutex # Null, ctl[u].guards[l].mutex # Null
  PROVE  FALSE
  <1>1. ctl[t].guards \in Seq(GuardSet) /\ ctl[u].guards \in Seq(GuardSet)
    BY DEF CallTypes, Doing
  <1>2. ctl[t].guards[k].mutex = LOCK /\ ctl[u].guards[l].mutex = LOCK /\ LOCK \in Tasks
    BY DEF LockInv, OneMutex, LockTypes
  <1>3. HeldIn(ctl[t].guards, LOCK) # 0 /\ HeldIn(ctl[u].guards, LOCK) # 0
    BY <1>1, <1>2, HeldCounts
  <1>4. Balanced(ctl, mutex)
    BY BalancedSame DEF LockInv
  <1> QED
    BY <1>2, <1>3, <1>4 DEF Balanced

\* Something is written by t, or by nobody.
LEMMA OutputGrows ==
  ASSUME OutputInv, CallTypes, NEW e \in Written, output' = Append(output, e),
         \A u \in Tasks : ctl'[u].todo = ctl[u].todo /\ ctl'[u].guards = ctl[u].guards,
         \A u \in Tasks : HoldsLine(ctl[u]) /\ e.locked => e.by = u,
         \A u \in Tasks \ {e.by} : ctl'[u].chunks = ctl[u].chunks,
         e.by \in Tasks => /\ ctl[e.by].chunks # << >> /\ e.call = Len(ctl[e.by].todo)
                           /\ e.line = HoldsLine(ctl[e.by]),
         e.by \notin Tasks => ~e.line
  PROVE  OutputInv'
  <1> DEFINE n == Len(output) + 1
             out == Append(output, e)
  <1>1. output \in Seq(Written) /\ LinesWhole /\ Printed(output, ctl)
    BY DEF OutputInv
  <1>2. /\ Len(output) \in Nat /\ DOMAIN output = 1 .. Len(output)
        /\ out \in Seq(Written) /\ DOMAIN out = 1 .. n /\ out[n] = e
        /\ \A i \in 1 .. Len(output) : out[i] = output[i]
    BY <1>1
  <1>3. \A i \in 1 .. n : i \in 1 .. Len(output) \/ i = n
    BY <1>2
  <1>4. \A u \in Tasks : HoldsLine(ctl'[u]) <=> HoldsLine(ctl[u])
    BY DEF HoldsLine
  <1> HIDE DEF out, n, HoldsLine
  <1>5. ASSUME NEW i \in 1 .. Len(output), output[i].line
        PROVE  /\ output[i].by \in Tasks /\ Len(ctl[output[i].by].todo) <= output[i].call
               /\ output[i].call = Len(ctl[output[i].by].todo) =>
                    /\ ctl[output[i].by].chunks = << >> \/ HoldsLine(ctl[output[i].by])
                    /\ HoldsLine(ctl[output[i].by]) => \A j \in 1 .. Len(output) :
                         j > i /\ output[j].locked => output[j].by = output[i].by
    BY <1>1, <1>2, <1>5 DEF Printed
  <1>6. ASSUME NEW i \in 1 .. n, out[i].line
        PROVE  LET d == ctl'[out[i].by] IN
                 /\ out[i].by \in Tasks /\ Len(d.todo) <= out[i].call
                 /\ out[i].call = Len(d.todo) =>
                      /\ d.chunks = << >> \/ HoldsLine(d)
                      /\ HoldsLine(d) => \A j \in 1 .. n :
                           j > i /\ out[j].locked => out[j].by = out[i].by
    <2>1. CASE i = n
      <3>1. e.by \in Tasks /\ e.call = Len(ctl[e.by].todo) /\ HoldsLine(ctl[e.by])
        BY <1>2, <1>6, <2>1
      <3>2. Len(ctl[e.by].todo) \in Nat
        BY <3>1 DEF CallTypes, Doing
      <3>3. \A j \in 1 .. n : ~(j > i)
        BY <1>2, <2>1 DEF n
      <3> QED
        BY <1>2, <1>4, <2>1, <3>1, <3>2, <3>3
    <2>2. CASE i \in 1 .. Len(output)
      <3>1. output[i].line /\ out[i] = output[i]
        BY <1>2, <1>6, <2>2
      <3>2. PICK u \in Tasks : u = output[i].by
        BY <1>5, <2>2, <3>1
      <3>3. /\ Len(ctl[u].todo) <= output[i].call
            /\ output[i].call = Len(ctl[u].todo) =>
                 /\ ctl[u].chunks = << >> \/ HoldsLine(ctl[u])
                 /\ HoldsLine(ctl[u]) => \A j \in 1 .. Len(output) :
                      j > i /\ output[j].locked => output[j].by = u
        BY <1>5, <2>2, <3>1, <3>2
      <3>4. ctl[u].chunks = << >> \/ HoldsLine(ctl[u]) =>
              ctl'[u].chunks = << >> \/ HoldsLine(ctl'[u])
        BY <1>4
      <3>5. HoldsLine(ctl'[u]) /\ output[i].call = Len(ctl[u].todo) =>
              \A j \in 1 .. n : j > i /\ out[j].locked => out[j].by = u
        BY <1>2, <1>3, <1>4, <3>3
      <3> QED
        BY <3>1, <3>2, <3>3, <3>4, <3>5
    <2> QED
      BY <1>3, <2>1, <2>2
  <1>7. Printed(out, ctl')
    BY <1>2, <1>6 DEF Printed
  <1>8. ASSUME NEW i \in 1 .. n, NEW j \in 1 .. n, NEW k \in 1 .. n, i < j, j < k,
               out[i].by = out[k].by, out[i].call = out[k].call, out[i].line, out[j].locked
        PROVE  out[j].by = out[i].by
    <2>1. i \in 1 .. Len(output) /\ j \in 1 .. Len(output)
      BY <1>2, <1>8 DEF n
    <2>2. out[i] = output[i] /\ out[j] = output[j]
      BY <1>2, <2>1
    <2>3. CASE k \in 1 .. Len(output)
      <3>1. out[k] = output[k]
        BY <1>2, <2>3
      <3>2. i \in DOMAIN output /\ j \in DOMAIN output /\ k \in DOMAIN output
        BY <1>2, <2>1, <2>3
      <3>3. /\ output[i].by = output[k].by /\ output[i].call = output[k].call
            /\ output[i].line /\ output[j].locked
        BY <1>8, <2>2, <3>1
      <3>4. output[j].by = output[i].by
        BY <1>1, <1>8, <3>2, <3>3 DEF LinesWhole
      <3> QED
        BY <2>2, <3>4
    <2>4. CASE k = n
      <3>1. /\ output[i].by = e.by /\ output[i].call = e.call /\ e.by \in Tasks
        BY <1>2, <1>5, <1>8, <2>1, <2>2, <2>4
      <3>2. /\ output[i].line /\ output[i].call = Len(ctl[e.by].todo)
            /\ ctl[e.by].chunks # << >>
        BY <1>8, <2>2, <3>1
      <3>3. /\ ctl[e.by].chunks = << >> \/ HoldsLine(ctl[e.by])
            /\ HoldsLine(ctl[e.by]) => \A l \in 1 .. Len(output) :
                 l > i /\ output[l].locked => output[l].by = e.by
        BY <1>5, <2>1, <3>1, <3>2
      <3>4. output[j].locked /\ j > i
        BY <1>8, <2>2
      <3> QED
        BY <2>1, <2>2, <3>1, <3>2, <3>3, <3>4
    <2> QED
      BY <1>3, <2>3, <2>4
  <1>9. LinesWhole'
    <2>1. output' = out
      BY DEF out
    <2> QED
      BY <1>2, <1>8, <2>1 DEF LinesWhole
  <1> QED
    BY <1>2, <1>7, <1>9 DEF OutputInv, out

-----------------------------------------------------------------------------
(* The tables: what a write counts, and where the count is.                *)

\* A set with as many elements as the numbers of f add up to.
Pairs(f) == UNION {{s} \X (1 .. f[s]) : s \in 1 .. Slots}

LEMMA InPairs ==
  ASSUME NEW f, NEW p
  PROVE  p \in Pairs(f) <=> \E s \in 1 .. Slots : \E k \in 1 .. f[s] : p = <<s, k>>
  BY DEF Pairs

LEMMA Column ==
  ASSUME NEW s, NEW n \in Nat
  PROVE  IsFiniteSet({s} \X (1 .. n)) /\ Cardinality({s} \X (1 .. n)) = n
  <1>1. IsFiniteSet({s}) /\ Cardinality({s}) = 1
    BY FS_Singleton
  <1>2. IsFiniteSet(1 .. n) /\ Cardinality(1 .. n) = n
    BY FS_Interval
  <1>3. /\ IsFiniteSet({s} \X (1 .. n))
        /\ Cardinality({s} \X (1 .. n)) = Cardinality({s}) * Cardinality(1 .. n)
    BY <1>1, <1>2, FS_Product, Zenon
  <1> QED
    BY <1>1, <1>2, <1>3

Has(f, p) == \E r \in 1 .. Slots, k \in Int : k \in 1 .. f[r] /\ p = <<r, k>>

LEMMA PairsHas ==
  ASSUME NEW f \in [1 .. Slots -> Nat], NEW p, p \in Pairs(f)
  PROVE  Has(f, p)
  <1>1. PICK r \in 1 .. Slots : \E k \in 1 .. f[r] : p = <<r, k>>
    BY DEF Pairs
  <1>2. PICK k \in 1 .. f[r] : p = <<r, k>>
    BY <1>1
  <1>3. k \in Int
    OBVIOUS
  <1> QED
    BY <1>2, <1>3 DEF Has

LEMMA PairsFinite ==
  ASSUME NEW f \in [1 .. Slots -> Nat]
  PROVE  IsFiniteSet(Pairs(f)) /\ Cardinality(Pairs(f)) \in Nat
  <1> DEFINE g == [s \in 1 .. Slots |-> {s} \X (1 .. f[s])]
             G == {{s} \X (1 .. f[s]) : s \in 1 .. Slots}
  <1>1. Slots \in Nat /\ IsFiniteSet(1 .. Slots)
    BY ConsoleAssumption, FS_Interval DEF ConsoleAssumption
  <1>2. g \in Surjection(1 .. Slots, G)
    BY DEF Surjection
  <1>3. IsFiniteSet(G)
    BY <1>1, <1>2, FS_Surjection
  <1>4. ASSUME NEW s \in 1 .. Slots PROVE IsFiniteSet({s} \X (1 .. f[s]))
    <2>1. f[s] \in Nat
      OBVIOUS
    <2> QED
      BY <2>1, Column
  <1>5. \A T \in G : IsFiniteSet(T)
    BY <1>4
  <1>6. IsFiniteSet(UNION G)
    BY <1>3, <1>5, FS_UNION
  <1> QED
    BY <1>6, FS_CardinalityType DEF Pairs

LEMMA PairsUp ==
  ASSUME NEW f \in [1 .. Slots -> Nat], NEW s \in 1 .. Slots
  PROVE  Cardinality(Pairs([f EXCEPT ![s] = @ + 1])) = Cardinality(Pairs(f)) + 1
  <1> DEFINE g == [f EXCEPT ![s] = @ + 1]
             n == f[s]
  <1>1. /\ n \in Nat /\ g \in [1 .. Slots -> Nat] /\ g[s] = n + 1 /\ \A r \in 1 .. Slots : r # s => g[r] = f[r]
    OBVIOUS
  <1> HIDE DEF g
  <1>2. Pairs(g) = Pairs(f) \union {<<s, n + 1>>}
    <2>1. \A k : k \in 1 .. n + 1 <=> k \in 1 .. n \/ k = n + 1
      BY <1>1
    <2>2. ASSUME NEW p, p \in Pairs(g) PROVE p \in Pairs(f) \union {<<s, n + 1>>}
      <3>1. Has(g, p)
        BY <1>1, <2>2, PairsHas
      <3>2. PICK r \in 1 .. Slots, k \in Int : k \in 1 .. g[r] /\ p = <<r, k>>
        BY <3>1 DEF Has
      <3>3. CASE r = s
        BY <1>1, <2>1, <3>2, <3>3, InPairs
      <3>4. CASE r # s
        BY <1>1, <3>2, <3>4, InPairs
      <3> QED
        BY <3>3, <3>4
    <2>3. ASSUME NEW p, p \in Pairs(f) PROVE p \in Pairs(g)
      <3>1. Has(f, p)
        BY <1>1, <2>3, PairsHas
      <3>2. PICK r \in 1 .. Slots, k \in Int : k \in 1 .. f[r] /\ p = <<r, k>>
        BY <3>1 DEF Has
      <3>3. k \in 1 .. g[r]
        BY <1>1, <2>1, <3>2
      <3> QED
        BY <3>2, <3>3, InPairs
    <2>4. <<s, n + 1>> \in Pairs(g)
      <3>1. n + 1 \in 1 .. g[s]
        BY <1>1
      <3> QED
        BY <3>1, InPairs
    <2> QED
      BY <2>2, <2>3, <2>4
  <1>3. <<s, n + 1>> \notin Pairs(f)
    <2>1. SUFFICES ASSUME <<s, n + 1>> \in Pairs(f) PROVE FALSE
      OBVIOUS
    <2>2. Has(f, <<s, n + 1>>)
      BY <2>1, PairsHas
    <2>3. PICK r \in 1 .. Slots, k \in Int : k \in 1 .. f[r] /\ <<s, n + 1>> = <<r, k>>
      BY <2>2 DEF Has
    <2> QED
      BY <1>1, <2>3
  <1>4. Cardinality(Pairs(g)) = Cardinality(Pairs(f)) + 1
    BY <1>2, <1>3, PairsFinite, FS_AddElement
  <1> QED
    BY <1>4 DEF g

LEMMA PairsZero ==
  ASSUME NEW f \in [1 .. Slots -> Nat], NEW s \in 1 .. Slots
  PROVE  Cardinality(Pairs(f)) = Cardinality(Pairs([f EXCEPT ![s] = 0])) + f[s]
  <1> DEFINE g == [f EXCEPT ![s] = 0]
             P == {s} \X (1 .. f[s])
  <1>1. /\ f[s] \in Nat /\ g[s] = 0 /\ \A r \in 1 .. Slots : r # s => g[r] = f[r]
        /\ g \in [1 .. Slots -> Nat] /\ 1 .. 0 = {}
    OBVIOUS
  <1> HIDE DEF g
  <1>2. ASSUME NEW p PROVE p \in P <=> \E k \in 1 .. f[s] : p = <<s, k>>
    OBVIOUS
  <1> HIDE DEF P
  <1>3. Pairs(f) \cap P = P
    BY <1>2, InPairs
  <1>4. Pairs(g) = Pairs(f) \ P
    <2>1. ASSUME NEW p, p \in Pairs(g) PROVE p \in Pairs(f) /\ p \notin P
      <3>1. Has(g, p)
        BY <1>1, <2>1, PairsHas
      <3>2. PICK r \in 1 .. Slots, k \in Int : k \in 1 .. g[r] /\ p = <<r, k>>
        BY <3>1 DEF Has
      <3>3. r # s
        BY <1>1, <3>2
      <3>4. p \in Pairs(f)
        BY <1>1, <3>2, <3>3, InPairs
      <3>5. p \notin P
        BY <1>2, <3>2, <3>3
      <3> QED
        BY <3>4, <3>5
    <2>2. ASSUME NEW p, p \in Pairs(f), p \notin P PROVE p \in Pairs(g)
      <3>1. Has(f, p)
        BY <1>1, <2>2, PairsHas
      <3>2. PICK r \in 1 .. Slots, k \in Int : k \in 1 .. f[r] /\ p = <<r, k>>
        BY <3>1 DEF Has
      <3>3. r # s
        BY <1>2, <2>2, <3>2
      <3> QED
        BY <1>1, <3>2, <3>3, InPairs
    <2> QED
      BY <2>1, <2>2
  <1>5. IsFiniteSet(Pairs(f)) /\ Cardinality(Pairs(f)) \in Nat
    BY PairsFinite
  <1>6. Cardinality(Pairs(g)) = Cardinality(Pairs(f)) - Cardinality(P)
    BY <1>3, <1>4, <1>5, FS_Difference
  <1>7. Cardinality(P) = f[s]
    BY <1>1, Column DEF P
  <1>8. Cardinality(Pairs(g)) \in Nat
    BY <1>1, PairsFinite
  <1> QED
    BY <1>1, <1>5, <1>6, <1>7, <1>8 DEF g

\* What the slots of PROBE count, and who is about to count there.
Counts(s) == [i \in 1 .. Slots |-> s["PROBE"][i].count]
Records(c) == c.scan.table = "PROBE" /\ c.pc \in Scanning
Recorders(c) == {t \in Tasks : Records(c[t])}

LEMMA CountedIs ==
  /\ Counted = Cardinality(Pairs(Counts(slots)))
  /\ Counted' = Cardinality(Pairs(Counts(slots')))
  <1>1. \A s : Pairs(Counts(s)) = UNION {{i} \X (1 .. s["PROBE"][i].count) : i \in 1 .. Slots}
    <2>1. ASSUME NEW s PROVE Pairs(Counts(s)) = UNION {{i} \X (1 .. s["PROBE"][i].count) : i \in 1 .. Slots}
      <3>1. \A i \in 1 .. Slots : Counts(s)[i] = s["PROBE"][i].count
        BY DEF Counts
      <3> HIDE DEF Counts
      <3> QED
        BY <3>1 DEF Pairs
    <2> QED
      BY <2>1
  <1> QED
    BY <1>1 DEF Counted

LEMMA RecordingIs ==
  /\ Recording = Cardinality(Recorders(ctl))
  /\ Recording' = Cardinality(Recorders(ctl'))
  BY DEF Recording, Recorders, Records, Scanning

LEMMA CountsTyped ==
  ASSUME NEW s \in [Tables -> [1 .. Slots -> Slot]]
  PROVE  Counts(s) \in [1 .. Slots -> Nat]
  BY DEF Counts, Slot, Tables

TableInv == TableTypes /\ IsFiniteSet(Recorders(ctl)) /\ CountsKept

LEMMA PairsEmpty ==
  ASSUME NEW f \in [1 .. Slots -> Nat], \A s \in 1 .. Slots : f[s] = 0
  PROVE  Cardinality(Pairs(f)) = 0
  <1>1. \A k : k \notin 1 .. 0
    OBVIOUS
  <1>2. Pairs(f) = {}
    BY <1>1, InPairs
  <1> QED
    BY <1>2, FS_EmptySet

LEMMA TablesStart == Init => TableInv
  <1> SUFFICES ASSUME Init PROVE TableInv
    OBVIOUS
  <1>1. /\ slots = [b \in Tables |-> [s \in 1 .. Slots |-> Empty]]
        /\ CALLS = 0 /\ other = [b \in Tables |-> 0] /\ taken = 0 /\ summed = 0
        /\ \A t \in Tasks : ctl[t].pc = "idle"
        /\ probed \in BOOLEAN
    BY ConsoleAssumption DEF Init, Idle, ConsoleAssumption
  <1>2. TableTypes
    BY <1>1 DEF TableTypes, Empty, Slot
  <1>3. Counts(slots) \in [1 .. Slots -> Nat] /\ \A s \in 1 .. Slots : Counts(slots)[s] = 0
    BY <1>1 DEF Counts, Empty, Tables
  <1>4. Counted = 0
    BY <1>3, PairsEmpty, CountedIs
  <1>5. Recorders(ctl) = {}
    BY <1>1 DEF Recorders, Records, Scanning
  <1>6. IsFiniteSet(Recorders(ctl)) /\ Recording = 0
    BY <1>5, FS_EmptySet, RecordingIs
  <1>7. other["PROBE"] = 0
    BY <1>1 DEF Tables
  <1> QED
    BY <1>1, <1>2, <1>4, <1>6, <1>7 DEF TableInv, CountsKept

\* What the step of one task does to the number of writes not yet recorded.
LEMMA RecordersMove ==
  ASSUME IsFiniteSet(Recorders(ctl)), NEW t \in Tasks, Steady(t)
  PROVE  /\ IsFiniteSet(Recorders(ctl')) /\ Recording \in Nat /\ Recording' \in Nat
         /\ (Records(ctl[t]) <=> Records(ctl'[t])) => Recording' = Recording
         /\ Records(ctl[t]) /\ ~Records(ctl'[t]) => Recording = Recording' + 1
         /\ ~Records(ctl[t]) /\ Records(ctl'[t]) => Recording' = Recording + 1
  <1> DEFINE R == Recorders(ctl)
             S == Recorders(ctl')
  <1>1. /\ t \in R <=> Records(ctl[t])
        /\ t \in S <=> Records(ctl'[t])
        /\ \A u : u # t => (u \in S <=> u \in R)
    BY DEF Recorders, Steady
  <1>2. Recording = Cardinality(R) /\ Recording' = Cardinality(S)
    BY RecordingIs
  <1> HIDE DEF R, S
  <1>3. IsFiniteSet(R)
    BY DEF R
  <1>4. S = IF Records(ctl'[t]) THEN R \union {t} ELSE R \ {t}
    BY <1>1
  <1>5. /\ IsFiniteSet(R \union {t}) /\ IsFiniteSet(R \ {t})
        /\ Cardinality(R \union {t}) = IF t \in R THEN Cardinality(R) ELSE Cardinality(R) + 1
        /\ Cardinality(R \ {t}) = IF t \in R THEN Cardinality(R) - 1 ELSE Cardinality(R)
    BY <1>3, FS_AddElement, FS_RemoveElement
  <1>6. IsFiniteSet(S)
    BY <1>4, <1>5
  <1>7. Cardinality(R) \in Nat /\ Cardinality(S) \in Nat
    BY <1>3, <1>6, FS_CardinalityType
  <1>8. Cardinality(S) = IF Records(ctl'[t])
                         THEN (IF t \in R THEN Cardinality(R) ELSE Cardinality(R) + 1)
                         ELSE (IF t \in R THEN Cardinality(R) - 1 ELSE Cardinality(R))
    BY <1>4, <1>5
  <1> HIDE DEF Records
  <1> QED
    BY <1>1, <1>2, <1>6, <1>7, <1>8 DEF S

LEMMA CountedTyped ==
  ASSUME TableTypes
  PROVE  Counted \in Nat
  <1>1. Counts(slots) \in [1 .. Slots -> Nat]
    BY CountsTyped DEF TableTypes
  <1> QED
    BY <1>1, PairsFinite, CountedIs

LEMMA TablesQuiet ==
  ASSUME TableInv, NEW t \in Tasks, Steady(t), TableTypes',
         UNCHANGED <<CALLS, other, taken, summed>>, Counts(slots') = Counts(slots),
         Records(ctl[t]) <=> Records(ctl'[t])
  PROVE  TableInv'
  <1>1. Counted' = Counted
    BY CountedIs
  <1>2. IsFiniteSet(Recorders(ctl')) /\ Recording' = Recording
    BY RecordersMove DEF TableInv
  <1> QED
    BY <1>1, <1>2 DEF TableInv, CountsKept

LEMMA TablesRest ==
  ASSUME TableInv, ctl' = ctl, UNCHANGED <<probed, tables>>
  PROVE  TableInv'
  <1>1. Counted' = Counted /\ Recording' = Recording
    BY CountedIs, RecordingIs DEF tables
  <1> QED
    BY <1>1 DEF TableInv, TableTypes, CountsKept, tables

LEMMA SlotSet ==
  ASSUME TableTypes, NEW b \in Tables, NEW i \in 1 .. Slots,
         NEW x \in Slot, slots' = [slots EXCEPT ![b][i] = x]
  PROVE  /\ slots' \in [Tables -> [1 .. Slots -> Slot]]
         /\ slots'[b][i] = x
         /\ \A c \in Tables : \A j \in 1 .. Slots : c # b \/ j # i => slots'[c][j] = slots[c][j]
  BY DEF TableTypes

LEMMA SlotKeepsCounts ==
  ASSUME TableTypes, NEW b \in Tables, NEW i \in 1 .. Slots,
         NEW x \in Slot, slots' = [slots EXCEPT ![b][i] = x],
         b # "PROBE" \/ x.count = slots[b][i].count
  PROVE  Counts(slots') = Counts(slots)
  <1>1. \A j \in 1 .. Slots : slots'["PROBE"][j].count = slots["PROBE"][j].count
    BY SlotSet DEF Tables
  <1> QED
    BY <1>1 DEF Counts

LEMMA SlotCounts ==
  ASSUME TableTypes, NEW i \in 1 .. Slots, NEW n, slots'["PROBE"][i].count = n,
         \A j \in 1 .. Slots : j # i => slots'["PROBE"][j] = slots["PROBE"][j]
  PROVE  /\ Counts(slots) \in [1 .. Slots -> Nat]
         /\ Counts(slots)[i] = slots["PROBE"][i].count
         /\ Counts(slots') = [Counts(slots) EXCEPT ![i] = n]
  <1>1. Counts(slots) \in [1 .. Slots -> Nat]
    BY CountsTyped DEF TableTypes
  <1> QED
    BY <1>1 DEF Counts

\* Claiming a slot counts nothing.
LEMMA ClaimKeepsTables ==
  ASSUME CallTypes, TasksFlow, TableInv, NEW t \in Tasks, ClaimLen(t) \/ ClaimHead(t)
  PROVE  TableInv'
  <1> DEFINE c == ctl[t].scan
             old == slots[c.table][c.at]
  <1>1. /\ Steady(t) /\ c.table \in Tables /\ c.at \in 1 .. Slots /\ c.head \in Nat
        /\ ClaimLen(t) => c.len \in {1, Letter + 1}
        /\ Records(ctl[t]) <=> Records(ctl'[t])
        /\ UNCHANGED <<probed, CALLS, other, taken, summed>>
    <2>1. c.head \in Nat
      BY DEF CallTypes, Doing
    <2>2. CASE ClaimLen(t)
      <3>1. UNCHANGED <<probed, CALLS, other, taken, summed>>
        BY <2>2 DEF ClaimLen
      <3> QED
        BY <2>1, <2>2, <3>1, ClaimLenMoves DEF Records, Scanning, ClaimHead, At
    <2>3. CASE ClaimHead(t)
      <3>1. UNCHANGED <<probed, CALLS, other, taken, summed>>
        BY <2>3 DEF ClaimHead
      <3> QED
        BY <2>1, <2>3, <3>1, ClaimHeadMoves DEF Records, Scanning, ClaimLen, At
    <2> QED
      BY <2>2, <2>3
  <1>2. slots \in [Tables -> [1 .. Slots -> Slot]]
    BY DEF TableInv, TableTypes
  <1>3. old \in Slot
    BY <1>1, <1>2
  <1>4. PICK x \in Slot : x.count = old.count /\ slots' = [slots EXCEPT ![c.table][c.at] = x]
    <2>1. CASE ClaimLen(t)
      <3>1. [old EXCEPT !.len = c.len] \in Slot
        BY <1>1, <1>3, <2>1 DEF Slot
      <3>2. slots' = [slots EXCEPT ![c.table][c.at] = [old EXCEPT !.len = c.len]]
        BY <2>1, <1>1, <1>2 DEF ClaimLen
      <3>3. [old EXCEPT !.len = c.len].count = old.count
        BY <1>3 DEF Slot
      <3> QED
        BY <3>1, <3>2, <3>3
    <2>2. CASE ClaimHead(t)
      <3>1. [old EXCEPT !.head = c.head] \in Slot
        BY <1>1, <1>3, <2>2 DEF Slot
      <3>2. slots' = [slots EXCEPT ![c.table][c.at] = [old EXCEPT !.head = c.head]]
        BY <2>2, <1>1, <1>2 DEF ClaimHead
      <3>3. [old EXCEPT !.head = c.head].count = old.count
        BY <1>3 DEF Slot
      <3> QED
        BY <3>1, <3>2, <3>3
    <2> QED
      BY <2>1, <2>2
  <1>5. slots' \in [Tables -> [1 .. Slots -> Slot]] /\ Counts(slots') = Counts(slots)
    <2>1. PICK b \in Tables, i \in 1 .. Slots : b = c.table /\ i = c.at
      BY <1>1
    <2>2. slots' = [slots EXCEPT ![b][i] = x] /\ x.count = slots[b][i].count
      BY <1>4, <2>1
    <2> HIDE DEF c, old
    <2>3. slots' \in [Tables -> [1 .. Slots -> Slot]]
      BY <1>2, <2>2, SlotSet DEF TableInv
    <2>4. Counts(slots') = Counts(slots)
      BY <1>2, <2>2, SlotKeepsCounts DEF TableInv
    <2> QED
      BY <2>2, <2>3, <2>4
  <1>6. TableTypes'
    BY <1>1, <1>5 DEF TableInv, TableTypes
  <1> QED
    BY <1>1, <1>5, <1>6, TablesQuiet

\* A write that finds its slot is in the table.
LEMMA CountTables ==
  ASSUME CallTypes, TasksFlow, TableInv, NEW t \in Tasks, Count(t)
  PROVE  TableInv'
  <1>1. /\ Steady(t) /\ ctl[t].pc = "count" /\ ctl'[t].pc \in {"next", "take"}
        /\ ctl[t].scan.table \in Tables /\ ctl[t].scan.at \in 1 .. Slots
    BY CountMoves
  <1>2. PICK b \in Tables, i \in 1 .. Slots : b = ctl[t].scan.table /\ i = ctl[t].scan.at
    BY <1>1
  <1>3. /\ UNCHANGED <<probed, CALLS, other, taken, summed>>
        /\ slots' = [slots EXCEPT ![b][i].count = @ + 1]
    BY <1>2 DEF Count
  <1>4. TableTypes /\ IsFiniteSet(Recorders(ctl)) /\ CountsKept
    BY DEF TableInv
  <1>5. Records(ctl[t]) <=> b = "PROBE"
    BY <1>1, <1>2 DEF Records, Scanning
  <1>6. ~Records(ctl'[t])
    BY <1>1 DEF Records, Scanning
  <1>7. slots[b][i] \in Slot
    BY <1>4 DEF TableTypes
  <1>8. PICK x \in Slot : x.count = slots[b][i].count + 1 /\ slots' = [slots EXCEPT ![b][i] = x]
    <2> DEFINE x == [slots[b][i] EXCEPT !.count = @ + 1]
    <2>1. x \in Slot /\ x.count = slots[b][i].count + 1
      BY <1>7 DEF Slot
    <2>2. slots' = [slots EXCEPT ![b][i] = x]
      BY <1>3
    <2> QED
      BY <2>1, <2>2
  <1>9. /\ slots' \in [Tables -> [1 .. Slots -> Slot]] /\ slots'[b][i] = x
        /\ \A j \in 1 .. Slots : j # i => slots'[b][j] = slots[b][j]
    <2>1. slots \in [Tables -> [1 .. Slots -> Slot]]
      BY <1>4 DEF TableTypes
    <2> QED
      BY <1>8, <2>1
  <1>10. TableTypes'
    BY <1>3, <1>4, <1>9 DEF TableTypes
  <1>11. CASE b # "PROBE"
    <2>1. Counts(slots') = Counts(slots)
      BY <1>4, <1>8, <1>11, SlotKeepsCounts
    <2> QED
      BY <1>1, <1>3, <1>5, <1>6, <1>10, <1>11, <2>1, TablesQuiet
  <1>12. CASE b = "PROBE"
    <2>1. /\ slots'["PROBE"][i].count = x.count
          /\ \A j \in 1 .. Slots : j # i => slots'["PROBE"][j] = slots["PROBE"][j]
      BY <1>9, <1>12
    <2>2. /\ Counts(slots) \in [1 .. Slots -> Nat]
          /\ Counts(slots)[i] = slots["PROBE"][i].count
          /\ Counts(slots') = [Counts(slots) EXCEPT ![i] = x.count]
      BY <1>4, <2>1, SlotCounts
    <2>3. Counts(slots') = [Counts(slots) EXCEPT ![i] = @ + 1]
      BY <1>8, <1>12, <2>2
    <2>4. Counted' = Counted + 1
      BY <2>2, <2>3, PairsUp, CountedIs
    <2>5. /\ IsFiniteSet(Recorders(ctl')) /\ Recording = Recording' + 1
          /\ Recording \in Nat /\ Recording' \in Nat
      BY <1>1, <1>4, <1>5, <1>6, <1>12, RecordersMove
    <2>6. Counted \in Nat
      BY <1>4, CountedTyped
    <2>7. CountsKept'
      BY <1>3, <1>4, <2>4, <2>5, <2>6 DEF CountsKept, TableTypes, Tables
    <2> QED
      BY <1>10, <2>5, <2>7 DEF TableInv
  <1> QED
    BY <1>11, <1>12

\* One that finds none is with the others.
LEMMA CountOtherTables ==
  ASSUME CallTypes, TasksFlow, TableInv, NEW t \in Tasks, CountOther(t)
  PROVE  TableInv'
  <1>1. /\ Steady(t) /\ ctl[t].pc = "other" /\ ctl'[t].pc \in {"next", "take"}
        /\ ctl[t].scan.table \in Tables
    BY CountOtherMoves
  <1>2. PICK b \in Tables : b = ctl[t].scan.table
    BY <1>1
  <1>3. /\ UNCHANGED <<probed, slots, CALLS, taken, summed>>
        /\ other' = [other EXCEPT ![b] = @ + 1]
    BY <1>2 DEF CountOther
  <1>4. TableTypes /\ IsFiniteSet(Recorders(ctl)) /\ CountsKept /\ other \in [Tables -> Nat]
    BY DEF TableInv, TableTypes
  <1>5. (Records(ctl[t]) <=> b = "PROBE") /\ ~Records(ctl'[t])
    BY <1>1, <1>2 DEF Records, Scanning
  <1>6. TableTypes' /\ Counted' = Counted
    BY <1>3, <1>4, CountedIs DEF TableTypes
  <1>7. Recording \in Nat /\ Recording' \in Nat /\ IsFiniteSet(Recorders(ctl'))
    BY <1>1, <1>4, RecordersMove
  <1>8. Counted \in Nat
    BY <1>4, CountedTyped
  <1>9. CountsKept'
    <2>1. CASE b # "PROBE"
      <3>1. Recording' = Recording
        BY <1>1, <1>4, <1>5, <2>1, RecordersMove
      <3>2. other'["PROBE"] = other["PROBE"]
        BY <1>3, <1>4, <2>1 DEF Tables
      <3> QED
        BY <1>3, <1>4, <1>6, <3>1, <3>2 DEF CountsKept
    <2>2. CASE b = "PROBE"
      <3>1. Recording = Recording' + 1
        BY <1>1, <1>4, <1>5, <2>2, RecordersMove
      <3>2. other'["PROBE"] = other["PROBE"] + 1 /\ other["PROBE"] \in Nat
        BY <1>3, <1>4, <2>2 DEF Tables
      <3>3. CALLS + taken = Counted + other["PROBE"] + summed + Recording /\ summed \in Nat
        BY <1>4 DEF CountsKept, TableTypes
      <3>4. CALLS + taken = Counted' + other'["PROBE"] + summed + Recording'
        BY <1>6, <1>7, <1>8, <3>1, <3>2, <3>3
      <3> QED
        BY <1>3, <3>4 DEF CountsKept
    <2> QED
      BY <2>1, <2>2
  <1> QED
    BY <1>6, <1>7, <1>9 DEF TableInv

\* A call is counted before its write is recorded.
LEMMA WriteTables ==
  ASSUME CallTypes, TasksFlow, TableInv, NEW t \in Tasks, Write(t)
  PROVE  TableInv'
  <1>1. /\ Steady(t) /\ ctl[t].pc = "next" /\ ctl'[t].scan.table = "PROBE"
        /\ ctl'[t].pc = IF probed THEN "match" ELSE "take"
    BY WriteMoves
  <1>2. /\ UNCHANGED <<probed, slots, other, taken, summed>>
        /\ CALLS' = IF probed THEN CALLS + 1 ELSE CALLS
    BY DEF Write
  <1>3. TableTypes /\ IsFiniteSet(Recorders(ctl)) /\ CountsKept
    BY DEF TableInv
  <1>4. ~Records(ctl[t]) /\ (Records(ctl'[t]) <=> probed)
    BY <1>1, <1>3 DEF Records, Scanning, TableTypes
  <1>5. TableTypes' /\ Counted' = Counted
    BY <1>2, <1>3, CountedIs DEF TableTypes
  <1>6. Recording \in Nat /\ IsFiniteSet(Recorders(ctl'))
    BY <1>1, <1>3, RecordersMove
  <1>7. Counted \in Nat /\ other["PROBE"] \in Nat
    BY <1>3, CountedTyped DEF TableTypes, Tables
  <1>8. CASE probed
    <2>1. Recording' = Recording + 1
      BY <1>1, <1>3, <1>4, <1>8, RecordersMove
    <2>2. CountsKept'
      BY <1>2, <1>3, <1>5, <1>6, <1>7, <1>8, <2>1 DEF CountsKept, TableTypes
    <2> QED
      BY <1>5, <1>6, <2>2 DEF TableInv
  <1>9. CASE ~probed
    <2>1. Recording' = Recording
      BY <1>1, <1>3, <1>4, <1>9, RecordersMove
    <2>2. CountsKept'
      BY <1>2, <1>3, <1>5, <1>9, <2>1 DEF CountsKept
    <2> QED
      BY <1>5, <1>6, <2>2 DEF TableInv
  <1> QED
    BY <1>8, <1>9

\* A report takes counts over, and clears what it took.
LEMMA ReportTotalsTables ==
  ASSUME CallTypes, TasksFlow, TableInv, NEW t \in Tasks, ReportTotals(t) \/ ReportOthers(t)
  PROVE  TableInv'
  <1>1. Steady(t) /\ (Records(ctl[t]) <=> Records(ctl'[t]))
    BY ReportTotalsMoves, ReportOthersMoves DEF Records, Scanning
  <1>2. TableTypes /\ IsFiniteSet(Recorders(ctl)) /\ CountsKept
    BY DEF TableInv
  <1>3. Recording' = Recording /\ Recording \in Nat /\ IsFiniteSet(Recorders(ctl'))
    BY <1>1, <1>2, RecordersMove
  <1>4. Counted \in Nat /\ other["PROBE"] \in Nat
    BY <1>2, CountedTyped DEF TableTypes, Tables
  <1>5. probed' = probed /\ slots' = slots
    BY DEF ReportTotals, ReportOthers
  <1>6. Counted' = Counted
    BY <1>5, CountedIs
  <1>7. CASE ReportTotals(t)
    <2>1. taken' = taken + CALLS /\ CALLS' = 0 /\ other' = other /\ summed' = summed
      BY <1>7 DEF ReportTotals
    <2> QED
      BY <1>2, <1>3, <1>4, <1>5, <1>6, <2>1 DEF TableInv, CountsKept, TableTypes
  <1>8. CASE ReportOthers(t)
    <2>1. /\ summed' = summed + other["PROBE"] /\ other' = [b \in Tables |-> 0]
          /\ CALLS' = CALLS /\ taken' = taken
      BY <1>8 DEF ReportOthers
    <2>2. other'["PROBE"] = 0 /\ other' \in [Tables -> Nat]
      BY <2>1 DEF Tables
    <2> QED
      BY <1>2, <1>3, <1>4, <1>5, <1>6, <2>1, <2>2 DEF TableInv, CountsKept, TableTypes
  <1> QED
    BY <1>7, <1>8

LEMMA ReportSwapTables ==
  ASSUME CallTypes, TasksFlow, TableInv, NEW t \in Tasks, ReportSwap(t)
  PROVE  TableInv'
  <1>1. /\ Steady(t) /\ (Records(ctl[t]) <=> Records(ctl'[t]))
        /\ ctl[t].scan.table \in Tables /\ ctl[t].scan.at \in 1 .. Slots
    BY ReportSwapMoves DEF Records, Scanning
  <1>2. PICK b \in Tables, i \in 1 .. Slots : b = ctl[t].scan.table /\ i = ctl[t].scan.at
    BY <1>1
  <1>3. /\ UNCHANGED <<probed, CALLS, other, taken>>
        /\ slots' = [slots EXCEPT ![b][i].count = 0]
        /\ summed' = IF b = "PROBE" THEN summed + slots[b][i].count ELSE summed
    BY <1>2 DEF ReportSwap
  <1>4. TableTypes /\ IsFiniteSet(Recorders(ctl)) /\ CountsKept
    BY DEF TableInv
  <1>5. slots[b][i] \in Slot
    BY <1>4 DEF TableTypes
  <1>6. PICK x \in Slot : x.count = 0 /\ slots' = [slots EXCEPT ![b][i] = x]
    <2> DEFINE x == [slots[b][i] EXCEPT !.count = 0]
    <2>1. x \in Slot /\ x.count = 0
      BY <1>5 DEF Slot
    <2>2. slots' = [slots EXCEPT ![b][i] = x]
      BY <1>3
    <2> QED
      BY <2>1, <2>2
  <1>7. /\ slots' \in [Tables -> [1 .. Slots -> Slot]] /\ slots[b][i].count \in Nat
        /\ slots'[b][i] = x /\ \A j \in 1 .. Slots : j # i => slots'[b][j] = slots[b][j]
    <2>1. slots \in [Tables -> [1 .. Slots -> Slot]]
      BY <1>4 DEF TableTypes
    <2>2. slots[b][i].count \in Nat
      BY <1>5 DEF Slot
    <2> QED
      BY <1>6, <2>1, <2>2
  <1>8. TableTypes'
    BY <1>3, <1>4, <1>7 DEF TableTypes
  <1>9. CASE b # "PROBE"
    <2>1. Counts(slots') = Counts(slots)
      BY <1>4, <1>6, <1>9, SlotKeepsCounts
    <2>2. summed' = summed
      BY <1>3, <1>9
    <2> QED
      BY <1>1, <1>3, <1>8, <2>1, <2>2, TablesQuiet
  <1>10. CASE b = "PROBE"
    <2>1. /\ slots'["PROBE"][i].count = 0
          /\ \A j \in 1 .. Slots : j # i => slots'["PROBE"][j] = slots["PROBE"][j]
      BY <1>6, <1>7, <1>10
    <2>2. /\ Counts(slots) \in [1 .. Slots -> Nat]
          /\ Counts(slots)[i] = slots["PROBE"][i].count
      BY <1>4, CountsTyped DEF TableTypes, Counts
    <2>3. Counts(slots') = [Counts(slots) EXCEPT ![i] = 0]
      BY <1>4, <2>1, SlotCounts
    <2>4. Counted = Counted' + slots[b][i].count
      BY <1>10, <2>2, <2>3, PairsZero, CountedIs
    <2>5. Recording' = Recording /\ Recording \in Nat /\ IsFiniteSet(Recorders(ctl'))
      BY <1>1, <1>4, RecordersMove
    <2>6. Counted \in Nat /\ Counted' \in Nat /\ other["PROBE"] \in Nat
      <3>1. Counts(slots') \in [1 .. Slots -> Nat]
        BY <1>7, CountsTyped
      <3>2. Counted' \in Nat
        BY <3>1, PairsFinite, CountedIs
      <3> QED
        BY <1>4, <3>2, CountedTyped DEF TableTypes, Tables
    <2>7. CALLS + taken = Counted + other["PROBE"] + summed + Recording /\ summed \in Nat
      BY <1>4 DEF CountsKept, TableTypes
    <2>8. PICK n \in Nat : n = slots[b][i].count
      BY <1>7
    <2>9. CALLS + taken = Counted' + other["PROBE"] + summed' + Recording'
      <3>1. summed' = summed + n /\ Counted = Counted' + n /\ Recording' = Recording
        BY <1>3, <1>10, <2>4, <2>5, <2>8
      <3>2. Recording \in Nat
        BY <2>5
      <3> QED
        BY <2>6, <2>7, <3>1, <3>2
    <2>10. CountsKept'
      BY <1>3, <2>9 DEF CountsKept
    <2> QED
      BY <1>8, <2>5, <2>10 DEF TableInv
  <1> QED
    BY <1>9, <1>10

-----------------------------------------------------------------------------
(* The steps together.                                                     *)

LEMMA TakenMoves ==
  ASSUME CallTypes, TasksFlow, LockInv, NEW t \in Tasks, CreateFails(t) \/ Take(t)
  PROVE  LET c == ctl[t] d == ctl'[t] IN
         /\ CallTypes' /\ TasksFlow' /\ Steady(t)
         /\ c.pc \in Taking /\ d.pc \in {"real", "next"} /\ c.chunks # << >>
         /\ d.todo = c.todo /\ d.chunks = c.chunks /\ d.scan = c.scan
         /\ \E x \in GuardSet : d.guards = Append(c.guards, x)
  <1>1. ctl[t].pc \in {"create", "wait"} /\ isr' = isr
    BY DEF CreateFails, Take, At
  <1>2. ctl[t].pc \in Taking /\ ctl[t].chunks # << >>
    BY <1>1 DEF TasksFlow, Flow, ChunkFlow, Needing, Taking
  <1>3. PICK h \in Tasks \union {Null} : GuardOver(t, h)
    <2>1. CASE CreateFails(t)
      BY <2>1 DEF CreateFails
    <2>2. CASE Take(t)
      <3>1. ctl[t].hand = LOCK /\ LOCK \in Tasks \union {Null}
        BY <2>2 DEF Take, At, LockInv, OneMutex, LockTypes
      <3> QED
        BY <2>2, <3>1 DEF Take
    <2> QED
      BY <2>1, <2>2
  <1>4. [for |-> ctl[t].want, mutex |-> h] \in GuardSet
    <2>1. ctl[t].want \in Uses
      BY DEF CallTypes, Doing
    <2> QED
      BY <2>1 DEF GuardSet
  <1> QED
    BY <1>1, <1>2, <1>3, <1>4, GuardOverMoves

LEMMA PrintFlows ==
  ASSUME CallTypes, TasksFlow, LockInv, TableInv, NEW t \in Tasks, PrintStep(t)
  PROVE  CallTypes' /\ TasksFlow' /\ Steady(t)
  <1>1. LockTypes /\ TableTypes
    BY DEF LockInv, TableInv
  <1>2. CASE Begin(t) \/ Format(t) \/ Write(t) \/ Real(t) \/ EndChunk(t) \/ EndCall(t)
    BY <1>2, BeginMoves, FormatMoves, WriteMoves, RealMoves, EndChunkMoves, EndCallMoves
  <1>3. CASE TakeLoad(t) \/ CreateFails(t) \/ Create(t) \/ Exchange(t) \/ Take(t) \/ Drop(t)
    BY <1>1, <1>3, TakeLoadMoves, TakenMoves, CreateMoves, ExchangeMoves, DropMoves
  <1>4. CASE Match(t) \/ Free(t) \/ ClaimLen(t) \/ ClaimHead(t) \/ Count(t) \/ CountOther(t)
    BY <1>4, MatchMoves, FreeMoves, ClaimLenMoves, ClaimHeadMoves, CountMoves, CountOtherMoves
  <1>5. CASE ReportTotals(t) \/ ReportOthers(t) \/ ReportLook(t) \/ ReportSwap(t)
    BY <1>1, <1>5, ReportTotalsMoves, ReportOthersMoves, ReportLookMoves, ReportSwapMoves
  <1> QED
    BY <1>2, <1>3, <1>4, <1>5 DEF PrintStep

LEMMA TablesSteady ==
  ASSUME TableInv, NEW t \in Tasks, Steady(t), UNCHANGED <<probed, tables>>,
         Records(ctl[t]) <=> Records(ctl'[t])
  PROVE  TableInv'
  <1>1. UNCHANGED <<probed, slots, CALLS, other, taken, summed>>
    BY DEF tables
  <1>2. TableTypes'
    BY <1>1 DEF TableInv, TableTypes
  <1>3. Counts(slots') = Counts(slots)
    BY <1>1
  <1> QED
    BY <1>1, <1>2, <1>3, TablesQuiet

LEMMA PrintTables ==
  ASSUME CallTypes, TasksFlow, LockInv, TableInv, NEW t \in Tasks, PrintStep(t)
  PROVE  TableInv'
  <1>1. LockTypes /\ TableTypes
    BY DEF LockInv, TableInv
  <1>2. CASE Begin(t)
    <2>1. Steady(t) /\ ~Records(ctl[t]) /\ ~Records(ctl'[t])
      BY <1>2, BeginMoves DEF Begin, At, Records, Scanning
    <2>2. UNCHANGED <<probed, tables>>
      BY <1>2 DEF Begin
    <2> QED
      BY <2>1, <2>2, TablesSteady
  <1>3. CASE Format(t)
    <2>1. Steady(t) /\ ~Records(ctl[t]) /\ ~Records(ctl'[t])
      BY <1>3, FormatMoves DEF Records, Scanning
    <2>2. UNCHANGED <<probed, tables>>
      BY <1>3 DEF Format
    <2> QED
      BY <2>1, <2>2, TablesSteady
  <1>4. CASE Real(t) \/ EndChunk(t) \/ EndCall(t)
    <2>1. Steady(t) /\ ~Records(ctl[t]) /\ ~Records(ctl'[t])
      BY <1>4, RealMoves, EndChunkMoves, EndCallMoves DEF Records, Scanning
    <2>2. UNCHANGED <<probed, tables>>
      BY <1>4 DEF Real, EndChunk, EndCall
    <2> QED
      BY <2>1, <2>2, TablesSteady
  <1>5. CASE TakeLoad(t)
    <2>1. ctl[t].pc = "take" /\ ctl[t] \in Doing
      BY <1>5 DEF TakeLoad, At, CallTypes
    <2>2. ctl'[t].pc \in {"create", "wait"}
      <3>1. ctl' = [ctl EXCEPT ![t].pc = IF LOCK = Null THEN "create" ELSE "wait", ![t].hand = LOCK]
        BY <1>5 DEF TakeLoad
      <3> QED
        BY <2>1, <3>1 DEF CallTypes, Doing
    <2>3. Steady(t) /\ ~Records(ctl[t]) /\ ~Records(ctl'[t])
      BY <1>1, <1>5, <2>1, <2>2, TakeLoadMoves DEF Records, Scanning
    <2>4. UNCHANGED <<probed, tables>>
      BY <1>5 DEF TakeLoad
    <2> QED
      BY <2>3, <2>4, TablesSteady
  <1>6. CASE CreateFails(t) \/ Take(t)
    <2>1. Steady(t) /\ ~Records(ctl[t]) /\ ~Records(ctl'[t])
      BY <1>6, TakenMoves DEF Records, Scanning, Taking
    <2>2. UNCHANGED <<probed, tables>>
      BY <1>6 DEF CreateFails, Take
    <2> QED
      BY <2>1, <2>2, TablesSteady
  <1>7. CASE Create(t) \/ Exchange(t) \/ Drop(t)
    <2>1. Steady(t) /\ ~Records(ctl[t]) /\ ~Records(ctl'[t])
      BY <1>1, <1>7, CreateMoves, ExchangeMoves, DropMoves DEF Records, Scanning
    <2>2. UNCHANGED <<probed, tables>>
      BY <1>7 DEF Create, Exchange, Drop
    <2> QED
      BY <2>1, <2>2, TablesSteady
  <1>8. CASE Match(t) \/ Free(t)
    <2>1. Steady(t) /\ (Records(ctl[t]) <=> Records(ctl'[t]))
      BY <1>8, MatchMoves, FreeMoves DEF Records, Scanning
    <2>2. UNCHANGED <<probed, tables>>
      BY <1>8 DEF Match, Free
    <2> QED
      BY <2>1, <2>2, TablesSteady
  <1>9. CASE ReportLook(t)
    <2>1. Steady(t) /\ ~Records(ctl[t]) /\ ~Records(ctl'[t])
      BY <1>1, <1>9, ReportLookMoves DEF Records, Scanning
    <2>2. UNCHANGED <<probed, tables>>
      BY <1>9 DEF ReportLook
    <2> QED
      BY <2>1, <2>2, TablesSteady
  <1>10. CASE \/ Write(t) \/ ClaimLen(t) \/ ClaimHead(t) \/ Count(t) \/ CountOther(t)
              \/ ReportTotals(t) \/ ReportOthers(t) \/ ReportSwap(t)
    BY <1>10, WriteTables, ClaimKeepsTables, CountTables, CountOtherTables, ReportTotalsTables,
       ReportSwapTables
  <1> QED
    BY <1>2, <1>3, <1>4, <1>5, <1>6, <1>7, <1>8, <1>9, <1>10 DEF PrintStep

LEMMA PrintLocks ==
  ASSUME CallTypes, TasksFlow, LockInv, TableInv, NEW t \in Tasks, PrintStep(t)
  PROVE  LockInv'
  <1>1. LockTypes /\ TableTypes
    BY DEF LockInv, TableInv
  <1>2. CASE Begin(t) \/ Format(t) \/ Write(t) \/ Real(t) \/ EndChunk(t) \/ EndCall(t)
    <2>1. /\ Steady(t) /\ ctl'[t].guards = ctl[t].guards
          /\ ctl'[t].pc \notin {"wait", "create", "exchange"}
      BY <1>2, BeginMoves, FormatMoves, WriteMoves, RealMoves, EndChunkMoves, EndCallMoves
    <2>2. UNCHANGED kernel
      BY <1>2 DEF Begin, Format, Write, Real, EndChunk, EndCall
    <2> QED
      BY <2>1, <2>2, LockQuiet DEF Unguarded, kernel
  <1>3. CASE Match(t) \/ Free(t) \/ ClaimLen(t) \/ ClaimHead(t) \/ Count(t) \/ CountOther(t)
    <2>1. /\ Steady(t) /\ ctl'[t].guards = ctl[t].guards
          /\ ctl'[t].pc \notin {"wait", "create", "exchange"}
      BY <1>3, MatchMoves, FreeMoves, ClaimLenMoves, ClaimHeadMoves, CountMoves, CountOtherMoves
    <2>2. UNCHANGED kernel
      BY <1>3 DEF Match, Free, ClaimLen, ClaimHead, Count, CountOther
    <2> QED
      BY <2>1, <2>2, LockQuiet DEF Unguarded, kernel
  <1>4. CASE ReportTotals(t) \/ ReportOthers(t) \/ ReportLook(t) \/ ReportSwap(t)
    <2>1. /\ Steady(t) /\ ctl'[t].guards = ctl[t].guards
          /\ ctl'[t].pc \notin {"wait", "create", "exchange"}
      BY <1>1, <1>4, ReportTotalsMoves, ReportOthersMoves, ReportLookMoves, ReportSwapMoves
    <2>2. UNCHANGED kernel
      BY <1>4 DEF ReportTotals, ReportOthers, ReportLook, ReportSwap
    <2> QED
      BY <2>1, <2>2, LockQuiet DEF Unguarded, kernel
  <1>5. CASE TakeLoad(t) \/ CreateFails(t) \/ Create(t) \/ Exchange(t) \/ Take(t) \/ Drop(t)
    BY <1>5, TakeLoadLocks, CreateFailsLocks, CreateLocks, ExchangeLocks, TakeLocks, DropLocks
  <1> QED
    BY <1>2, <1>3, <1>4, <1>5 DEF PrintStep

LEMMA SeqFirst ==
  ASSUME NEW S, NEW s \in Seq(S), NEW x \in S
  PROVE  Append(s, x) # << >> /\ (s # << >> => Append(s, x)[1] = s[1])
  OBVIOUS

\* Steps that write nothing keep lines as they are.
LEMMA PrintQuiet ==
  ASSUME CallTypes, TasksFlow, LockInv, TableInv, NEW t \in Tasks, PrintStep(t), ~Real(t)
  PROVE  Prints(ctl[t], ctl'[t]) /\ output' = output
  <1>1. LockTypes /\ TableTypes
    BY DEF LockInv, TableInv
  <1>2. CASE Begin(t)
    <2>1. Len(ctl'[t].todo) < Len(ctl[t].todo)
      <3>1. ctl[t].todo \in Seq(TaskCalls)
        BY DEF CallTypes, Doing
      <3>2. ctl[t].todo # << >> /\ ctl'[t].todo = Tail(ctl[t].todo)
        BY <1>2, BeginMoves
      <3> QED
        BY <3>1, <3>2
    <2> QED
      BY <1>2, <2>1 DEF Prints, Begin
  <1>3. CASE Format(t) \/ Write(t) \/ EndCall(t)
    <2>1. /\ ctl'[t].guards = ctl[t].guards /\ ctl'[t].todo = ctl[t].todo
          /\ ctl'[t].chunks = ctl[t].chunks
      BY <1>3, FormatMoves, WriteMoves, EndCallMoves
    <2> QED
      BY <1>3, <2>1 DEF Prints, HoldsLine, Format, Write, EndCall
  <1>4. CASE EndChunk(t)
    <2>1. /\ ctl'[t].guards = ctl[t].guards /\ ctl'[t].todo = ctl[t].todo
          /\ ctl[t].chunks # << >>
      BY <1>4, EndChunkMoves
    <2> QED
      BY <1>4, <2>1 DEF Prints, HoldsLine, EndChunk
  <1>5. CASE TakeLoad(t)
    <2>1. ctl[t] \in Doing
      BY DEF CallTypes
    <2>2. /\ ctl'[t].guards = ctl[t].guards /\ ctl'[t].todo = ctl[t].todo
          /\ ctl'[t].chunks = ctl[t].chunks
      BY <1>1, <1>5, <2>1, TakeLoadMoves DEF Doing
    <2> QED
      BY <1>5, <2>2 DEF Prints, HoldsLine, TakeLoad
  <1>6. CASE CreateFails(t) \/ Take(t)
    <2>1. /\ ctl'[t].todo = ctl[t].todo /\ ctl'[t].chunks = ctl[t].chunks
          /\ ctl[t].chunks # << >>
      BY <1>6, TakenMoves
    <2>2. PICK x \in GuardSet : ctl'[t].guards = Append(ctl[t].guards, x)
      BY <1>6, TakenMoves
    <2>3. ctl[t].guards \in Seq(GuardSet)
      BY DEF CallTypes, Doing
    <2>4. HoldsLine(ctl[t]) => HoldsLine(ctl'[t])
      BY <2>2, <2>3, SeqFirst DEF HoldsLine
    <2>5. output' = output
      BY <1>6 DEF CreateFails, Take
    <2> QED
      BY <2>1, <2>4, <2>5 DEF Prints
  <1>7. CASE Create(t) \/ Exchange(t)
    <2>1. /\ ctl'[t].guards = ctl[t].guards /\ ctl'[t].todo = ctl[t].todo
          /\ ctl'[t].chunks = ctl[t].chunks
      BY <1>1, <1>7, CreateMoves, ExchangeMoves
    <2> QED
      BY <1>7, <2>1 DEF Prints, HoldsLine, Create, Exchange
  <1>8. CASE Drop(t)
    <2> DEFINE g == ctl[t].guards
    <2>1. /\ g \in Seq(GuardSet) /\ g # << >> /\ Ranked(g)
          /\ Last(g).for = "line" => ctl[t].chunks = << >>
          /\ ctl'[t].guards = Front(g) /\ ctl'[t].todo = ctl[t].todo
          /\ ctl'[t].chunks = ctl[t].chunks
      BY <1>8, DropMoves
    <2> HIDE DEF g
    <2>2. /\ Len(g) \in Nat /\ Len(g) > 0 /\ Len(Front(g)) = Len(g) - 1
          /\ \A k \in 1 .. Len(g) - 1 : Front(g)[k] = g[k]
          /\ Last(g) = g[Len(g)] /\ Front(g) \in Seq(GuardSet)
      BY <2>1, GuardDropped
    <2>3. CASE Len(g) = 1
      <3>1. Last(g) = g[1] /\ Front(g) = << >>
        BY <2>2, <2>3
      <3> QED
        BY <1>8, <2>1, <3>1 DEF Prints, HoldsLine, Drop, g
    <2>4. CASE Len(g) # 1
      <3>1. Front(g) # << >> /\ Front(g)[1] = g[1]
        BY <2>2, <2>4
      <3>2. HoldsLine(ctl'[t]) <=> HoldsLine(ctl[t])
        BY <2>1, <3>1 DEF HoldsLine, g
      <3> QED
        BY <1>8, <2>1, <3>2 DEF Prints, Drop
    <2> QED
      BY <2>3, <2>4
  <1>9. CASE Match(t) \/ Free(t) \/ ClaimLen(t) \/ ClaimHead(t) \/ Count(t) \/ CountOther(t)
    <2>1. /\ ctl'[t].guards = ctl[t].guards /\ ctl'[t].todo = ctl[t].todo
          /\ ctl'[t].chunks = ctl[t].chunks
      BY <1>9, MatchMoves, FreeMoves, ClaimLenMoves, ClaimHeadMoves, CountMoves, CountOtherMoves
    <2> QED
      BY <1>9, <2>1 DEF Prints, HoldsLine, Match, Free, ClaimLen, ClaimHead, Count, CountOther
  <1>10. CASE ReportTotals(t) \/ ReportOthers(t) \/ ReportLook(t) \/ ReportSwap(t)
    <2>1. /\ ctl'[t].guards = ctl[t].guards /\ ctl'[t].todo = ctl[t].todo
          /\ ctl'[t].chunks = ctl[t].chunks
      BY <1>1, <1>10, ReportTotalsMoves, ReportOthersMoves, ReportLookMoves, ReportSwapMoves
    <2> QED
      BY <1>10, <2>1 DEF Prints, HoldsLine, ReportTotals, ReportOthers, ReportLook, ReportSwap
  <1> QED
    BY <1>2, <1>3, <1>4, <1>5, <1>6, <1>7, <1>8, <1>9, <1>10 DEF PrintStep

\* A byte written under the lock is its holder's.
LEMMA RealPrints ==
  ASSUME CallTypes, TasksFlow, LockInv, OutputInv, NEW t \in Tasks, Real(t)
  PROVE  OutputInv'
  <1> DEFINE c == ctl[t]
             e == [by |-> t, call |-> Len(c.todo), locked |-> Last(c.guards).mutex # Null,
                   line |-> c.guards[1].for = "line" /\ c.guards[1].mutex # Null]
  <1>1. /\ Steady(t) /\ c.chunks # << >> /\ c.guards # << >> /\ c.guards \in Seq(GuardSet)
        /\ ctl'[t].guards = c.guards /\ ctl'[t].todo = c.todo
    BY RealMoves
  <1>2. output' = Append(output, e)
    BY DEF Real
  <1>3. Len(c.todo) \in Nat
    BY DEF CallTypes, Doing
  <1>4. e \in Written /\ e.by = t /\ e.call = Len(c.todo) /\ e.line = HoldsLine(c)
    BY <1>1, <1>3 DEF Written, HoldsLine
  <1>5. ASSUME NEW u \in Tasks, HoldsLine(ctl[u]), e.locked PROVE u = t
    <2>1. Len(c.guards) \in 1 .. Len(c.guards) /\ Last(c.guards) = c.guards[Len(c.guards)]
      BY <1>1 DEF Last
    <2>2. ctl[u].guards \in Seq(GuardSet) /\ ctl[u].guards # << >> /\ ctl[u].guards[1].mutex # Null
      BY <1>5 DEF HoldsLine, CallTypes, Doing
    <2>3. 1 \in 1 .. Len(ctl[u].guards)
      BY <2>2
    <2>4. ctl[t].guards[Len(ctl[t].guards)].mutex # Null
      BY <1>5, <2>1
    <2> QED
      BY <2>1, <2>2, <2>3, <2>4, OneHolder
  <1> HIDE DEF e
  <1>6. /\ \A u \in Tasks : ctl'[u].todo = ctl[u].todo /\ ctl'[u].guards = ctl[u].guards
        /\ \A u \in Tasks : HoldsLine(ctl[u]) /\ e.locked => e.by = u
        /\ \A u \in Tasks \ {e.by} : ctl'[u].chunks = ctl[u].chunks
    BY <1>1, <1>4, <1>5 DEF Steady
  <1> QED
    BY <1>1, <1>2, <1>4, <1>6, OutputGrows

LEMMA PrintOutput ==
  ASSUME CallTypes, TasksFlow, LockInv, TableInv, OutputInv, NEW t \in Tasks, PrintStep(t)
  PROVE  OutputInv'
  <1>1. CASE Real(t)
    BY <1>1, RealPrints
  <1>2. CASE ~Real(t)
    BY <1>2, PrintFlows, PrintQuiet, OutputQuiet
  <1> QED
    BY <1>1, <1>2

\* A call of the objects moves its task to its next call.
LEMMA RtosKeeps ==
  ASSUME CallTypes, TasksFlow, LockInv, TableInv, OutputInv, NEW t \in Tasks, RtosStep(t),
         UNCHANGED prints
  PROVE  CallTypes' /\ TasksFlow' /\ LockInv' /\ TableInv' /\ OutputInv'
  <1>1. At(t, "idle") /\ ctl[t].todo # << >> /\ Return(t)
    BY RtosReturns
  <1>2. /\ CallTypes' /\ TasksFlow' /\ Steady(t)
        /\ ctl[t].pc = "idle" /\ ctl'[t].pc = "idle" /\ ctl'[t].guards = ctl[t].guards
        /\ ctl'[t].todo = Tail(ctl[t].todo) /\ ctl'[t].scan = ctl[t].scan
    BY <1>1, ReturnMoves
  <1>3. UNCHANGED <<probed, kernel, tables>> /\ output' = output /\ mutex' = mutex
    BY DEF prints, kernel
  <1>4. LockInv'
    BY <1>2, <1>3, LockQuiet DEF Unguarded
  <1>5. TableInv'
    BY <1>2, <1>3, TablesSteady DEF Records, Scanning
  <1>6. Len(ctl'[t].todo) < Len(ctl[t].todo)
    <2>1. ctl[t].todo \in Seq(TaskCalls)
      BY DEF CallTypes, Doing
    <2> QED
      BY <1>1, <1>2, <2>1
  <1>7. OutputInv'
    BY <1>2, <1>3, <1>6, OutputQuiet DEF Prints
  <1> QED
    BY <1>2, <1>4, <1>5, <1>7

LEMMA RtosHandlerKeeps ==
  ASSUME CallTypes, TasksFlow, LockInv, TableInv, OutputInv, RtosHandler, UNCHANGED prints
  PROVE  CallTypes' /\ TasksFlow' /\ LockInv' /\ TableInv' /\ OutputInv'
  <1>1. CallTypes' /\ TasksFlow' /\ ctl' = ctl
    BY RtosHandlerReturns, HandlerMoves
  <1>2. UNCHANGED <<probed, kernel, tables>> /\ output' = output
    BY DEF prints
  <1> QED
    BY <1>1, <1>2, LockRests, TablesRest, OutputRests

\* A byte written without the lock, and without any task between the steps.
LEMMA LeastSlot ==
  ASSUME NEW S, S \subseteq 1 .. Slots, S # {}
  PROVE  (CHOOSE x \in S : \A y \in S : x <= y) \in S
  <1> DEFINE R == {p \in Nat \X Nat : p[1] < p[2]}
  <1>1. S \subseteq Nat
    OBVIOUS
  <1>2. IsWellFoundedOn(R, Nat)
    BY NatLessThanWellFounded DEF OpToRel
  <1>3. PICK x \in S : \A y \in S : ~ (<<y, x>> \in R)
    BY <1>1, <1>2, WFMin
  <1>4. ASSUME NEW y \in S PROVE x <= y
    <2>1. x \in Nat /\ y \in Nat /\ ~ (<<y, x>> \in R)
      BY <1>1, <1>3
    <2>2. ~ (y < x)
      BY <2>1
    <2> HIDE DEF R
    <2> QED
      BY <2>1, <2>2
  <1> QED
    BY <1>4

LEMMA UnlockedTables ==
  ASSUME TableInv, Unlocked, ctl' = ctl
  PROVE  TableInv'
  <1>1. TableTypes /\ IsFiniteSet(Recorders(ctl)) /\ CountsKept
    BY DEF TableInv
  <1>2. UNCHANGED <<probed, taken, summed>>
    BY DEF Unlocked
  <1>3. Recording' = Recording /\ IsFiniteSet(Recorders(ctl'))
    BY <1>1, RecordingIs
  <1>4. Counted \in Nat /\ other["PROBE"] \in Nat /\ Recording \in Nat
    <2>1. Recording \in Nat
      BY <1>1, FS_CardinalityType, RecordingIs
    <2> QED
      BY <1>1, <2>1, CountedTyped DEF TableTypes, Tables
  <1>5. /\ CALLS \in Nat /\ taken \in Nat /\ summed \in Nat
        /\ CALLS + taken = Counted + other["PROBE"] + summed + Recording
    BY <1>1 DEF CountsKept, TableTypes
  <1>6. CASE ~probed
    <2>1. UNCHANGED <<CALLS, slots, other>>
      BY <1>6 DEF Unlocked
    <2>2. Counted' = Counted
      BY <2>1, CountedIs
    <2> QED
      BY <1>1, <1>2, <1>3, <2>1, <2>2 DEF TableInv, TableTypes, CountsKept
  <1>7. CASE probed
    <2> DEFINE found == Found("PROBE", 1, Letter)
               s == CHOOSE x \in found : \A y \in found : x <= y
    <2>1. CALLS' = CALLS + 1 /\ RecordAtOnce(1, Letter)
      BY <1>7 DEF Unlocked
    <2>2. CASE found = {}
      <3>1. other' = [other EXCEPT !["PROBE"] = @ + 1] /\ slots' = slots
        BY <2>1, <2>2 DEF RecordAtOnce
      <3>2. Counted' = Counted
        BY <3>1, CountedIs
      <3>3. other' \in [Tables -> Nat] /\ other'["PROBE"] = other["PROBE"] + 1
        BY <1>1, <3>1 DEF TableTypes, Tables
      <3>4. TableTypes'
        BY <1>1, <1>2, <2>1, <3>1, <3>3 DEF TableTypes
      <3>5. CountsKept'
        BY <1>2, <1>3, <1>4, <1>5, <2>1, <3>2, <3>3 DEF CountsKept
      <3> QED
        BY <1>3, <3>4, <3>5 DEF TableInv
    <2>3. CASE found # {}
      <3>1. s \in 1 .. Slots
        BY <2>3, LeastSlot DEF Found
      <3>2. /\ slots' = [slots EXCEPT !["PROBE"][s] = [len |-> 1, head |-> Letter,
                                                       count |-> @.count + 1]]
            /\ other' = other
        BY <2>1, <2>3 DEF RecordAtOnce
      <3>3. PICK i \in 1 .. Slots : i = s
        BY <3>1
      <3> HIDE DEF s, found
      <3>4. /\ slots \in [Tables -> [1 .. Slots -> Slot]] /\ "PROBE" \in Tables
            /\ slots["PROBE"][i] \in Slot
        BY <1>1 DEF TableTypes, Tables
      <3>5. PICK n \in Nat : n = slots["PROBE"][i].count
        BY <3>4 DEF Slot
      <3>6. PICK x \in Slot : x.count = n + 1 /\ slots' = [slots EXCEPT !["PROBE"][i] = x]
        <4> DEFINE x == [len |-> 1, head |-> Letter, count |-> n + 1]
        <4>1. x \in Slot /\ x.count = n + 1
          BY DEF Slot, Letter
        <4>2. slots' = [slots EXCEPT !["PROBE"][i] = x]
          BY <3>2, <3>3, <3>4, <3>5
        <4> QED
          BY <4>1, <4>2
      <3>7. /\ slots' \in [Tables -> [1 .. Slots -> Slot]] /\ slots'["PROBE"][i].count = n + 1
            /\ \A j \in 1 .. Slots : j # i => slots'["PROBE"][j] = slots["PROBE"][j]
        BY <3>4, <3>6
      <3>8. /\ Counts(slots) \in [1 .. Slots -> Nat] /\ Counts(slots)[i] = n
            /\ Counts(slots') = [Counts(slots) EXCEPT ![i] = n + 1]
        BY <1>1, <3>5, <3>7, SlotCounts
      <3>9. Counts(slots') = [Counts(slots) EXCEPT ![i] = @ + 1]
        BY <3>8
      <3>10. Counted' = Counted + 1
        BY <3>8, <3>9, PairsUp, CountedIs
      <3>11. TableTypes'
        BY <1>1, <1>2, <2>1, <3>2, <3>7 DEF TableTypes
      <3>12. CountsKept'
        BY <1>2, <1>3, <1>4, <1>5, <2>1, <3>2, <3>10 DEF CountsKept
      <3> QED
        BY <1>3, <3>11, <3>12 DEF TableInv
    <2> QED
      BY <2>2, <2>3
  <1> QED
    BY <1>6, <1>7

LEMMA UnlockedKeeps ==
  ASSUME CallTypes, TasksFlow, LockInv, TableInv, OutputInv, Unlocked
  PROVE  CallTypes' /\ TasksFlow' /\ LockInv' /\ TableInv' /\ OutputInv'
  <1> DEFINE e == [by |-> Null, call |-> Len(isr), locked |-> FALSE, line |-> FALSE]
  <1>1. CallTypes' /\ TasksFlow' /\ ctl' = ctl
    BY HandlerMoves DEF Unlocked, HandlerCalls
  <1>2. UNCHANGED kernel /\ output' = Append(output, e)
    BY DEF Unlocked
  <1>3. Len(isr) \in Nat
    BY DEF CallTypes
  <1>4. /\ e \in Written /\ e.by = Null /\ e.by \notin Tasks /\ ~e.locked /\ ~e.line
    BY <1>3, RtosAssumption DEF Written, RtosAssumption
  <1> HIDE DEF e
  <1>5. OutputInv'
    BY <1>1, <1>2, <1>4, OutputGrows
  <1> QED
    BY <1>1, <1>2, <1>5, LockRests, UnlockedTables

-----------------------------------------------------------------------------
(* The invariant of the console and of the calls.                          *)

ConsoleInv == CallTypes /\ TasksFlow /\ LockInv /\ TableInv /\ OutputInv /\ ObjectsInv

LEMMA ConsoleStarts == Init => ConsoleInv
  BY InitFlows, LockStarts, TablesStart, OutputStarts, ObjectsStart DEF ConsoleInv

LEMMA ConsoleMoves ==
  ASSUME ConsoleInv, [Next]_vars
  PROVE  ConsoleInv'
  <1> USE DEF ConsoleInv
  <1>1. CASE StartScheduler
    <2>1. ctl' = ctl /\ isr' = isr /\ UNCHANGED rtos /\ UNCHANGED kernel
          /\ UNCHANGED <<probed, tables>> /\ output' = output
      BY <1>1 DEF StartScheduler, prints
    <2>2. CallTypes' /\ TasksFlow'
      BY <2>1 DEF CallTypes, TasksFlow
    <2> QED
      BY <2>1, <2>2, LockRests, TablesRest, OutputRests, RestKeepsObjects
  <1>2. CASE Unlocked
    <2>1. UNCHANGED rtos
      BY <1>2 DEF Unlocked
    <2> QED
      BY <1>2, <2>1, UnlockedKeeps, RestKeepsObjects
  <1>3. CASE RtosHandler /\ UNCHANGED prints
    BY <1>3, RtosHandlerKeeps, HandlerKeepsObjects
  <1>4. ASSUME NEW t \in Tasks, PrintStep(t) PROVE ConsoleInv'
    <2>1. UNCHANGED rtos
      <3>1. CASE Begin(t) \/ Format(t) \/ Write(t) \/ Real(t) \/ EndChunk(t) \/ EndCall(t)
        BY <3>1 DEF Begin, Format, Write, Real, EndChunk, EndCall
      <3>2. CASE TakeLoad(t) \/ CreateFails(t) \/ Create(t) \/ Exchange(t) \/ Take(t) \/ Drop(t)
        BY <3>2 DEF TakeLoad, CreateFails, Create, Exchange, Take, Drop
      <3>3. CASE \/ Match(t) \/ Free(t) \/ ClaimLen(t) \/ ClaimHead(t) \/ Count(t)
                 \/ CountOther(t)
        BY <3>3 DEF Match, Free, ClaimLen, ClaimHead, Count, CountOther
      <3>4. CASE ReportTotals(t) \/ ReportOthers(t) \/ ReportLook(t) \/ ReportSwap(t)
        BY <3>4 DEF ReportTotals, ReportOthers, ReportLook, ReportSwap
      <3> QED
        BY <1>4, <3>1, <3>2, <3>3, <3>4 DEF PrintStep
    <2> QED
      BY <1>4, <2>1, PrintFlows, PrintLocks, PrintTables, PrintOutput, RestKeepsObjects
  <1>5. ASSUME NEW t \in Tasks, RtosStep(t), UNCHANGED prints PROVE ConsoleInv'
    BY <1>5, RtosKeeps, CallKeepsObjects
  <1>6. CASE UNCHANGED vars
    <2>1. ctl' = ctl /\ isr' = isr /\ UNCHANGED rtos /\ UNCHANGED kernel
          /\ UNCHANGED <<probed, tables>> /\ output' = output
      BY <1>6 DEF vars, prints
    <2>2. CallTypes' /\ TasksFlow'
      BY <2>1 DEF CallTypes, TasksFlow
    <2> QED
      BY <2>1, <2>2, LockRests, TablesRest, OutputRests, RestKeepsObjects
  <1> QED
    BY <1>1, <1>2, <1>3, <1>4, <1>5, <1>6 DEF Next, Handlers, Step

LEMMA ConsoleInvariant == Spec => []ConsoleInv
  BY ConsoleStarts, ConsoleMoves, PTL DEF Spec

LEMMA ConsoleTyped == ConsoleInv => TypeOK
  <1> SUFFICES ASSUME ConsoleInv PROVE TypeOK
    OBVIOUS
  <1>1. LOCK \in Tasks \union {Null} /\ live \subseteq Tasks
        /\ \A h \in Tasks : mutex[h].owner \in Tasks \union {Null} /\ mutex[h].depth \in Nat
    BY DEF ConsoleInv, LockInv, LockTypes
  <1>2. ASSUME NEW t \in Tasks
        PROVE  Len(ctl[t].guards) <= 3 /\ (ctl[t].pc = "idle" => ctl[t].guards = << >>)
    <2>1. ctl[t].guards \in Seq(GuardSet) /\ Ranked(ctl[t].guards)
          /\ (ctl[t].pc = "idle" => ctl[t].guards = << >>)
      BY DEF ConsoleInv, CallTypes, Doing, TasksFlow, Flow, GuardFlow
    <2> QED
      BY <2>1, FewGuards
  <1>3. alive \subseteq Tasks /\ Len(queue) <= Capacity /\ count \in 0 .. limit
    BY DEF ConsoleInv, ObjectsInv, QueueInv, QueueTypes, SemaphoreInv, SemaphoreTypes,
       NoteInv, NoteTypes
  <1>4. \A b \in Tables, s \in 1 .. Slots : slots[b][s].len \in {0, 1, Letter + 1}
    <2>1. slots \in [Tables -> [1 .. Slots -> Slot]]
      BY DEF ConsoleInv, TableInv, TableTypes
    <2>2. \A b \in Tables, s \in 1 .. Slots : slots[b][s] \in Slot
      BY <2>1
    <2> QED
      BY <2>2 DEF Slot
  <1> QED
    BY <1>1, <1>2, <1>3, <1>4 DEF TypeOK

\* However many tasks print first and whatever they print, one mutex serves,
\* it is given back as often as it is taken, and only what is written without
\* the lock comes between two bytes of a line (lock, Guard).
THEOREM ConsoleIsSound == Spec => []ConsoleSound
  <1>1. ConsoleInv => ConsoleSound
    BY ConsoleTyped DEF ConsoleInv, LockInv, OutputInv, ConsoleSound
  <1> QED
    BY <1>1, ConsoleInvariant, PTL

\* The races of the probe misplace counts and lose none: every write counted is
\* in a slot, with the others, in a report, or on its way (probe_record,
\* probe_report).
THEOREM CountsAreKept == Spec => []CountsKept
  <1>1. ConsoleInv => CountsKept
    BY DEF ConsoleInv, TableInv
  <1> QED
    BY <1>1, ConsoleInvariant, PTL

LEMMA PartOfWhole ==
  ASSUME NEW s \in Seq(Nat), NEW u \in Seq(Nat)
  PROVE  ToSet(s) \subseteq ToSet(s \o u)
  <1>1. /\ Len(s) \in Nat /\ Len(u) \in Nat /\ s \o u \in Seq(Nat)
        /\ Len(s \o u) = Len(s) + Len(u) /\ \A k \in 1 .. Len(s) : (s \o u)[k] = s[k]
    OBVIOUS
  <1>2. DOMAIN s = 1 .. Len(s) /\ DOMAIN (s \o u) = 1 .. Len(s \o u)
    BY <1>1
  <1>3. \A k \in 1 .. Len(s) : k \in 1 .. Len(s \o u)
    BY <1>1
  <1> QED
    BY <1>1, <1>2, <1>3 DEF ToSet

\* Messages, signals and notifications are neither lost nor made up: what the
\* results say of them is what became of them, at any capacity and whichever
\* calls run out of time (rtos_al.rs).
THEOREM ResultsAreTrue == Spec => []ResultsTrue
  <1>1. ConsoleInv => ResultsTrue
    <2> SUFFICES ASSUME ConsoleInv PROVE ResultsTrue
      OBVIOUS
    <2>1. /\ accepted = got \o queue /\ refused \cap ToSet(accepted) = {}
          /\ got \in Seq(Nat) /\ queue \in Seq(Nat)
      BY DEF ConsoleInv, ObjectsInv, QueueInv, QueueTypes, NumbersOnce
    <2>2. ToSet(got) \subseteq ToSet(accepted)
      BY <2>1, PartOfWhole
    <2>3. SignalsKept /\ NotesHeard
      BY DEF ConsoleInv, ObjectsInv, SemaphoreInv, NoteInv
    <2> QED
      BY <2>1, <2>2, <2>3 DEF ResultsTrue, MessagesOnce
  <1> QED
    BY <1>1, ConsoleInvariant, PTL
=============================================================================
