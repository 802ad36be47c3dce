------------------------------ MODULE Console -------------------------------
(***************************************************************************)
(* The console of bl616-wifi (console.rs): every write in the firmware     *)
(* goes through one recursive mutex, made by whoever prints first, and a   *)
(* Rust line holds it from its first byte to its newline.  With the        *)
(* console-probe feature each write, format string and putchar is counted  *)
(* on the way, in tables that take no lock.                                *)
(*                                                                         *)
(* The tasks are those of Rtos, whose calls their programs mix with prints. *)
(* A mutex is named after the task that made it: a task whose creation     *)
(* succeeds never needs a second one.                                      *)
(***************************************************************************)
EXTENDS Rtos

CONSTANTS
  Programs,  \* is console-probe compiled in, and the calls of each task and of handlers
  Slots      \* PROBE_SLOTS

ASSUME ConsoleAssumption ==
  /\ Slots \in Nat \ {0}
  /\ \A p \in Programs :
       /\ p.probe \in BOOLEAN /\ DOMAIN p.calls = Tasks
       /\ p.isr \in Seq(ToSet(p.isr))
       /\ \A t \in Tasks :
            /\ p.calls[t] \in Seq(ToSet(p.calls[t]))
            /\ \A c \in ToSet(p.calls[t]) : Promised(c)

\* The calls, as the chunks of bytes each hands to printf.  A byte is its value.
Printing == {"println", "printf", "putchar", "report"}
Newline == 10
Letter == 65
ChunksOf(call) ==
  CASE call = "println" -> << <<Letter>>, <<Newline>> >>
    [] call = "printf"  -> << <<Letter, Newline>> >>
    [] call = "putchar" -> << <<Letter>> >>
    [] call = "report"  -> << <<Newline>> >>

Tables == {"PROBE", "FMTS", "PUTCHARS"}

VARIABLES
  probed,    \* this build has console-probe
  LOCK, live, mutex, \* LOCK; mutexes that exist; the owner and depth of each
  slots, CALLS, other, \* the tables; CALLS; OTHER, FMTS_OTHER and PUTC_OTHER
  taken, summed, shown, \* calls and counts taken by reports; lines a report shows
  output     \* what the console was given, in order

kernel == <<LOCK, live, mutex>>
tables == <<slots, CALLS, other, taken, summed, shown>>
prints == <<probed, kernel, tables, output>>
vars == <<prints, running, ctl, isr, rtos>>

Idle(todo) ==
  [pc |-> "idle", todo |-> todo, call |-> "println", chunks |-> << >>, guards |-> << >>,
   want |-> "line", hand |-> Null, scan |-> [table |-> "PROBE", len |-> 0, head |-> 0, at |-> 0]]

Empty == [len |-> 0, head |-> 0, count |-> 0]

Init ==
  /\ running = FALSE
  /\ LOCK = Null /\ live = {}
  /\ mutex = [h \in Tasks |-> [owner |-> Null, depth |-> 0]]
  /\ \E p \in Programs : probed = p.probe /\ isr = p.isr
       /\ alive = Tasks \ p.later /\ ctl = [t \in Tasks |-> Idle(p.calls[t])]
  /\ slots = [b \in Tables |-> [s \in 1 .. Slots |-> Empty]]
  /\ CALLS = 0 /\ other = [b \in Tables |-> 0] /\ taken = 0 /\ summed = 0 /\ shown = {}
  /\ output = << >>
  /\ RtosInit

Goto(t, label) == ctl' = [ctl EXCEPT ![t].pc = label]

-----------------------------------------------------------------------------
(* Guard: take and drop.                                                   *)

\* Where a task goes on when it has the guard it wanted.
Under(want) == IF want = "write" THEN "real" ELSE "next"

GuardOver(t, h) ==
  ctl' = [ctl EXCEPT ![t].pc = Under(ctl[t].want), ![t].hand = Null,
                     ![t].guards = Append(@, [for |-> ctl[t].want, mutex |-> h])]

\* A task of a running scheduler may lock; lock() looks for a mutex.
TakeLoad(t) ==
  /\ At(t, "take")
  /\ ctl' = [ctl EXCEPT ![t].pc = IF LOCK = Null THEN "create" ELSE "wait", ![t].hand = LOCK]
  /\ UNCHANGED <<probed, running, kernel, tables, isr, rtos, output>>

CreateFails(t) ==
  /\ At(t, "create")
  /\ GuardOver(t, Null)
  /\ UNCHANGED <<probed, running, kernel, tables, isr, rtos, output>>

Create(t) ==
  /\ At(t, "create")
  /\ live' = live \union {t}
  /\ Goto(t, "exchange")
  /\ UNCHANGED <<probed, running, LOCK, mutex, tables, isr, rtos, output>>

\* Mutant: the loser of the race keeps its own.
ExchangeKeeps(t) ==
  /\ At(t, "exchange")
  /\ LOCK' = IF LOCK = Null THEN t ELSE LOCK
  /\ ctl' = [ctl EXCEPT ![t].pc = "wait", ![t].hand = t]
  /\ UNCHANGED <<probed, running, live, mutex, tables, isr, rtos, output>>

\* compare_exchange: the first mutex stays, another is deleted.
Exchange(t) ==
  /\ At(t, "exchange")
  /\ LOCK' = IF LOCK = Null THEN t ELSE LOCK
  /\ live' = IF LOCK = Null THEN live ELSE live \ {t}
  /\ ctl' = [ctl EXCEPT ![t].pc = "wait", ![t].hand = LOCK']
  /\ UNCHANGED <<probed, running, mutex, tables, isr, rtos, output>>

\* Mutant: the mutex is not recursive.
TakePlain(t) ==
  /\ At(t, "wait")
  /\ mutex[ctl[t].hand].owner = Null
  /\ mutex' = [mutex EXCEPT ![ctl[t].hand] = [owner |-> t, depth |-> 1]]
  /\ GuardOver(t, ctl[t].hand)
  /\ UNCHANGED <<probed, running, LOCK, live, tables, isr, rtos, output>>

Take(t) ==
  /\ At(t, "wait")
  /\ mutex[ctl[t].hand].owner \in {Null, t}
  /\ mutex' = [mutex EXCEPT ![ctl[t].hand] = [owner |-> t, depth |-> @.depth + 1]]
  /\ GuardOver(t, ctl[t].hand)
  /\ UNCHANGED <<probed, running, LOCK, live, tables, isr, rtos, output>>

\* Mutant: giving back any guard frees the console.
GivenWhole(m) == [owner |-> Null, depth |-> 0]

Given(m) == IF m.depth = 1 THEN [owner |-> Null, depth |-> 0] ELSE [m EXCEPT !.depth = @ - 1]

\* The innermost guard is dropped, and the task goes on below it.
Drop(t) ==
  /\ At(t, "drop")
  /\ LET g == Last(ctl[t].guards) IN
       /\ mutex' = IF g.mutex = Null THEN mutex ELSE [mutex EXCEPT ![g.mutex] = Given(@)]
       /\ ctl' = [ctl EXCEPT ![t].guards = Front(@), ![t].pc = "next"]
  /\ UNCHANGED <<probed, running, LOCK, live, tables, isr, rtos, output>>

-----------------------------------------------------------------------------
(* The probe: a table is walked from its first slot to one that matches or *)
(* is free, in steps other contexts run between.                           *)

\* A shape is told by length and first bytes, the others by their key alone.
Matches(s, table, len, head) == s.len = len /\ (table = "PROBE" => s.head = head)

Match(t) ==
  /\ At(t, "match")
  /\ LET c == ctl[t].scan IN
       Goto(t, IF c.at > Slots THEN "other"
               ELSE IF Matches(slots[c.table][c.at], c.table, c.len, c.head) THEN "count"
               ELSE "free")
  /\ UNCHANGED <<probed, running, kernel, tables, isr, rtos, output>>

Free(t) ==
  /\ At(t, "free")
  /\ LET c == ctl[t].scan IN
       IF slots[c.table][c.at].len = 0 THEN Goto(t, "claim")
       ELSE ctl' = [ctl EXCEPT ![t].pc = "match", ![t].scan.at = @ + 1]
  /\ UNCHANGED <<probed, running, kernel, tables, isr, rtos, output>>

ClaimLen(t) ==
  /\ At(t, "claim")
  /\ LET c == ctl[t].scan IN slots' = [slots EXCEPT ![c.table][c.at].len = c.len]
  /\ Goto(t, "head")
  /\ UNCHANGED <<probed, running, kernel, CALLS, other, taken, summed, shown, isr, rtos, output>>

ClaimHead(t) ==
  /\ At(t, "head")
  /\ LET c == ctl[t].scan IN slots' = [slots EXCEPT ![c.table][c.at].head = c.head]
  /\ Goto(t, "count")
  /\ UNCHANGED <<probed, running, kernel, CALLS, other, taken, summed, shown, isr, rtos, output>>

\* Recorded: the caller's own step comes next.
Recorded(t) == Goto(t, IF ctl[t].scan.table = "PUTCHARS" THEN "next" ELSE "take")

\* Mutant: the walk goes on after a count.
CountGoesOn(t) ==
  /\ At(t, "count")
  /\ LET c == ctl[t].scan IN slots' = [slots EXCEPT ![c.table][c.at].count = @ + 1]
  /\ ctl' = [ctl EXCEPT ![t].pc = "match", ![t].scan.at = @ + 1]
  /\ UNCHANGED <<probed, running, kernel, CALLS, other, taken, summed, shown, isr, rtos, output>>

Count(t) ==
  /\ At(t, "count")
  /\ LET c == ctl[t].scan IN slots' = [slots EXCEPT ![c.table][c.at].count = @ + 1]
  /\ Recorded(t)
  /\ UNCHANGED <<probed, running, kernel, CALLS, other, taken, summed, shown, isr, rtos, output>>

CountOther(t) ==
  /\ At(t, "other")
  /\ other' = [other EXCEPT ![ctl[t].scan.table] = @ + 1]
  /\ Recorded(t)
  /\ UNCHANGED <<probed, running, kernel, slots, CALLS, taken, summed, shown, isr, rtos, output>>

\* The same, undisturbed.
Found(table, len, head) ==
  {s \in 1 .. Slots : Matches(slots[table][s], table, len, head) \/ slots[table][s].len = 0}

RecordAtOnce(len, head) ==
  LET found == Found("PROBE", len, head)
      s == CHOOSE x \in found : \A y \in found : x <= y
  IN IF found = {}
     THEN other' = [other EXCEPT !["PROBE"] = @ + 1] /\ UNCHANGED slots
     ELSE /\ slots' = [slots EXCEPT !["PROBE"][s] =
                         [len |-> len, head |-> head, count |-> @.count + 1]]
          /\ UNCHANGED other

-----------------------------------------------------------------------------
(* print!, println!, the vendor's printf and putchar, down to the write.   *)

Begin(t) ==
  /\ At(t, "idle") /\ ctl[t].todo # << >> /\ Head(ctl[t].todo).op \in Printing
  /\ LET call == Head(ctl[t].todo).op
         start == CASE call = "println" -> "take"
                    [] call = "report" -> "calls"
                    [] call = "putchar" /\ probed -> "match"
                    [] OTHER -> "next"
     IN ctl' = [ctl EXCEPT ![t].pc = start, ![t].todo = Tail(@), ![t].call = call,
                           ![t].chunks = ChunksOf(call), ![t].want = "line",
                           ![t].scan = [table |-> "PUTCHARS", len |-> Letter + 1,
                                        head |-> 0, at |-> 1]]
  /\ UNCHANGED <<probed, running, kernel, tables, isr, rtos, output>>

Formatting(t) == ctl[t].guards # << >> /\ Last(ctl[t].guards).for = "format"

\* __wrap_console_vsnprintf, of a probe build: the format string is recorded,
\* the guard taken, and what it writes is written under it.
Format(t) ==
  /\ At(t, "next") /\ ctl[t].chunks # << >> /\ Head(ctl[t].chunks) # << >>
  /\ probed /\ ctl[t].call # "putchar" /\ ~Formatting(t)
  /\ ctl' = [ctl EXCEPT ![t].pc = "match", ![t].want = "format",
                        ![t].scan = [table |-> "FMTS", len |-> 1, head |-> 1, at |-> 1]]
  /\ UNCHANGED <<probed, running, kernel, tables, isr, rtos, output>>

\* __wrap_bflb_console_write: record the byte, then take the guard.
Write(t) ==
  /\ At(t, "next") /\ ctl[t].chunks # << >> /\ Head(ctl[t].chunks) # << >>
  /\ Formatting(t) \/ ~probed \/ ctl[t].call = "putchar"
  /\ CALLS' = IF probed THEN CALLS + 1 ELSE CALLS
  /\ ctl' = [ctl EXCEPT ![t].pc = IF probed THEN "match" ELSE "take", ![t].want = "write",
                        ![t].scan = [table |-> "PROBE", len |-> 1,
                                     head |-> Head(Head(ctl[t].chunks)), at |-> 1]]
  /\ UNCHANGED <<probed, running, kernel, slots, other, taken, summed, shown, isr, rtos, output>>

\* __real_bflb_console_write, then the guard is dropped.
Real(t) ==
  /\ At(t, "real")
  /\ output' = Append(output,
       [by |-> t, call |-> Len(ctl[t].todo),
        locked |-> Last(ctl[t].guards).mutex # Null,
        line |-> ctl[t].guards[1].for = "line" /\ ctl[t].guards[1].mutex # Null])
  /\ ctl' = [ctl EXCEPT ![t].pc = "drop", ![t].chunks[1] = Tail(@)]
  /\ UNCHANGED <<probed, running, kernel, tables, isr, rtos>>

EndChunk(t) ==
  /\ At(t, "next") /\ ctl[t].chunks # << >> /\ Head(ctl[t].chunks) = << >>
  /\ ctl' = [ctl EXCEPT ![t].chunks = Tail(@), ![t].pc = IF Formatting(t) THEN "drop" ELSE @]
  /\ UNCHANGED <<probed, running, kernel, tables, isr, rtos, output>>

\* Mutant: a guard outlives its line.
EndCallForgets(t) ==
  /\ At(t, "next") /\ ctl[t].chunks = << >>
  /\ Goto(t, "idle")
  /\ UNCHANGED <<probed, running, kernel, tables, isr, rtos, output>>

EndCall(t) ==
  /\ At(t, "next") /\ ctl[t].chunks = << >>
  /\ Goto(t, IF ctl[t].guards = << >> THEN "idle" ELSE "drop")
  /\ UNCHANGED <<probed, running, kernel, tables, isr, rtos, output>>

\* A handler, or main before the scheduler runs, writes without the lock and
\* without any task running between its steps.
Unlocked ==
  /\ HandlerCalls("print") /\ HandlerReturn
  /\ output' = Append(output, [by |-> Null, call |-> Len(isr), locked |-> FALSE, line |-> FALSE])
  /\ IF probed THEN CALLS' = CALLS + 1 /\ RecordAtOnce(1, Letter)
     ELSE UNCHANGED <<CALLS, slots, other>>
  /\ UNCHANGED <<probed, kernel, rtos, taken, summed, shown>>

StartScheduler ==
  /\ ~running /\ running' = TRUE
  /\ UNCHANGED <<prints, ctl, isr, rtos>>

-----------------------------------------------------------------------------
(* probe_report: the totals, then each slot of each table, then the lines. *)

ReportTotals(t) ==
  /\ At(t, "calls")
  /\ taken' = taken + CALLS /\ CALLS' = 0
  /\ Goto(t, "others")
  /\ UNCHANGED <<probed, running, kernel, slots, other, summed, shown, isr, rtos, output>>

ReportOthers(t) ==
  /\ At(t, "others")
  /\ summed' = summed + other["PROBE"] /\ other' = [b \in Tables |-> 0]
  /\ ctl' = [ctl EXCEPT ![t].pc = "look",
                        ![t].scan = [table |-> "PROBE", len |-> 0, head |-> 0, at |-> 1]]
  /\ UNCHANGED <<probed, running, kernel, slots, CALLS, taken, shown, isr, rtos, output>>

ReportLook(t) ==
  /\ At(t, "look")
  /\ LET c == ctl[t].scan IN
       ctl' = [ctl EXCEPT ![t].pc = "swap", ![t].scan.len = slots[c.table][c.at].len,
                          ![t].scan.head = slots[c.table][c.at].head]
  /\ UNCHANGED <<probed, running, kernel, tables, isr, rtos, output>>

\* The slot a report comes to after this one.
After(c) ==
  IF c.at < Slots THEN [c EXCEPT !.at = @ + 1]
  ELSE [c EXCEPT !.at = 1, !.table = IF @ = "PROBE" THEN "FMTS" ELSE "PUTCHARS"]

ReportSwap(t) ==
  /\ At(t, "swap")
  /\ LET c == ctl[t].scan
         n == slots[c.table][c.at].count
     IN /\ slots' = [slots EXCEPT ![c.table][c.at].count = 0]
        /\ summed' = IF c.table = "PROBE" THEN summed + n ELSE summed
        /\ shown' = IF n = 0 THEN shown ELSE shown \union {[table |-> c.table, len |-> c.len]}
        /\ ctl' = [ctl EXCEPT ![t].scan = After(c),
                ![t].pc = IF c.table = "PUTCHARS" /\ c.at = Slots THEN "take" ELSE "look"]
  /\ UNCHANGED <<probed, running, kernel, CALLS, other, taken, isr, rtos, output>>

-----------------------------------------------------------------------------
PrintStep(t) ==
  \/ Begin(t) \/ Format(t) \/ Write(t) \/ Real(t) \/ EndChunk(t) \/ EndCall(t)
  \/ TakeLoad(t) \/ CreateFails(t) \/ Create(t) \/ Exchange(t) \/ Take(t) \/ Drop(t)
  \/ Match(t) \/ Free(t) \/ ClaimLen(t) \/ ClaimHead(t) \/ Count(t) \/ CountOther(t)
  \/ ReportTotals(t) \/ ReportOthers(t) \/ ReportLook(t) \/ ReportSwap(t)

Step(t) == PrintStep(t) \/ (RtosStep(t) /\ UNCHANGED prints)

Handlers == Unlocked \/ (RtosHandler /\ UNCHANGED prints)

Next == StartScheduler \/ Handlers \/ \E t \in Tasks : Step(t)

\* The scheduler starts and runs every task that can go on; handlers run.
Spec ==
  /\ Init /\ [][Next]_vars
  /\ WF_vars(StartScheduler) /\ WF_vars(Handlers) /\ \A t \in Tasks : WF_vars(Step(t))

-----------------------------------------------------------------------------
\* Every variable keeps its type, and a task that is idle holds no guard.
TypeOK ==
  /\ LOCK \in Tasks \union {Null} /\ live \subseteq Tasks
  /\ \A h \in Tasks : mutex[h].owner \in Tasks \union {Null} /\ mutex[h].depth \in Nat
  /\ \A t \in Tasks :
       /\ Len(ctl[t].guards) <= 3
       /\ ctl[t].pc = "idle" => ctl[t].guards = << >>
  /\ alive \subseteq Tasks /\ Len(queue) <= Capacity /\ count \in 0 .. limit
  /\ \A b \in Tables, s \in 1 .. Slots : slots[b][s].len \in {0, 1, Letter + 1}

\* The guards a task holds, or is about to take, of a mutex.
Held(t, h) == Cardinality({k \in 1 .. Len(ctl[t].guards) : ctl[t].guards[k].mutex = h})

\* However many tasks print first, one mutex serves for ever and it exists: no
\* guard is over, and nobody waits for, one that lost the race and was deleted
\* (lock).
OneMutex ==
  /\ LOCK # Null => LOCK \in live
  /\ \A t \in Tasks :
       /\ ctl[t].pc = "wait" => ctl[t].hand = LOCK
       /\ \A k \in 1 .. Len(ctl[t].guards) : ctl[t].guards[k].mutex \in {LOCK, Null}

\* The mutex counts exactly the guards alive: what is taken for a line, a format
\* and a write is given back as often, guards over nothing included (Guard).
GuardsBalance ==
  \A h \in Tasks :
    /\ mutex[h].owner = Null => \A t \in Tasks : Held(t, h) = 0
    /\ mutex[h].owner # Null =>
         /\ mutex[h].depth = Held(mutex[h].owner, h)
         /\ \A t \in Tasks \ {mutex[h].owner} : Held(t, h) = 0

\* Between two bytes of a line printed under the lock come only bytes written
\* without it, by a handler or by a task that could not make a mutex: "a line
\* and its newline cannot be split either" (the module doc).
LinesWhole ==
  \A i, j, k \in DOMAIN output :
    /\ i < j /\ j < k
    /\ output[i].by = output[k].by /\ output[i].call = output[k].call /\ output[i].line
    /\ output[j].locked
    => output[j].by = output[i].by

\* Writes counted and not yet recorded in the table.
Recording ==
  Cardinality({t \in Tasks : /\ ctl[t].scan.table = "PROBE"
                             /\ ctl[t].pc \in {"match", "free", "claim", "head", "count", "other"}})

Counted == Cardinality(UNION {{s} \X (1 .. slots["PROBE"][s].count) : s \in 1 .. Slots})

\* Races misplace a count and never lose one: every write is in one slot, among
\* the unrecorded, in a report, or on its way (probe_record, probe_report).
CountsKept == CALLS + taken = Counted + other["PROBE"] + summed + Recording

\* A report shows a byte with each putchar count: the length 0 of a free slot is
\* no byte, and the report subtracts one from it (probe_report).
ShownClaimed == \A line \in shown : line.table = "PUTCHARS" => line.len # 0

\* Every call returns and every task gets through its calls: nobody waits for
\* ever for the console, or for what another task or a handler does.
CallsReturn ==
  \A t \in Tasks : <>[](t \in alive => ctl[t].pc = "idle" /\ ctl[t].todo = << >>)

\* One lock, given back as often as taken, that keeps lines whole.
ConsoleSound == TypeOK /\ OneMutex /\ GuardsBalance /\ LinesWhole
=============================================================================
