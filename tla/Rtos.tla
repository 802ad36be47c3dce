-------------------------------- MODULE Rtos --------------------------------
(***************************************************************************)
(* The operating system the radio's blobs see (rtos_al.rs): queues,        *)
(* semaphores, mutexes and notifications, each call forwarded to FreeRTOS  *)
(* and its result turned round.  FreeRTOS itself, behind the calls, is not *)
(* part of the repository; it is modelled by what the calls ask of it.     *)
(*                                                                         *)
(* Tasks and a handler make the calls of a program, on one object of each  *)
(* kind.  A call that blocks stays the next one of its task.  The contract *)
(* of the callers is theirs: handles are live, isr says the truth, nothing *)
(* in use is deleted.                                                      *)
(***************************************************************************)
EXTENDS Integers, Sequences, FiniteSets, SequencesExt

CONSTANTS
  Tasks,     \* the firmware's tasks
  Capacity,  \* nb_elt of the queue
  Null       \* no task

ASSUME RtosAssumption == Capacity \in Nat \ {0} /\ Null \notin Tasks

VARIABLES
  running,   \* the scheduler runs
  alive,     \* tasks created and not deleted
  ctl,       \* per task: pc, "idle" between calls, and todo, the calls to make
  isr,       \* the calls handlers will make
  made,      \* per kind of object: not yet made, live, failed or deleted
  queue, serial, \* messages waiting; messages offered
  count, limit, asked, \* the semaphore: its count, its maximum, its initial count
  owner,     \* who has the mutex
  notes,     \* notifications pending, per task
  \* what the callers know from the results they got:
  accepted, refused, got, \* messages written, refused, read
  given, had, \* signals and waits that succeeded
  told, heard \* notifications sent to and counted by each task

objects == <<made, queue, serial, count, limit, asked, owner, notes>>
known == <<accepted, refused, got, given, had, told, heard>>
rtos == <<alive, objects, known>>

Kinds == {"queue", "semaphore", "mutex"}

RtosInit ==
  /\ made = [k \in Kinds |-> "none"]
  /\ queue = << >> /\ serial = 0
  /\ count = 0 /\ limit = 0 /\ asked = 0
  /\ owner = Null /\ notes = [t \in Tasks |-> 0]
  /\ accepted = << >> /\ refused = {} /\ got = << >>
  /\ given = 0 /\ had = 0
  /\ told = [t \in Tasks |-> 0] /\ heard = [t \in Tasks |-> 0]

\* What the callers promise: a semaphore can hold what it starts with (FreeRTOS
\* asserts that of a counting one, nothing does of a binary one), and a task that
\* is created is one of the firmware's.
Promised(c) ==
  /\ c.op = "semaphore_create" => c.arg.max \in Nat \ {0} /\ c.arg.init \in 0 .. c.arg.max
  /\ c.op = "task_create" => c.arg \in Tasks

At(t, label) == running /\ t \in alive /\ ctl[t].pc = label

\* t is about to make this call, or blocks in it.
Calls(t, op) == At(t, "idle") /\ ctl[t].todo # << >> /\ Head(ctl[t].todo).op = op
Argument(t) == Head(ctl[t].todo).arg

Return(t) == ctl' = [ctl EXCEPT ![t].todo = Tail(@)] /\ UNCHANGED <<running, isr>>

HandlerCalls(op) == isr # << >> /\ Head(isr).op = op
HandlerArgument == Head(isr).arg
HandlerReturn == isr' = Tail(isr) /\ UNCHANGED <<running, ctl>>

\* ticks: a negative timeout waits for ever, and cannot run out.
RunsOut(timeout) == timeout >= 0

\* Mutant: FreeRTOS's own result is passed on.
ResultKept(res) == res

\* (res == 0) as c_int: 0 is success, 1 a timeout or a failure.
Result(res) == IF res = 0 THEN 1 ELSE 0

-----------------------------------------------------------------------------
(* Making objects and deleting them.                                       *)

\* The out of the blob's memory: the handle is null and the result -1; a blob
\* makes no call on what it does not have.
CreateObject(k) ==
  /\ made[k] = "none"
  /\ made' \in {[made EXCEPT ![k] = "live"], [made EXCEPT ![k] = "failed"]}

QueueCreate(t) ==
  /\ Calls(t, "queue_create") /\ CreateObject("queue") /\ Return(t)
  /\ UNCHANGED <<alive, queue, serial, count, limit, asked, owner, notes, known>>

\* Mutant: a binary semaphore is left as FreeRTOS makes it.
SemaphoreCreateEmpty(t) ==
  /\ Calls(t, "semaphore_create") /\ CreateObject("semaphore") /\ Return(t)
  /\ limit' = Argument(t).max /\ asked' = Argument(t).init
  /\ count' = IF limit' = 1 THEN 0 ELSE asked'
  /\ UNCHANGED <<alive, queue, serial, owner, notes, known>>

\* A binary semaphore starts empty and is given its initial count.
SemaphoreCreate(t) ==
  /\ Calls(t, "semaphore_create") /\ CreateObject("semaphore") /\ Return(t)
  /\ limit' = Argument(t).max /\ asked' = Argument(t).init
  /\ count' = IF limit' = 1 THEN (IF asked' # 0 THEN 1 ELSE 0) ELSE asked'
  /\ UNCHANGED <<alive, queue, serial, owner, notes, known>>

MutexCreate(t) ==
  /\ Calls(t, "mutex_create") /\ CreateObject("mutex") /\ Return(t)
  /\ UNCHANGED <<alive, queue, serial, count, limit, asked, owner, notes, known>>

\* Nobody has a call on the object left to make.
Unused(t, k) == \A u \in Tasks \ {t} : \A i \in DOMAIN ctl[u].todo : ctl[u].todo[i].on # k

Delete(t) ==
  /\ Calls(t, "delete")
  /\ LET k == Argument(t) IN
       /\ made[k] = "live" /\ Unused(t, k) /\ \A i \in DOMAIN isr : isr[i].on # k
       /\ made' = [made EXCEPT ![k] = "deleted"]
  /\ Return(t)
  /\ UNCHANGED <<alive, queue, serial, count, limit, asked, owner, notes, known>>

\* What could not be made is not used.
Skip(t) ==
  /\ At(t, "idle") /\ ctl[t].todo # << >>
  /\ Head(ctl[t].todo).on \in Kinds /\ made[Head(ctl[t].todo).on] = "failed"
  /\ Return(t)
  /\ UNCHANGED rtos

HandlerSkip ==
  /\ isr # << >> /\ Head(isr).on \in Kinds /\ made[Head(isr).on] = "failed"
  /\ HandlerReturn
  /\ UNCHANGED rtos

-----------------------------------------------------------------------------
(* Queues.  The caller reads 0 and counts its message as written.          *)

Send(timeout, sent) ==
  /\ made["queue"] = "live"
  /\ serial' = serial + 1
  /\ \/ sent = 1 /\ Len(queue) < Capacity /\ queue' = Append(queue, serial + 1)
     \/ sent = 0 /\ Len(queue) = Capacity /\ RunsOut(timeout) /\ UNCHANGED queue
  /\ IF Result(sent) = 0
     THEN accepted' = Append(accepted, serial + 1) /\ UNCHANGED refused
     ELSE refused' = refused \union {serial + 1} /\ UNCHANGED accepted
  /\ UNCHANGED <<alive, made, count, limit, asked, owner, notes, got, given, had, told, heard>>

QueueWrite(t) ==
  /\ Calls(t, "queue_write")
  /\ \E sent \in {0, 1} : Send(Argument(t), sent)
  /\ Return(t)

Receive(timeout, received) ==
  /\ made["queue"] = "live"
  /\ \/ received = 1 /\ queue # << >> /\ queue' = Tail(queue)
     \/ received = 0 /\ queue = << >> /\ RunsOut(timeout) /\ UNCHANGED queue
  /\ got' = IF Result(received) = 0 THEN Append(got, Head(queue)) ELSE got
  /\ UNCHANGED <<alive, made, serial, count, limit, asked, owner, notes, accepted, refused,
                 given, had, told, heard>>

QueueRead(t) ==
  /\ Calls(t, "queue_read")
  /\ \E received \in {0, 1} : Receive(Argument(t), received)
  /\ Return(t)

\* The FromISR forms do not wait.
HandlerQueueWrite ==
  /\ HandlerCalls("queue_write")
  /\ \E sent \in {0, 1} : Send(0, sent)
  /\ HandlerReturn

HandlerQueueRead ==
  /\ HandlerCalls("queue_read")
  /\ \E received \in {0, 1} : Receive(0, received)
  /\ HandlerReturn

-----------------------------------------------------------------------------
(* Semaphores and mutexes.                                                 *)

SemaphoreWait(t) ==
  /\ Calls(t, "semaphore_wait") /\ made["semaphore"] = "live"
  /\ \E taken \in {0, 1} :
       /\ \/ taken = 1 /\ count > 0 /\ count' = count - 1
          \/ taken = 0 /\ count = 0 /\ RunsOut(Argument(t)) /\ UNCHANGED count
       /\ had' = IF Result(taken) = 0 THEN had + 1 ELSE had
  /\ Return(t)
  /\ UNCHANGED <<alive, made, queue, serial, limit, asked, owner, notes, accepted, refused,
                 got, given, told, heard>>

\* A signal to a full semaphore fails, from a task too: its timeout is 0.
Signal ==
  /\ made["semaphore"] = "live"
  /\ LET done == IF count < limit THEN 1 ELSE 0 IN
       /\ count' = count + done
       /\ given' = IF Result(done) = 0 THEN given + 1 ELSE given
  /\ UNCHANGED <<alive, made, queue, serial, limit, asked, owner, notes, accepted, refused,
                 got, had, told, heard>>

SemaphoreSignal(t) == Calls(t, "semaphore_signal") /\ Signal /\ Return(t)
HandlerSignal == HandlerCalls("semaphore_signal") /\ Signal /\ HandlerReturn

MutexLock(t) ==
  /\ Calls(t, "mutex_lock") /\ made["mutex"] = "live"
  /\ owner = Null /\ owner' = t
  /\ Return(t)
  /\ UNCHANGED <<alive, made, queue, serial, count, limit, asked, notes, known>>

MutexUnlock(t) ==
  /\ Calls(t, "mutex_unlock") /\ made["mutex"] = "live"
  /\ owner = t /\ owner' = Null
  /\ Return(t)
  /\ UNCHANGED <<alive, made, queue, serial, count, limit, asked, notes, known>>

-----------------------------------------------------------------------------
(* Tasks and their notifications.                                          *)

\* Mutant: a notification overwrites the one before it.
NotifyOverwrites(u) ==
  /\ u \in alive
  /\ notes' = [notes EXCEPT ![u] = 1] /\ told' = [told EXCEPT ![u] = @ + 1]
  /\ UNCHANGED <<alive, made, queue, serial, count, limit, asked, owner, accepted, refused,
                 got, given, had, heard>>

\* eIncrement: notifications accumulate.
Notify(u) ==
  /\ u \in alive
  /\ notes' = [notes EXCEPT ![u] = @ + 1] /\ told' = [told EXCEPT ![u] = @ + 1]
  /\ UNCHANGED <<alive, made, queue, serial, count, limit, asked, owner, accepted, refused,
                 got, given, had, heard>>

TaskNotify(t) == Calls(t, "notify") /\ Notify(Argument(t)) /\ Return(t)
HandlerNotify == HandlerCalls("notify") /\ Notify(HandlerArgument) /\ HandlerReturn

\* The wait ends with the count, which it clears; 0 is a timeout.
WaitNotification(t) ==
  /\ Calls(t, "wait_notification")
  /\ notes[t] > 0 \/ RunsOut(Argument(t))
  /\ heard' = [heard EXCEPT ![t] = @ + notes[t]]
  /\ notes' = [notes EXCEPT ![t] = 0]
  /\ Return(t)
  /\ UNCHANGED <<alive, made, queue, serial, count, limit, asked, owner, accepted, refused,
                 got, given, had, told>>

\* 1 and no handle when there is no memory for the task.
TaskCreate(t) ==
  /\ Calls(t, "task_create")
  /\ alive' \in {alive, alive \union {Argument(t)}}
  /\ Return(t)
  /\ UNCHANGED <<objects, known>>

\* A null handle is the caller's own; one deleted already is left alone.
TaskDelete(t) ==
  /\ Calls(t, "task_delete")
  /\ alive' = alive \ {IF Argument(t) = Null THEN t ELSE Argument(t)}
  /\ Return(t)
  /\ UNCHANGED <<objects, known>>

RtosStep(t) ==
  \/ QueueCreate(t) \/ SemaphoreCreate(t) \/ MutexCreate(t) \/ Delete(t) \/ Skip(t)
  \/ QueueWrite(t) \/ QueueRead(t) \/ SemaphoreWait(t) \/ SemaphoreSignal(t)
  \/ MutexLock(t) \/ MutexUnlock(t) \/ TaskNotify(t) \/ WaitNotification(t)
  \/ TaskCreate(t) \/ TaskDelete(t)

RtosHandler ==
  HandlerQueueWrite \/ HandlerQueueRead \/ HandlerSignal \/ HandlerNotify \/ HandlerSkip

-----------------------------------------------------------------------------
\* By the results they get, callers know what became of every message: those
\* accepted are read in their order, each once, or wait, and none refused is
\* read ("0 for success and 1 for timeout or failure", the module doc).
MessagesOnce == accepted = got \o queue /\ refused \cap ToSet(got) = {}

\* The semaphore holds what its callers asked for at first and signalled with
\* success, less what they were granted (rtos_semaphore_*).
SignalsKept == made["semaphore"] = "live" => count + had = asked + given

\* Every notification is heard: those of a task are the ones its waits
\* returned and the ones pending (rtos_task_notify).
NotesHeard == \A t \in Tasks : told[t] = heard[t] + notes[t]

\* "so each wait consumes one notification" (rtos_task_wait_notification).
OneNotePerWait == [][\A t \in Tasks : notes'[t] < notes[t] => notes'[t] = notes[t] - 1]_rtos

\* The blobs can rely on what the calls return: messages, signals and
\* notifications are neither lost nor made up.
ResultsTrue == MessagesOnce /\ SignalsKept /\ NotesHeard
=============================================================================
