----------------------------- MODULE MCConsole ------------------------------
(* Console over Rtos, with two tasks and a few short programs.             *)
EXTENDS Console, TLC

CONSTANTS t1, t2

Call(op, on, arg) == [op |-> op, on |-> on, arg |-> arg]
Ops(on, ops) == [i \in DOMAIN ops |-> Call(ops[i], on, -1)]
Prints(ops) == Ops("console", ops)

Program(probe, p, q, handlers) ==
  [probe |-> probe, calls |-> (t1 :> p) @@ (t2 :> q), isr |-> handlers, later |-> {}]

\* Lines against lines and against the vendor's printf and putchar.
Lines ==
  {Program(FALSE, Prints(<<"println">>), Prints(<<"println">>), Prints(<<"print">>)),
   Program(FALSE, Prints(<<"println">>), Prints(<<"printf", "putchar">>), Prints(<<"print">>))}

\* Shapes counted by two tasks, and the probe read while another is counted.
Probing ==
  {Program(TRUE, Prints(<<"printf">>), Prints(<<"putchar">>), Prints(<<"print">>)),
   Program(TRUE, Prints(<<"report">>), Prints(<<"putchar">>), Prints(<<"print">>))}

\* More written than the queue holds, with a handler that reads.
Writes(n, timeout) == [i \in 1 .. n |-> Call("queue_write", "queue", timeout)]
Reads(n, timeout) == [i \in 1 .. n |-> Call("queue_read", "queue", timeout)]
Queues ==
  {Program(FALSE, Ops("queue", <<"queue_create">>) \o Writes(4, -1) \o
                  <<Call("delete", "queue", "queue")>>, Reads(4, -1), << >>),
   Program(FALSE, Ops("queue", <<"queue_create">>) \o Writes(3, 1), Reads(3, 1),
                  Writes(2, 0) \o Reads(1, 0))}

\* A binary semaphore that starts full, a counting one, and one given twice.
Semaphore(max, init) == Call("semaphore_create", "semaphore", [max |-> max, init |-> init])
Signals(n) == [i \in 1 .. n |-> Call("semaphore_signal", "semaphore", 0)]
Waits(n, timeout) == [i \in 1 .. n |-> Call("semaphore_wait", "semaphore", timeout)]
Semaphores ==
  {Program(FALSE, <<Semaphore(1, 1)>> \o Waits(1, -1) \o Signals(1), Waits(1, 1) \o Signals(1), Signals(1)),
   Program(FALSE, <<Semaphore(3, 0)>> \o Signals(2), Waits(3, -1), Signals(1)),
   Program(FALSE, <<Semaphore(1, 0)>> \o Signals(2), Waits(2, 0), Signals(1))}

\* Two tasks in turn under the mutex, the second made by the first, which also
\* tells it so; it deletes itself.
Note == Call("notify", t2, t2)
Listen(timeout) == Call("wait_notification", t2, timeout)
Locking == Ops("mutex", <<"mutex_lock", "mutex_unlock">>)
Tasking ==
  {Program(FALSE, Ops("mutex", <<"mutex_create">>) \o Locking \o <<Note, Note>>,
                  <<Listen(-1)>> \o Locking \o <<Listen(0)>>, <<Note>>),
   [Program(FALSE, <<Call("task_create", t2, t2)>> \o Prints(<<"println">>),
                   Prints(<<"putchar">>) \o <<Call("task_delete", t2, Null)>>, << >>)
      EXCEPT !.later = {t2}]}

MCPrograms == Lines \union Probing \union Queues \union Semaphores \union Tasking
=============================================================================
