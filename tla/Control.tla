------------------------------ MODULE Control ------------------------------
(***************************************************************************)
(* The operations of a Wifi handle (sta.rs, ap.rs): connect, disconnect,   *)
(* scan_and_print, start_ap and stop_ap.  Each clears some bits of the     *)
(* event latch (event.rs), asks the vendor's manager, and polls the latch  *)
(* for the outcome.  A handle is not Send, so one task is in at most one   *)
(* operation; the manager posts events from another task meanwhile, and    *)
(* every access to the latch is a step of its own.                         *)
(*                                                                         *)
(* The manager is external: what it is asked ends in one of the sequences  *)
(* of events of Outcomes, posted in order, whenever it gets to it.  Time   *)
(* is counted in sleeps of a wait (POLL_MS).                               *)
(***************************************************************************)
EXTENDS Naturals, Sequences, SequencesExt

CONSTANTS
    Timeout,    \* timeout_ms, and the 5 s of disconnect and stop_ap, in sleeps
    Settled,    \* the application calls again only when the manager has
                \* posted all it had to say of the call before
    MaxPending  \* bound: events the manager still has to post

ASSUME ControlAssumption ==
    /\ Timeout \in Nat /\ MaxPending \in Nat
    /\ Settled \in BOOLEAN

Event == {"Connected", "Disconnected", "GotIp", "LostIp", "GotIpTimeout",
          "ScanDone", "ApStarted", "ApStopped", "ParamsError"}

\* connect with StaConfig::dhcp on, and with it off.
Ops == {"connect", "connect_static", "disconnect", "scan", "start_ap", "stop_ap"}

Joins == {"connect", "connect_static"}

\* A mutant: GotIpTimeout is not among what connect clears.
ClearedNotAll(o) ==
    CASE o \in Joins -> <<"Connected", "Disconnected", "GotIp", "ParamsError">>
      [] o = "disconnect" -> <<"Disconnected">>
      [] o = "scan" -> <<"ScanDone">>
      [] o = "start_ap" -> <<"ApStarted", "ApStopped", "ParamsError">>
      [] o = "stop_ap" -> <<"ApStopped">>

\* What each operation gives to event::clear.
Cleared(o) ==
    CASE o \in Joins -> <<"Connected", "Disconnected", "GotIp",
                           "GotIpTimeout", "ParamsError">>
      [] o = "disconnect" -> <<"Disconnected">>
      [] o = "scan" -> <<"ScanDone">>
      [] o = "start_ap" -> <<"ApStarted", "ApStopped", "ParamsError">>
      [] o = "stop_ap" -> <<"ApStopped">>

\* What it gives to event::wait; connect waits a second time for its lease.
Awaited(o, s) ==
    CASE o \in Joins /\ s = 1 -> <<"Connected", "Disconnected", "ParamsError">>
      [] o \in Joins /\ s = 2 -> <<"GotIp", "GotIpTimeout", "Disconnected">>
      [] o = "disconnect" -> <<"Disconnected">>
      [] o = "scan" -> <<"ScanDone">>
      [] o = "start_ap" -> <<"ApStarted", "ApStopped", "ParamsError">>
      [] o = "stop_ap" -> <<"ApStopped">>

\* How the manager may end what it was asked (external).  A station that was
\* associated may lose its address or its network at any later time.
Outcomes(o) ==
    CASE o \in Joins ->
           {<< >>, <<"ParamsError">>, <<"Disconnected">>, <<"Connected">>,
            <<"Connected", "Disconnected">>, <<"Connected", "GotIpTimeout">>,
            <<"Connected", "GotIp">>, <<"Connected", "GotIp", "LostIp">>,
            <<"Connected", "GotIp", "Disconnected">>}
      [] o = "disconnect" -> {<< >>, <<"Disconnected">>}
      [] o = "scan" -> {<< >>, <<"ScanDone">>}
      [] o = "start_ap" -> {<< >>, <<"ApStarted">>, <<"ApStopped">>,
                             <<"ParamsError">>, <<"ApStarted", "ApStopped">>}
      [] o = "stop_ap" -> {<< >>, <<"ApStopped">>}

VARIABLES
    LATCH,      \* the codes seen and not taken
    pending,    \* what the manager is still to post: <<event, of this call>>
    hasAddr,    \* the station has an address: what current_sta looks at
    pc,         \* where the task is in its operation
    op,         \* the operation
    todo,       \* the events it is still to clear, or to look at in this pass
    stage,      \* which of its waits it is in
    waited,     \* how long that wait has lasted
    spent,      \* how long the operation has slept altogether
    result,     \* what the last operation returned
    addressed,  \* its soft-AP was given its address
    posted,     \* events of this call posted so far (history)
    seen        \* those posted when the present pass began (history)

manager == <<pending, hasAddr>>
history == <<posted, seen>>
vars == <<LATCH, manager, pc, op, todo, stage, waited, spent, result,
          addressed, history>>

Results == {"none", "ok", "rejected", "vendor", "invalid", "failed",
            "dhcp_timeout", "timeout"}

TypeOK ==
    /\ LATCH \subseteq Event
    /\ pending \in Seq(Event \X BOOLEAN) /\ Len(pending) <= MaxPending + 3
    /\ hasAddr \in BOOLEAN /\ addressed \in BOOLEAN
    /\ pc \in {"idle", "clear", "ask", "look", "address"}
    /\ op \in Ops /\ stage \in {1, 2}
    /\ todo \in Seq(Event) /\ Len(todo) <= 5
    /\ waited \in 0 .. Timeout /\ spent \in 0 .. 2 * Timeout
    /\ result \in Results
    /\ posted \subseteq Event /\ seen \subseteq posted

Init ==
    /\ LATCH = {} /\ pending = << >> /\ hasAddr = FALSE
    /\ pc = "idle" /\ op = "connect" /\ todo = << >> /\ stage = 1
    /\ waited = 0 /\ spent = 0 /\ result = "none" /\ addressed = FALSE
    /\ posted = {} /\ seen = {}

-----------------------------------------------------------------------------
(* The manager, and on_event                                               *)

Post ==
    /\ pending # << >>
    /\ LET e == Head(pending)[1]
           own == Head(pending)[2]
       IN  /\ LATCH' = LATCH \cup {e}
           /\ posted' = IF own THEN posted \cup {e} ELSE posted
           /\ hasAddr' = ((hasAddr \/ e = "GotIp") /\ e # "LostIp")
    /\ pending' = Tail(pending)
    /\ UNCHANGED <<pc, op, todo, stage, waited, spent, result, addressed, seen>>

-----------------------------------------------------------------------------
(* An operation                                                            *)

\* The application calls.  An argument the code refuses is reported before
\* anything is touched.
Call(o) ==
    /\ pc = "idle"
    /\ Settled => pending = << >>
    /\ Len(pending) <= MaxPending
    /\ op' = o /\ stage' = 1 /\ spent' = 0 /\ waited' = 0
    /\ addressed' = FALSE
    /\ posted' = {} /\ seen' = {}
    /\ pending' = [i \in 1 .. Len(pending) |-> <<pending[i][1], FALSE>>]
    /\ \/ pc' = "clear" /\ todo' = Cleared(o) /\ result' = "none"
       \/ /\ o \in Joins \cup {"start_ap"}
          /\ pc' = "idle" /\ todo' = << >> /\ result' = "rejected"
    /\ UNCHANGED <<LATCH, hasAddr>>

\* event::clear, one latch_take at a time.
Clear ==
    /\ pc = "clear" /\ todo # << >>
    /\ LATCH' = LATCH \ {Head(todo)}
    /\ todo' = Tail(todo)
    /\ UNCHANGED <<manager, pc, op, stage, waited, spent, result, addressed, history>>

ClearDone ==
    /\ pc = "clear" /\ todo = << >>
    /\ pc' = "ask"
    /\ UNCHANGED <<LATCH, manager, op, todo, stage, waited, spent, result,
                   addressed, history>>

\* event::wait begins, or begins another pass.
Pass(s) ==
    /\ pc' = "look" /\ stage' = s
    /\ todo' = Awaited(op, s)
    /\ seen' = posted

Return(r) == pc' = "idle" /\ result' = r /\ todo' = << >>

\* The vendor's call: refused, or taken up by the manager.
Ask ==
    /\ pc = "ask"
    /\ \/ /\ Return("vendor")
          /\ UNCHANGED <<pending, stage, seen>>
       \/ /\ \E outcome \in Outcomes(op) :
               pending' = pending \o [i \in DOMAIN outcome |-> <<outcome[i], TRUE>>]
          /\ Pass(1)
          /\ UNCHANGED result
    /\ hasAddr' = (hasAddr /\ op \notin Joins)
    /\ UNCHANGED <<LATCH, op, waited, spent, addressed, posted>>

\* What the event a wait has taken means to the operation.
Decide(e) ==
    CASE op \in Joins /\ stage = 1 /\ e = "Connected" ->
           IF op = "connect"
           THEN Pass(2) /\ waited' = 0 /\ UNCHANGED result
           ELSE Return("ok") /\ UNCHANGED <<stage, seen, waited>>
      [] e = "ParamsError" -> Return("invalid") /\ UNCHANGED <<stage, seen, waited>>
      [] op \in Joins /\ e = "GotIp" ->
           /\ Return(IF hasAddr THEN "ok" ELSE "dhcp_timeout")
           /\ UNCHANGED <<stage, seen, waited>>
      [] e = "GotIpTimeout" -> Return("dhcp_timeout") /\ UNCHANGED <<stage, seen, waited>>
      [] op = "start_ap" /\ e = "ApStarted" ->
           pc' = "address" /\ UNCHANGED <<todo, result, stage, seen, waited>>
      [] op \in {"disconnect", "scan", "stop_ap"} ->
           Return("ok") /\ UNCHANGED <<stage, seen, waited>>
      [] OTHER -> Return("failed") /\ UNCHANGED <<stage, seen, waited>>

\* A mutant: a look takes every event of the latch with the one it is after.
LookTakesAll ==
    /\ pc = "look" /\ todo # << >>
    /\ LATCH' = IF Head(todo) \in LATCH THEN {} ELSE LATCH
    /\ IF Head(todo) \in LATCH
       THEN Decide(Head(todo))
       ELSE todo' = Tail(todo) /\ UNCHANGED <<pc, result, stage, seen, waited>>
    /\ UNCHANGED <<manager, op, spent, addressed, posted>>

\* latch_take of the next event of the list.
Look ==
    /\ pc = "look" /\ todo # << >>
    /\ LATCH' = LATCH \ {Head(todo)}
    /\ IF Head(todo) \in LATCH
       THEN Decide(Head(todo))
       ELSE todo' = Tail(todo) /\ UNCHANGED <<pc, result, stage, seen, waited>>
    /\ UNCHANGED <<manager, op, spent, addressed, posted>>

\* A mutant: the deadline is compared after the sleep has been counted.
SleepOncePast ==
    /\ pc = "look" /\ todo = << >> /\ waited <= Timeout
    /\ waited' = waited + 1 /\ spent' = spent + 1
    /\ Pass(stage)
    /\ UNCHANGED <<LATCH, manager, op, result, addressed, posted>>

\* A mutant: the sleeps are not counted.
SleepForever ==
    /\ pc = "look" /\ todo = << >> /\ waited < Timeout
    /\ Pass(stage)
    /\ UNCHANGED <<LATCH, manager, op, waited, spent, result, addressed, posted>>

\* None was there: the next pass, after a sleep.
SleepOn ==
    /\ pc = "look" /\ todo = << >> /\ waited < Timeout
    /\ waited' = waited + 1 /\ spent' = spent + 1
    /\ Pass(stage)
    /\ UNCHANGED <<LATCH, manager, op, result, addressed, posted>>

\* Nor in the last pass; disconnect and stop_ap do not mind.
GiveUp ==
    /\ pc = "look" /\ todo = << >> /\ waited >= Timeout
    /\ Return(IF op \in {"disconnect", "stop_ap"} THEN "ok" ELSE "timeout")
    /\ UNCHANGED <<LATCH, manager, op, stage, waited, spent, addressed, history>>

\* start_ap asserts the address it was configured with, which may fail.
AssertAddress ==
    /\ pc = "address"
    /\ \/ addressed' = TRUE /\ Return("ok")
       \/ addressed' = FALSE /\ Return("vendor")
    /\ UNCHANGED <<LATCH, manager, op, stage, waited, spent, history>>

OpStep == Clear \/ ClearDone \/ Ask \/ Look \/ SleepOn \/ GiveUp \/ AssertAddress

Next == Post \/ (\E o \in Ops : Call(o)) \/ OpStep

Spec == Init /\ [][Next]_vars

\* The application's task is scheduled; of the manager nothing is assumed.
FairSpec == Spec /\ WF_vars(OpStep)

-----------------------------------------------------------------------------

\* An outcome an operation reports is that of this very call: the events it
\* stands on were posted for it, not left in the latch by a call before.
OutcomeIsOwn ==
    /\ result = "failed" =>
         (IF op \in Joins THEN "Disconnected" ELSE "ApStopped") \in posted
    /\ result = "invalid" => "ParamsError" \in posted
    /\ result = "dhcp_timeout" => {"GotIpTimeout", "LostIp"} \cap posted # {}
    /\ result = "ok" =>
         /\ op \in Joins => "Connected" \in posted
         /\ op = "connect" => "GotIp" \in posted
         /\ op = "scan" => "ScanDone" \in posted
         /\ op = "start_ap" => "ApStarted" \in posted /\ addressed

\* An operation that reports a timeout missed nothing: no event of its call
\* that its last wait was for had been posted when its last pass began.
TimeoutMissedNothing ==
    result = "timeout" => seen \cap Range(Awaited(op, stage)) = {}

\* Every operation returns, whatever the manager does or fails to do.
OperationsReturn == pc # "idle" ~> pc = "idle"

\* What an operation returns is true: its outcome is its own, and a timeout
\* says that nothing came.
OutcomesTrue == TypeOK /\ OutcomeIsOwn /\ TimeoutMissedNothing
=============================================================================
