------------------------------ MODULE Bringup ------------------------------
(***************************************************************************)
(* Bringing the radio up: runtime.rs's radio_task calibrates the PHY,      *)
(* registers the event filter and starts the firmware; the firmware posts  *)
(* InitDone and, once the manager it starts is running, MgmrDone; the      *)
(* application's tasks meet it in Wifi::init_with_timeout (lib.rs).        *)
(*                                                                         *)
(* The firmware and the vendor's event bus are external: they post each    *)
(* of the two events once, in that order, or stop for good on a radio that *)
(* does not come up (Firmware \cap {"dead"}).  A sleep of delay_ms is one  *)
(* unit of a task's clock, and a timeout is Timeout such units.            *)
(***************************************************************************)
EXTENDS Naturals

CONSTANTS
    Callers,     \* the application's tasks
    Timeout,     \* timeout_ms, in sleeps of POLL_MS
    RfResults,   \* what rfparam_init may return: {"ok"}, or with "bad"
    Firmware     \* what the firmware may do: {"boots"}, or with "dead"

ASSUME BringupAssumption ==
    /\ Callers # {} /\ Timeout \in Nat
    /\ RfResults \subseteq {"ok", "bad"} /\ RfResults # {}
    /\ Firmware \subseteq {"boots", "dead"} /\ Firmware # {}

VARIABLES
    rfStatus,      \* RF_STATUS, "none" standing for i32::MIN
    radio,         \* where radio_task is
    registered,    \* the event filter is installed
    firmware,      \* what the firmware and its manager have reached
    LATCH,         \* the events recorded and not yet taken
    INITIALISED,   \* the flag of lib.rs
    pc,            \* where each task is in init_with_timeout
    waited,        \* how long its present wait has lasted
    spent,         \* how long its call has slept altogether
    result         \* what its last call returned

bringupVars ==
    <<rfStatus, radio, registered, firmware, LATCH, INITIALISED, pc, waited, spent, result>>

world == <<rfStatus, radio, registered, firmware>>

Results == {"none", "handle", "already", "rf_init", "timeout"}

BringupTypeOK ==
    /\ rfStatus \in {"none", "ok", "bad"}
    /\ radio \in {"calibrate", "register", "create", "deleted"}
    /\ registered \in BOOLEAN
    /\ firmware \in {"off", "booting", "dead", "init", "managed"}
    /\ LATCH \subseteq {"InitDone", "MgmrDone"}
    /\ INITIALISED \in BOOLEAN
    /\ pc \in [Callers -> {"idle", "rf", "init", "mgmr", "claim"}]
    /\ waited \in [Callers -> 0 .. Timeout]
    /\ spent \in [Callers -> 0 .. 3 * Timeout]
    /\ result \in [Callers -> Results]

BringupInit ==
    /\ rfStatus = "none" /\ radio = "calibrate" /\ registered = FALSE
    /\ firmware = "off" /\ LATCH = {} /\ INITIALISED = FALSE
    /\ pc = [t \in Callers |-> "idle"]
    /\ waited = [t \in Callers |-> 0] /\ spent = [t \in Callers |-> 0]
    /\ result = [t \in Callers |-> "none"]

-----------------------------------------------------------------------------
(* radio_task                                                              *)

\* rfparam_init returns and its status is stored; a bad one ends the task.
Calibrate ==
    /\ radio = "calibrate"
    /\ rfStatus' \in RfResults
    /\ radio' = IF rfStatus' = "ok" THEN "register" ELSE "deleted"
    /\ UNCHANGED <<registered, firmware, LATCH, INITIALISED, pc, waited,
                   spent, result>>

\* event::register.
Register ==
    /\ radio = "register"
    /\ registered' = TRUE
    /\ radio' = "create"
    /\ UNCHANGED <<rfStatus, firmware, LATCH, INITIALISED, pc, waited, spent,
                   result>>

\* wifi_task_create and fhost_init: from here the firmware runs by itself.
CreateFirmware ==
    /\ radio = "create"
    /\ firmware' \in {IF f = "dead" THEN "dead" ELSE "booting" : f \in Firmware}
    /\ radio' = "deleted"
    /\ UNCHANGED <<rfStatus, registered, LATCH, INITIALISED, pc, waited,
                   spent, result>>

\* A mutant: the firmware is started first and the filter installed after.
CreateFirst ==
    /\ radio = "register"
    /\ firmware' \in {IF f = "dead" THEN "dead" ELSE "booting" : f \in Firmware}
    /\ radio' = "create"
    /\ UNCHANGED <<rfStatus, registered, LATCH, INITIALISED, pc, waited,
                   spent, result>>
RegisterLast ==
    /\ radio = "create"
    /\ registered' = TRUE
    /\ radio' = "deleted"
    /\ UNCHANGED <<rfStatus, firmware, LATCH, INITIALISED, pc, waited, spent,
                   result>>

RadioTaskCreateFirst == Calibrate \/ CreateFirst \/ RegisterLast

RadioTask == Calibrate \/ Register \/ CreateFirmware

-----------------------------------------------------------------------------
(* The firmware's events and on_event                                      *)

\* on_event: the filter latches the code, if it is installed.  For InitDone
\* it starts the manager from the callback itself.
Post(e) ==
    /\ LATCH' = IF registered THEN LATCH \cup {e} ELSE LATCH
    /\ UNCHANGED <<rfStatus, radio, registered, INITIALISED, pc, waited,
                   spent, result>>

OnInitDone ==
    /\ firmware = "booting"
    /\ firmware' = "init"
    /\ Post("InitDone")

OnMgmrDone ==
    /\ firmware = "init" /\ registered
    /\ firmware' = "managed"
    /\ Post("MgmrDone")

-----------------------------------------------------------------------------
(* Wifi::init_with_timeout                                                 *)

ReturnInit(t, r) ==
    /\ pc' = [pc EXCEPT ![t] = "idle"]
    /\ result' = [result EXCEPT ![t] = r]
    /\ waited' = [waited EXCEPT ![t] = 0]
    /\ UNCHANGED spent

Advance(t, where) ==
    /\ pc' = [pc EXCEPT ![t] = where]
    /\ waited' = [waited EXCEPT ![t] = 0]
    /\ UNCHANGED <<spent, result>>

Sleep(t) ==
    /\ waited' = [waited EXCEPT ![t] = @ + 1]
    /\ spent' = [spent EXCEPT ![t] = @ + 1]
    /\ UNCHANGED <<pc, result>>

\* A mutant: the handle is claimed when the call begins.
CallClaims(t) ==
    /\ pc[t] = "idle" /\ result[t] \notin {"handle", "already", "rf_init"}
    /\ IF INITIALISED
       THEN ReturnInit(t, "already")
       ELSE /\ pc' = [pc EXCEPT ![t] = "rf"]
            /\ spent' = [spent EXCEPT ![t] = 0]
            /\ result' = [result EXCEPT ![t] = "none"]
            /\ UNCHANGED waited
    /\ INITIALISED' = TRUE
    /\ UNCHANGED <<world, LATCH>>

\* A call by a task that holds no handle: INITIALISED is looked at first.
Call(t) ==
    /\ pc[t] = "idle" /\ result[t] \notin {"handle", "already", "rf_init"}
    /\ IF INITIALISED
       THEN ReturnInit(t, "already")
       ELSE /\ pc' = [pc EXCEPT ![t] = "rf"]
            /\ spent' = [spent EXCEPT ![t] = 0]
            /\ result' = [result EXCEPT ![t] = "none"]
            /\ UNCHANGED waited
    /\ UNCHANGED <<world, LATCH, INITIALISED>>

\* A mutant: the deadline is found to have passed one sleep too late.
PollRfPast(t) ==
    /\ pc[t] = "rf"
    /\ \/ rfStatus = "ok" /\ Advance(t, "init")
       \/ rfStatus = "bad" /\ ReturnInit(t, "rf_init")
       \/ rfStatus = "none" /\ waited[t] > Timeout /\ ReturnInit(t, "timeout")
       \/ rfStatus = "none" /\ waited[t] <= Timeout /\ Sleep(t)
    /\ UNCHANGED <<world, LATCH, INITIALISED>>

\* The loop over rf_status: a bad status is reported at once, none at all
\* is waited for.
PollRf(t) ==
    /\ pc[t] = "rf"
    /\ \/ rfStatus = "ok" /\ Advance(t, "init")
       \/ rfStatus = "bad" /\ ReturnInit(t, "rf_init")
       \/ rfStatus = "none" /\ waited[t] >= Timeout /\ ReturnInit(t, "timeout")
       \/ rfStatus = "none" /\ waited[t] < Timeout /\ Sleep(t)
    /\ UNCHANGED <<world, LATCH, INITIALISED>>

\* A mutant: a missing InitDone is a warning, as a missing MgmrDone is.
WaitInitWarns(t) ==
    /\ pc[t] = "init"
    /\ \/ "InitDone" \in LATCH /\ Advance(t, "mgmr")
       \/ "InitDone" \notin LATCH /\ waited[t] >= Timeout /\ Advance(t, "mgmr")
       \/ "InitDone" \notin LATCH /\ waited[t] < Timeout /\ Sleep(t)
    /\ LATCH' = LATCH \ {"InitDone"}
    /\ UNCHANGED <<world, INITIALISED>>

\* event::wait for InitDone: one look, which takes the event, then a sleep.
WaitInit(t) ==
    /\ pc[t] = "init"
    /\ \/ "InitDone" \in LATCH /\ Advance(t, "mgmr")
       \/ "InitDone" \notin LATCH /\ waited[t] >= Timeout /\ ReturnInit(t, "timeout")
       \/ "InitDone" \notin LATCH /\ waited[t] < Timeout /\ Sleep(t)
    /\ LATCH' = LATCH \ {"InitDone"}
    /\ UNCHANGED <<world, INITIALISED>>

\* event::wait for MgmrDone: a timeout here is a warning only.
WaitMgmr(t) ==
    /\ pc[t] = "mgmr"
    /\ \/ "MgmrDone" \in LATCH /\ Advance(t, "claim")
       \/ "MgmrDone" \notin LATCH /\ waited[t] >= Timeout /\ Advance(t, "claim")
       \/ "MgmrDone" \notin LATCH /\ waited[t] < Timeout /\ Sleep(t)
    /\ LATCH' = LATCH \ {"MgmrDone"}
    /\ UNCHANGED <<world, INITIALISED>>

\* INITIALISED.swap(true).
Claim(t) ==
    /\ pc[t] = "claim"
    /\ INITIALISED' = TRUE
    /\ ReturnInit(t, IF INITIALISED THEN "already" ELSE "handle")
    /\ UNCHANGED <<world, LATCH>>

InitStep(t) == PollRf(t) \/ WaitInit(t) \/ WaitMgmr(t) \/ Claim(t)

-----------------------------------------------------------------------------

\* Nothing is left to do once every task has its answer.
Settled ==
    /\ \A t \in Callers : result[t] \in {"handle", "already", "rf_init"}
    /\ firmware \in {"off", "dead", "managed"}
    /\ UNCHANGED bringupVars

BringupNext ==
    \/ RadioTask
    \/ OnInitDone
    \/ OnMgmrDone
    \/ \E t \in Callers : Call(t) \/ InitStep(t)
    \/ Settled

BringupSpec == BringupInit /\ [][BringupNext]_bringupVars

\* Every task of the system is scheduled, and a task that was told to retry
\* does.
FairSpec ==
    /\ BringupSpec
    /\ WF_bringupVars(RadioTask) /\ WF_bringupVars(OnInitDone) /\ WF_bringupVars(OnMgmrDone)
    /\ \A t \in Callers : WF_bringupVars(Call(t)) /\ WF_bringupVars(InitStep(t))

-----------------------------------------------------------------------------

Holds(t) == result[t] = "handle"

\* A handle is the proof that the firmware is up and its filter installed,
\* and there is one of it however many tasks ask and however often.
HandleMeansUp ==
    /\ INITIALISED <=> \E t \in Callers : Holds(t)
    /\ \A t, u \in Callers : Holds(t) /\ Holds(u) => t = u
    /\ INITIALISED => firmware \in {"init", "managed"} /\ registered

\* A timed-out call leaves nothing behind: on a radio that boots, however
\* many calls gave up before it had, the retries end with a handle.
RetryGetsHandle == (firmware = "booting") ~> (\E t \in Callers : Holds(t))

\* What init says of its timeout: that the firmware never came up.
TimeoutMeansDown ==
    [][\A t \in Callers : result[t] # "timeout" /\ result'[t] = "timeout"
                        => firmware \notin {"init", "managed"}]_bringupVars
=============================================================================
