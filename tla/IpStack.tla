------------------------------ MODULE IpStack -------------------------------
(* The IP stack task of bl616-wifi (net_al/stack.rs) and the net_al entry  *)
(* points the WiFi library calls to configure addressing (net_al/mod.rs).  *)
(*                                                                         *)
(* One task, poll_task, owns the stack.  The library's tasks talk to it    *)
(* through single words: COMMAND (a mailbox of one), RESULT (its answer),  *)
(* TARGET_IF, DHCPD_POOL and the address fields of the interfaces.  An     *)
(* access to one of those words is a step of its own, unless it commutes   *)
(* with whatever a task could do between it and the one before.            *)
EXTENDS NetIfs, Sequences

CONSTANT
  Programs   \* what the tasks may call: each a sequence of calls for every task

\* The entry points that matter here.  if_add_static is net_if_add with an address.
\* set_static and set_none are two uses of net_al_ext_set_vif_ip; its third, a DHCP
\* client, is dhcp_connect.
Operations ==
  {"if_add", "if_add_static", "dhcp_connect", "dhcp_disconnect", "dhcpd_start", "dhcpd_stop",
   "set_static", "set_none"}

ASSUME IpAssumption ==
  /\ Programs \subseteq [Tasks -> Seq(Operations \X Vifs)]
  /\ Null \notin BOOLEAN

VARIABLES
  command,  \* COMMAND
  result,   \* RESULT; RESULT_FAILED is never stored
  target,   \* TARGET_IF
  stack,    \* the Stack that poll_task owns, Null before it is bound
  ppc,      \* where poll_task is
  todo,     \* the calls each task has still to make
  owner,    \* the task whose request the mailbox held last (history)
  executed, \* tasks whose request poll_task has carried out (history)
  returned, \* what each task's last request returned (history)
  awaiting, \* the station was told to get an address, no GOT_IP since (history)
  serving,  \* a DHCP server was asked for and not stopped since (history)
  slipped,  \* a library task has run between the poll task's reading TARGET_IF
            \* and its swapping COMMAND (history)
  given,    \* the address each interface was given last, by its registration, a
            \* call or a lease (history)
  overtaken \* a task has stored an address between the poll task's loading one
            \* and its writing that back (history)

mailbox == <<command, result, owner>>
tasks == <<tpc, call, todo, returned, serving>>
history == <<slipped, given, overtaken>>
ipVars == <<mailbox, target, running, netifs, stack, ppc, tasks, executed, awaiting, history>>

\* The DHCP client's socket: no socket, an event waiting to be polled
\* (Deconfigured, as a new socket has, or Configured), or none.
ClientStates == {"off", "deconfigured", "configured", "quiet"}

Stacks ==
  [iface : Ifaces, bound : Addrs \cup {Null}, applied : Addrs \cup {Null},
   client : ClientStates, wanted : BOOLEAN, dhcpd : BOOLEAN]

IpInit ==
  /\ command = "None" /\ result = "pending" /\ owner = Null
  /\ target = Null /\ running = FALSE
  /\ NetIfsInit
  /\ stack = Null /\ ppc = "start"
  /\ todo \in Programs
  /\ executed = {} /\ returned = [t \in Tasks |-> Null]
  /\ awaiting = FALSE /\ serving = FALSE /\ slipped = FALSE
  /\ given = addr /\ overtaken = FALSE

-----------------------------------------------------------------------------
(* The entry points.                                                       *)

\* The request each operation posts, if it posts one.
CommandOf(op) ==
  CASE op = "dhcp_connect" -> "ClientStart"
    [] op = "dhcp_disconnect" -> "ClientStop"
    [] op = "dhcpd_start" -> "ServerStart"
    [] op = "dhcpd_stop" -> "ServerStop"

\* A call about an interface that is not registered fails at once, except that
\* dhcp_connect posts its request all the same.
Refused(op, i) ==
  \/ op = "dhcpd_start" /\ ~Valid(i)
  \/ op \in {"set_static", "set_none"} /\ ~Registered(i)

\* The others name their interface first, but for the two that stop something.
NamesTarget(op, i) ==
  op \in {"dhcpd_start", "set_static", "set_none"} \/ (op = "dhcp_connect" /\ Registered(i))

Call(t) ==
  LET op == Head(todo[t])[1]
      i == Head(todo[t])[2]
      goes == ~Refused(op, i) IN
  /\ tpc[t] = "idle" /\ todo[t] # << >>
  /\ todo' = [todo EXCEPT ![t] = Tail(@)]
  /\ call' = [call EXCEPT ![t] = Head(todo[t])]
  /\ target' = IF goes /\ NamesTarget(op, i)
               THEN IF op = "dhcpd_start" THEN handle[i] ELSE i ELSE target
  /\ executed' = executed \ {t}
  /\ returned' = [returned EXCEPT ![t] = Null]
  /\ serving' = CASE op = "dhcpd_start" -> goes \/ serving
                 [] op = "dhcpd_stop" -> FALSE
                 [] OTHER -> serving
  /\ awaiting' = (awaiting /\ op # "dhcp_disconnect")
  /\ TaskGoto(t, IF ~goes THEN "idle"
                 ELSE CASE op \in {"if_add", "if_add_static"} -> "scan"
                        [] op \in {"set_static", "set_none"} -> "address"
                        [] op = "dhcp_connect" -> "post"
                        [] OTHER -> "early")
  /\ UNCHANGED <<mailbox, running, netifs, stack, ppc>>

\* net_if_add
Add(t) ==
  /\ AddStep(t) \/ Spawn(t)
  /\ UNCHANGED <<mailbox, target, running, stack, ppc, call, todo, returned, serving, executed,
                 awaiting>>

\* net_al_ext_set_vif_ip: the address is stored; one that appears is announced.
SetAddress(t) ==
  LET op == call[t][1]
      i == call[t][2] IN
  /\ tpc[t] = "address"
  /\ addr' = [addr EXCEPT ![i] = IF op = "set_static" THEN Static ELSE Null]
  /\ awaiting' = (awaiting /\ op = "set_none")
  /\ TaskGoto(t, "idle")
  /\ UNCHANGED <<mailbox, target, running, registry, stack, ppc, call, todo, executed, returned,
                 serving>>

\* Mutant: the wait for the poll task to run has no bound.
RequestForever(t) ==
  /\ tpc[t] = "early" /\ FALSE
  /\ UNCHANGED ipVars

\* request: wait until the poll task runs, for 2 s at most.  (Once created it
\* runs long before that.)
RequestTooEarly(t) ==
  /\ tpc[t] = "early" /\ ~running /\ spawned = 0
  /\ TaskGoto(t, "idle")
  /\ returned' = [returned EXCEPT ![t] = FALSE]
  /\ UNCHANGED <<mailbox, target, running, netifs, stack, ppc, call, todo, serving, executed,
                 awaiting>>

RequestEarly(t) ==
  /\ tpc[t] = "early" /\ running
  /\ TaskGoto(t, "reset")
  /\ UNCHANGED <<mailbox, target, running, netifs, stack, ppc, call, todo, returned, serving, executed,
                 awaiting>>

RequestReset(t) ==
  /\ tpc[t] = "reset"
  /\ result' = "pending"
  /\ TaskGoto(t, "post")
  /\ UNCHANGED <<command, owner, target, running, netifs, stack, ppc, call, todo, returned, serving,
                 executed, awaiting>>

\* The store that posts the request.  start_dhcp_client_async is this store
\* alone, with no reset before it and no wait after it.
\* Mutant: a DHCP client is waited for as well, with the answer never reset.
PostUnreset(t) ==
  /\ tpc[t] \in {"reset", "post"}
  /\ command' = CommandOf(call[t][1]) /\ owner' = t
  /\ TaskGoto(t, IF call[t][1] = "dhcp_connect" THEN "idle" ELSE "wait")
  /\ awaiting' = (awaiting \/ call[t][1] = "dhcp_connect")
  /\ UNCHANGED <<result, target, running, netifs, stack, ppc, call, todo, returned, serving, executed>>

Post(t) ==
  /\ tpc[t] = "post"
  /\ command' = CommandOf(call[t][1]) /\ owner' = t
  /\ TaskGoto(t, IF call[t][1] = "dhcp_connect" THEN "idle" ELSE "wait")
  /\ awaiting' = (awaiting \/ call[t][1] = "dhcp_connect")
  /\ UNCHANGED <<result, target, running, netifs, stack, ppc, call, todo, returned, serving, executed>>

RequestAnswered(t) ==
  /\ tpc[t] = "wait" /\ result = "ok"
  /\ TaskGoto(t, "idle")
  /\ returned' = [returned EXCEPT ![t] = TRUE]
  /\ UNCHANGED <<mailbox, target, running, netifs, stack, ppc, call, todo, serving, executed, awaiting>>

\* Mutant: the wait for the answer has no bound.
RequestUntilAnswered(t) ==
  /\ tpc[t] = "wait" /\ FALSE
  /\ UNCHANGED ipVars

\* The shortest timeout is 2 s and the poll task looks every few milliseconds:
\* a request gives up only when its command is gone and no answer is coming.
RequestTimeout(t) ==
  /\ tpc[t] = "wait" /\ result = "pending"
  /\ ~(command # "None" /\ owner = t) /\ ppc # "answer"
  /\ TaskGoto(t, "idle")
  /\ returned' = [returned EXCEPT ![t] = FALSE]
  /\ UNCHANGED <<mailbox, target, running, netifs, stack, ppc, call, todo, serving, executed, awaiting>>

-----------------------------------------------------------------------------
(* poll_task.                                                              *)

PollStart ==
  /\ ppc = "start" /\ spawned > 0
  /\ running' = TRUE /\ ppc' = "bind"
  /\ UNCHANGED <<mailbox, target, netifs, stack, tasks, executed, awaiting>>

NewStack(i) ==
  [iface |-> i, bound |-> Null, applied |-> Null,
   client |-> "off", wanted |-> FALSE, dhcpd |-> FALSE]

\* Mutant: the address is noted as applied and not handed to smoltcp.
SetAddrUnbound(s, a) == [s EXCEPT !.applied = a]

\* set_addr, but for its last stores, and the note of what was applied.
SetAddr(s, a) == [s EXCEPT !.bound = a, !.applied = a]

\* TARGET_IF is loaded.  A target other than the interface served drops the
\* stack, sockets and all.
PollBind ==
  /\ ppc = "bind"
  /\ IF stack = Null \/ (target # Null /\ stack.iface # target)
     THEN /\ stack' = NewStack(IF target # Null THEN target ELSE Designated)
          /\ ppc' = "adopt"
     ELSE ppc' = "command" /\ UNCHANGED stack
  /\ UNCHANGED <<mailbox, target, running, netifs, tasks, executed, awaiting>>

\* The address of the interface is loaded; if there is one, set_addr.
PollAdopt ==
  /\ ppc = "adopt"
  /\ IF addr[stack.iface] = Null THEN ppc' = "command" /\ UNCHANGED stack
     ELSE ppc' = "adopted" /\ stack' = SetAddr(stack, addr[stack.iface])
  /\ UNCHANGED <<mailbox, target, running, netifs, tasks, executed, awaiting>>

\* set_addr stores the address it was given in the interface, once more.
PollWriteBack ==
  /\ ppc \in {"adopted", "synced"}
  /\ addr' = [addr EXCEPT ![stack.iface] = stack.applied]
  /\ ppc' = IF ppc = "adopted" THEN "command" ELSE "serve"
  /\ UNCHANGED <<mailbox, target, running, registry, stack, tasks, executed, awaiting>>

StartClient ==
  IF stack.client # "off" THEN stack
  ELSE [stack EXCEPT !.bound = Null, !.client = "deconfigured"]

\* start_dhcpd_if_ready
ServerIfReady(s) ==
  IF s.wanted /\ addr[s.iface] # Null THEN [s EXCEPT !.dhcpd = TRUE] ELSE s

\* COMMAND is swapped for None and carried out.
PollCommand ==
  /\ ppc = "command"
  /\ command' = "None"
  /\ executed' = IF command # "None" THEN executed \cup {owner} ELSE executed
  /\ stack' = CASE command = "ClientStart" -> StartClient
                [] command = "ClientStop" -> [stack EXCEPT !.client = "off"]
                [] command = "ServerStart" -> ServerIfReady([stack EXCEPT !.wanted = TRUE])
                [] command = "ServerStop" -> [stack EXCEPT !.wanted = FALSE, !.dhcpd = FALSE]
                [] OTHER -> stack
  /\ ppc' = IF command \in {"ClientStop", "ServerStart", "ServerStop"} THEN "answer" ELSE "poll"
  /\ UNCHANGED <<result, owner, target, running, netifs, tasks, awaiting>>

\* Mutant: a server that cannot start yet is reported as a failure.
PollAnswerFailed ==
  /\ ppc = "answer"
  /\ result' = IF stack.wanted /\ ~stack.dhcpd THEN "failed" ELSE "ok"
  /\ ppc' = "poll"
  /\ UNCHANGED <<command, owner, target, running, netifs, stack, tasks, executed, awaiting>>

PollAnswer ==
  /\ ppc = "answer"
  /\ result' = "ok" /\ ppc' = "poll"
  /\ UNCHANGED <<command, owner, target, running, netifs, stack, tasks, executed, awaiting>>

\* Stack::poll: sync_addr loads the address, and if it is another than the one
\* applied it is taken over.
PollSync ==
  LET want == addr[stack.iface] IN
  /\ ppc = "poll"
  /\ CASE want = Null -> ppc' = "serve" /\ UNCHANGED stack
       [] want = stack.applied -> ppc' = "compare" /\ UNCHANGED stack
       [] OTHER -> ppc' = "synced" /\ stack' = SetAddr(stack, want)
  /\ UNCHANGED <<mailbox, target, running, netifs, tasks, executed, awaiting>>

\* The netmask and the gateway are loaded after the address: if a task stored
\* others meanwhile, the address applied is set anew, with those.
PollCompare ==
  /\ ppc = "compare"
  /\ \/ ppc' = "serve" /\ UNCHANGED stack
     \/ /\ addr[stack.iface] # stack.applied
        /\ ppc' = "synced" /\ stack' = SetAddr(stack, stack.applied)
  /\ UNCHANGED <<mailbox, target, running, netifs, tasks, executed, awaiting>>

\* Driving the sockets, smoltcp may find that the client's lease came or ended.
\* Mutant: a server asked for before the interface has an address is forgotten.
PollNetOnce(lease) ==
  /\ ppc = "serve"
  /\ lease \in (IF stack.client = "off" THEN {"off"} ELSE {stack.client, "configured", "deconfigured"})
  /\ stack' = [stack EXCEPT !.client = lease]
  /\ ppc' = "client"
  /\ UNCHANGED <<mailbox, target, running, netifs, tasks, executed, awaiting>>

PollNet(lease) ==
  /\ ppc = "serve"
  /\ lease \in (IF stack.client = "off" THEN {"off"} ELSE {stack.client, "configured", "deconfigured"})
  /\ stack' = [ServerIfReady(stack) EXCEPT !.client = lease]
  /\ ppc' = "client"
  /\ UNCHANGED <<mailbox, target, running, netifs, tasks, executed, awaiting>>

\* The client is looked at only while an answer is pending.
PollClientSkip ==
  /\ ppc = "client" /\ (stack.client = "off" \/ result # "pending")
  /\ ppc' = "bind"
  /\ UNCHANGED <<mailbox, target, running, netifs, stack, tasks, executed, awaiting>>

\* Configured: the lease is applied and GOT_IP posted.
\* Mutant: the event is consumed and the application not told.
PollClientSilent ==
  /\ ppc = "client" /\ stack.client = "configured" /\ result = "pending"
  /\ stack' = [stack EXCEPT !.client = "quiet", !.bound = Leased, !.applied = Leased]
  /\ addr' = [addr EXCEPT ![stack.iface] = Leased]
  /\ ppc' = "answer client"
  /\ UNCHANGED <<mailbox, target, running, registry, tasks, executed, awaiting>>

PollClientConfigured ==
  /\ ppc = "client" /\ stack.client = "configured" /\ result = "pending"
  /\ stack' = [stack EXCEPT !.client = "quiet", !.bound = Leased, !.applied = Leased]
  /\ addr' = [addr EXCEPT ![stack.iface] = Leased]
  /\ awaiting' = FALSE
  /\ ppc' = "answer client"
  /\ UNCHANGED <<mailbox, target, running, registry, tasks, executed>>

\* Deconfigured: the address goes (LOST_IP is posted if there was one).
PollClientDeconfigured ==
  /\ ppc = "client" /\ stack.client = "deconfigured" /\ result = "pending"
  /\ stack' = [stack EXCEPT !.client = "quiet", !.bound = Null]
  /\ addr' = [addr EXCEPT ![stack.iface] = Null]
  /\ ppc' = "bind"
  /\ UNCHANGED <<mailbox, target, running, registry, tasks, executed, awaiting>>

\* No event: an address the interface already has counts as a lease.
PollClientQuiet ==
  /\ ppc = "client" /\ stack.client = "quiet" /\ result = "pending"
  /\ ppc' = IF addr[stack.iface] # Null THEN "answer client" ELSE "bind"
  /\ UNCHANGED <<mailbox, target, running, netifs, stack, tasks, executed, awaiting>>

PollAnswerClient ==
  /\ ppc = "answer client"
  /\ result' = "ok" /\ ppc' = "bind"
  /\ UNCHANGED <<command, owner, target, running, netifs, stack, tasks, executed, awaiting>>

-----------------------------------------------------------------------------

TaskStep(t) ==
  \/ Add(t) \/ SetAddress(t) \/ RequestTooEarly(t) \/ RequestEarly(t) \/ RequestReset(t) \/ Post(t)
  \/ RequestAnswered(t) \/ RequestTimeout(t)

PollStep ==
  \/ PollStart \/ PollBind \/ PollAdopt \/ PollWriteBack \/ PollCommand \/ PollAnswer
  \/ PollSync \/ PollCompare
  \/ \E lease \in ClientStates : PollNet(lease)
  \/ PollClientSkip \/ PollClientConfigured \/ PollClientDeconfigured
  \/ PollClientQuiet \/ PollAnswerClient

\* What was stored in an interface's address is what it was given.
Gives == given' = [i \in Ifaces |-> IF addr'[i] # addr[i] THEN addr'[i] ELSE given[i]]

\* The library's tasks have the higher priorities and may run anywhere.
Slips ==
  /\ slipped' = (slipped \/ ppc \in {"adopt", "adopted", "command"})
  /\ overtaken' = (overtaken \/ (ppc \in {"adopted", "compare", "synced"} /\ addr' # addr))
  /\ Gives

\* Of the poll task's stores only a lease's, or its end's, gives an address.
Polls ==
  /\ PollStep
  /\ UNCHANGED <<slipped, overtaken>>
  /\ IF ppc = "client" THEN Gives ELSE UNCHANGED given

IpNext ==
  \/ \E t \in Tasks : (Call(t) \/ TaskStep(t)) /\ Slips
  \/ Polls

IpSpec == IpInit /\ [][IpNext]_ipVars

\* The poll task is never blocked, and every call that was made runs on (the
\* library's tasks have the higher priorities).
ProgressSpec ==
  /\ IpSpec
  /\ WF_ipVars(Polls)
  /\ \A t \in Tasks : SF_ipVars(TaskStep(t) /\ Slips)

-----------------------------------------------------------------------------
(* Properties.                                                             *)

\* Every variable keeps its type.
IpTypeOK ==
  /\ command \in {"None", "ClientStart", "ClientStop", "ServerStart", "ServerStop"}
  /\ result \in {"pending", "ok"}
  /\ owner \in Tasks \cup {Null}
  /\ target \in Ifaces \cup {Null}
  /\ running \in BOOLEAN
  /\ addr \in [Ifaces -> Addrs \cup {Null}]
  /\ used \subseteq Ifaces /\ vif \in [Ifaces -> Vifs \cup {Null}]
  /\ handle \in [Vifs -> Ifaces \cup {Null}] /\ at \in [Tasks -> Ifaces \cup {Null}]
  /\ spawned \in Nat
  /\ stack = Null \/ stack \in Stacks
  /\ ppc \in {"start", "bind", "adopt", "adopted", "command", "answer", "poll", "compare",
              "synced", "serve", "client", "answer client"}
  /\ tpc \in [Tasks -> {"idle", "scan", "fill", "return", "spawn", "address", "early", "reset",
                        "post", "wait"}]
  /\ todo \in [Tasks -> Seq(Operations \X Vifs)]
  /\ executed \subseteq Tasks
  /\ returned \in [Tasks -> BOOLEAN \cup {Null}]
  /\ awaiting \in BOOLEAN /\ serving \in BOOLEAN
  /\ slipped \in BOOLEAN /\ overtaken \in BOOLEAN /\ given \in [Ifaces -> Addrs \cup {Null}]

\* A request returns true only when the poll task has carried out that request,
\* not because RESULT still or already holds the answer to something else.
AnswerIsOwn == \A t \in Tasks : returned[t] = TRUE => t \in executed

\* So it is for the DHCP server's requests.  (A call that stops a DHCP client
\* may take the answer posted for the client's lease, see AnswerIsOwn.)
ServerAnswerIsOwn ==
  \A t \in Tasks :
    returned[t] = TRUE /\ call[t][1] \in {"dhcpd_start", "dhcpd_stop"} => t \in executed

\* Every call returns: a task of the library is never held for good, not even
\* when it asks before the poll task runs, or when another call takes the mailbox
\* before the poll task has looked, or resets the answer before it is read.
CallsReturn == \A t \in Tasks : tpc[t] # "idle" ~> tpc[t] = "idle"

ServerRuns == stack # Null /\ stack.iface = SoftAp /\ stack.dhcpd

\* A DHCP server that was asked for and not stopped runs on the soft-AP as soon
\* as the soft-AP has an address.
ServerUp ==
  (serving /\ addr[SoftAp] # Null) ~> (~serving \/ addr[SoftAp] = Null \/ ServerRuns)

\* It does unless a call fell between the poll task's two looks.
ServerUpUndisturbed ==
  (serving /\ addr[SoftAp] # Null /\ ~slipped)
    ~> (~serving \/ addr[SoftAp] = Null \/ ServerRuns \/ slipped)

\* A DHCP client that keeps asking is in the end given an address (the network).
LeaseComes == SF_ipVars(Polls /\ PollNet("configured"))

\* Only one of the tasks posts requests.
OneAsks == \E t \in Tasks : [](owner \in {t, Null})

\* A station told to get an address reports one (GOT_IP), unless it is told to
\* stop: dhcp_connect does not wait and its caller relies on the event.  That
\* goes for a request made before the interfaces were registered, too.
GotIp == LeaseComes => ((awaiting /\ spawned > 0) ~> ~awaiting)

\* It does as long as one task does all the asking: another's request may take the
\* place of the client's in the mailbox, or leave its answer there.
GotIpPosted == OneAsks => GotIp

\* A lease that ends, or comes again, is folded into the interface: the DHCP
\* client's event does not stay unread.
LeaseFollowed ==
  (stack # Null /\ stack.client = "deconfigured") ~> (stack = Null \/ stack.client # "deconfigured")

\* The address an interface was given last, by its registration, a call or a
\* lease, is the one the stack answers to in the end, through every rebinding,
\* sync_addr and DHCP client.
AddressFollowed ==
  \A i \in Ifaces : \A a \in Addrs \cup {Null} :
    <>[](given[i] = a /\ stack # Null /\ stack.iface = i) => <>[](stack # Null /\ stack.bound = a)

\* It is unless a task stored it just when the poll task was about to write back
\* the address it had loaded before (set_addr).
AddressApplied == AddressFollowed \/ <>overtaken

\* Registration leaves handles that lead where they should and one task that
\* runs the stack, whatever is asked of it meanwhile.
InterfacesSound == IpTypeOK /\ HandlesOwn /\ OnePollTask
=============================================================================
