------------------------------- MODULE NetIfs -------------------------------
(* The interfaces of bl616-wifi (net_al/iface.rs): how the WiFi library    *)
(* registers them (net_if_add, net_al/mod.rs) and how a handle or an index *)
(* it names later is looked up.                                            *)
(*                                                                         *)
(* Slots are never given back.  One is claimed by an exchange on its used  *)
(* flag and filled in after; any number of tasks may be registering, and   *)
(* the first to have done so spawns the task that runs the IP stack.       *)
EXTENDS Integers

CONSTANTS
  Tasks,    \* tasks of the WiFi library
  Station,  \* interface slot 0, and the VIF it is meant for
  SoftAp,   \* interface slot 1, likewise
  Spare,    \* a VIF there is no slot for
  Static,   \* the address the library configures
  Leased,   \* the address the network's DHCP server gives out
  Null

Ifaces == {Station, SoftAp}
Vifs == Ifaces \cup {Spare}
Addrs == {Static, Leased}

ASSUME NetIfAssumption ==
  /\ Station # SoftAp /\ Spare \notin Ifaces
  /\ Null \notin Vifs \cup Addrs /\ Static # Leased

VARIABLES
  used,     \* the slots whose used flag is set
  vif,      \* the VIF a slot was filled in for: its vif_priv, its MAC address
  addr,     \* NetIf.ipaddr (netmask, gateway and DNS server go with it)
  spawned,  \* how many times poll_task was created; SPAWNED is whether it was
  running,  \* RUNNING, which poll_task sets once it is scheduled
  handle,   \* the handle net_if_add gave for each VIF
  tpc,      \* where each task is inside the call it made
  call,     \* what it called: <<operation, interface or VIF>>
  at        \* the slot its net_if_add looks at

registry == <<used, vif, spawned, handle, at>>
netifs == <<registry, addr>>

NetIfsInit ==
  /\ used = {} /\ vif = [i \in Ifaces |-> Null]
  /\ addr = [i \in Ifaces |-> Null]
  /\ spawned = 0 /\ handle = [v \in Vifs |-> Null]
  /\ tpc = [t \in Tasks |-> "idle"]
  /\ call = [t \in Tasks |-> Null]
  /\ at = [t \in Tasks |-> Station]

TaskGoto(t, label) == tpc' = [tpc EXCEPT ![t] = label]

\* validate: a handle is good once its slot is in use.
Valid(v) == handle[v] # Null /\ handle[v] \in used

\* by_index
Registered(i) == i \in used

\* What the lookups by handle return: net_if_get_mac_addr, net_if_vif_info.
InfoOf(h) == IF h \in used THEN vif[h] ELSE Null

\* net_if_find_from_name: a slot carries its name once it is filled in.
FoundByName(i) == IF i \in used /\ vif[i] # Null THEN i ELSE Null

\* designated: the first interface with an address, else the first one.
Designated ==
  IF \E i \in used : addr[i] # Null
  THEN IF Station \in used /\ addr[Station] # Null THEN Station ELSE SoftAp
  ELSE IF Station \in used THEN Station ELSE SoftAp

-----------------------------------------------------------------------------
(* net_if_add: iface::add, the out-parameter, stack::start.                *)

\* The slot is taken: on to the next.
AddTaken(t) ==
  /\ tpc[t] = "scan" /\ at[t] \in used
  /\ at' = [at EXCEPT ![t] = IF @ = Station THEN SoftAp ELSE Null]
  /\ UNCHANGED <<used, vif, spawned, handle, addr, tpc>>

\* There is none: the call fails.
AddRefused(t) ==
  /\ tpc[t] = "scan" /\ at[t] = Null
  /\ at' = [at EXCEPT ![t] = Station]
  /\ TaskGoto(t, "idle")
  /\ UNCHANGED <<used, vif, spawned, handle, addr>>

\* Mutant: the outcome of the exchange is not looked at.
AddClaimTaken(t) ==
  /\ tpc[t] = "scan" /\ at[t] # Null
  /\ used' = used \cup {at[t]}
  /\ TaskGoto(t, "fill")
  /\ UNCHANGED <<vif, spawned, handle, at, addr>>

AddClaim(t) ==
  /\ tpc[t] = "scan" /\ at[t] # Null /\ at[t] \notin used
  /\ used' = used \cup {at[t]}
  /\ TaskGoto(t, "fill")
  /\ UNCHANGED <<vif, spawned, handle, at, addr>>

AddFill(t) ==
  /\ tpc[t] = "fill"
  /\ vif' = [vif EXCEPT ![at[t]] = call[t][2]]
  /\ addr' = [addr EXCEPT ![at[t]] = Null]
  /\ TaskGoto(t, "return")
  /\ UNCHANGED <<used, spawned, handle, at>>

\* The interface is given the address it is to have, if any, and its handle is
\* handed out.
AddReturn(t) ==
  /\ tpc[t] = "return"
  /\ handle' = [handle EXCEPT ![call[t][2]] = at[t]]
  /\ addr' = IF call[t][1] = "if_add_static" THEN [addr EXCEPT ![at[t]] = Static] ELSE addr
  /\ at' = [at EXCEPT ![t] = Station]
  /\ TaskGoto(t, "spawn")
  /\ UNCHANGED <<used, vif, spawned>>

\* Mutant: the task is created unless it runs already.
SpawnUnlessRunning(t) ==
  /\ tpc[t] = "spawn"
  /\ spawned' = IF running THEN spawned ELSE spawned + 1
  /\ TaskGoto(t, "idle")
  /\ UNCHANGED <<used, vif, handle, at, addr>>

\* start: only the first caller creates the task.
Spawn(t) ==
  /\ tpc[t] = "spawn"
  /\ spawned' = IF spawned = 0 THEN 1 ELSE spawned
  /\ TaskGoto(t, "idle")
  /\ UNCHANGED <<used, vif, handle, at, addr>>

AddStep(t) == AddTaken(t) \/ AddRefused(t) \/ AddClaim(t) \/ AddFill(t) \/ AddReturn(t)

-----------------------------------------------------------------------------
(* Properties.                                                             *)

\* A handle that net_if_add gave out is good for ever: it leads to the MAC
\* address and the private pointer of the interface it was given for, and that
\* slot's name leads back to it, whichever tasks register at once.
HandlesOwn ==
  \A v \in Vifs :
    LET h == handle[v] IN
    h # Null => Valid(v) /\ InfoOf(h) = v /\ FoundByName(h) = h

\* The library registers the station and the soft-AP in quick succession, and
\* still one task runs the stack: two would drive the same interface.
OnePollTask == spawned <= 1
=============================================================================
