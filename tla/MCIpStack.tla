----------------------------- MODULE MCIpStack ------------------------------
(* IpStack under the call patterns of an access point, of a station, and   *)
(* of both.                                                                *)
EXTENDS IpStack

CONSTANTS mgmr, wpa  \* the library's manager task and its supplicant task

Register(v) == <<"if_add", v>>
RegisterAt(v) == <<"if_add_static", v>>
Start == <<"dhcpd_start", SoftAp>>
Stop == <<"dhcpd_stop", SoftAp>>
Address(i) == <<"set_static", i>>
NoAddress(i) == <<"set_none", i>>
Connect == <<"dhcp_connect", Station>>
Disconnect == <<"dhcp_disconnect", Station>>

\* One program of the manager task beside one of the supplicant task.
Together(managers, supplicants) ==
  {[t \in Tasks |-> IF t = mgmr THEN p[1] ELSE p[2]] : p \in managers \X supplicants}

\* The manager task registers the station and the soft-AP before all else, without
\* addresses.
Pairs(managers, supplicants) ==
  Together({<<Register(Station), Register(SoftAp)>> \o p : p \in managers}, supplicants)

\* An access point, registered with its address, or addressed before or after its
\* DHCP server is asked for, stopped and started again.
ApPrograms ==
  Together({<<Register(Station), RegisterAt(SoftAp), Start, Stop, Start>>}, {<< >>})
  \cup
  Pairs({<<Start, Address(SoftAp)>>,
         <<Address(SoftAp), Start, Stop, Start>>,
         <<Start, Address(SoftAp), Stop, Start, Stop>>,
         <<Start, Stop, Address(SoftAp), Start>>},
        {<< >>})

\* A station that joins a network, and may leave it.
StationPrograms ==
  Together({<<RegisterAt(Station), Register(SoftAp)>>}, {<<Connect>>})
  \cup
  Pairs({<< >>, <<Address(Station)>>},
        {<<Connect>>, <<Connect, Disconnect>>})

\* Two tasks that register interfaces at once, one more than there is room for,
\* and use them.
RegisterPrograms ==
  Together({<<Register(Station), Register(Spare)>>}, {<<Register(SoftAp), Start>>, <<Stop>>})

\* Both tasks have the station leave, or one has it join meanwhile: a request may be
\* overwritten before the poll task takes it, and an answer reset before it is read.
LeavePrograms ==
  Pairs({<<Disconnect>>}, {<<Disconnect, Disconnect>>, <<Connect, Disconnect>>})

\* The access point's and the station's, each by itself, and these.
AllPrograms == ApPrograms \cup StationPrograms \cup RegisterPrograms \cup LeavePrograms

\* A station that leaves and joins again.
ReconnectPrograms == Pairs({<< >>}, {<<Connect, Disconnect, Connect>>})

\* An access point beside a station that joins a network.
BothPrograms == Pairs({<<Start, Address(SoftAp)>>}, {<<Connect>>})

\* An address configured and taken away.
AddressPrograms == Pairs({<<Address(SoftAp), NoAddress(SoftAp)>>}, {<< >>})
=============================================================================
