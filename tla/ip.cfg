\* An access point, or a station, with one task that asks and with two, and the
\* registration of both interfaces.
CONSTANTS
  mgmr = mgmr
  wpa = wpa
  Tasks = {mgmr, wpa}
  Programs <- AllPrograms
  Station = Station
  SoftAp = SoftAp
  Spare = Spare
  Static = Static
  Leased = Leased
  Null = Null
SPECIFICATION ProgressSpec
INVARIANTS InterfacesSound ServerAnswerIsOwn
PROPERTIES AddressApplied ServerUpUndisturbed GotIpPosted CallsReturn
