SPECIFICATION BringupSpec
CONSTANTS
    Callers = {t1, t2}
    Timeout = 2
    RfResults = {"ok"}
    Firmware = {"boots"}
PROPERTY TimeoutMeansDown
