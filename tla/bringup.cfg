\* Two tasks, a radio and a firmware that may fail, and timeouts shorter than the boot.
SPECIFICATION FairSpec
CONSTANTS
    Callers = {t1, t2}
    Timeout = 2
    RfResults = {"ok", "bad"}
    Firmware = {"boots", "dead"}
INVARIANT HandleMeansUp
PROPERTY RetryGetsHandle
