CONSTANTS
    Threads = {t1, t2}
    Nobody = Nobody
    Jobs = {"share", "snapshot"}
SPECIFICATION Spec
INVARIANT
    NoWaitCycle
