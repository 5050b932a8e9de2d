CONSTANTS
    Threads = {t1, t2, t3}
    Nobody = Nobody
    Jobs = {"share", "admit", "complete", "recover"}
    Requests = {r1, r2, r3}
    Latencies = {0, 1}
SPECIFICATION ServerSpec
SYMMETRY MCSymmetry
INVARIANTS
    OnlySnapshotsBlock
    MetricsExact
CHECK_DEADLOCK FALSE
