SPECIFICATION FairSpec
CONSTANTS
    Threads = {t1, t2, t3}
    Procs = {p1, p2, p3}
    Idle = idle
    Bootstrap = bootstrap
    KProc = kproc
    NULL = null
    SCHED_MAX_THREADS = 3
    QUANTUM = 2
    UserCalls = {"yield", "exit", "fork", "waitpid", "write"}

INVARIANTS
    NoThreadForgotten
PROPERTIES
    EveryThreadRuns
    ExitedIsReleased
