SPECIFICATION Spec
CONSTANTS
    Threads = {t1, t2}
    Procs = {p1, p2}
    Idle = idle
    Bootstrap = bootstrap
    KProc = kproc
    NULL = null
    SCHED_MAX_THREADS = 2
    QUANTUM = 2
    UserCalls = {"yield", "exit", "fork", "waitpid", "write"}

INVARIANTS
    ReapIsSafe
