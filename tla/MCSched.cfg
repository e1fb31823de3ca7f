SPECIFICATION Spec
CONSTANTS
    Threads = {t1, t2, t3, t4}
    Procs = {p1, p2, p3, p4}
    Idle = idle
    Bootstrap = bootstrap
    KProc = kproc
    NULL = null
    SCHED_MAX_THREADS = 2
    QUANTUM = 2
    UserCalls = {"yield", "exit", "fork", "waitpid", "write"}
SYMMETRY Slots
INVARIANTS
    TypeOK
    QueueSound
    CpuSound
    ProcessBooks
    ZombieAwaitsBurial
PROPERTIES
    ReleasedIsOffCPU
