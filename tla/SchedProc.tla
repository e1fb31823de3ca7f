------------------------------ MODULE SchedProc ------------------------------
(***************************************************************************)
(* Threads, processes and the round-robin scheduler of doccrOS:            *)
(* kernel/proc/{scheduler,thread,process}.c, the process system calls of   *)
(* kernel/arch/x86_64/user, the context switch and the timer tick.         *)
(*                                                                         *)
(* The kernel runs on one CPU.  System calls (SFMASK clears IF, vector 128 *)
(* is an interrupt gate) and interrupt handlers run with interrupts off,   *)
(* so each of them is ONE action.  Interrupts are on in user mode, in the  *)
(* idle loop and in fork_child_return.                                     *)
(*                                                                         *)
(* Objects of the kernel heap are SLOTS that are allocated, freed and      *)
(* reused.  A slot's fields keep their values after kfree, as the memory   *)
(* does.  The slot of a thread_t stands for its kernel stack too (both are *)
(* allocated and freed together), that of a proc_t for its address space.  *)
(***************************************************************************)
EXTENDS Integers, Sequences, FiniteSets

CONSTANTS
    Threads,            \* slots for the thread_t of user threads
    Procs,              \* slots for the proc_t of user processes
    Idle,               \* the idle thread, never freed
    Bootstrap,          \* the static thread_t standing for _start()
    KProc,              \* the "kernel" process, owner of Idle
    NULL,
    SCHED_MAX_THREADS,  \* capacity of the ready queue
    QUANTUM,            \* timer ticks between two preemptions
    UserCalls           \* the system calls user programs make

Calls == {"yield", "exit", "fork", "waitpid", "write"}

ASSUME SlotsAssumption ==
    /\ Idle \notin Threads /\ Bootstrap \notin Threads /\ Idle # Bootstrap
    /\ KProc \notin Procs
    /\ NULL \notin Threads \cup {Idle, Bootstrap} \cup Procs \cup {KProc}
ASSUME LimitsAssumption ==
    /\ SCHED_MAX_THREADS \in Nat \ {0}
    /\ QUANTUM \in Nat \ {0}
    /\ UserCalls \subseteq Calls

AllThreads == Threads \cup {Idle, Bootstrap}
AllProcs   == Procs \cup {KProc}

VARIABLES
    boot,           \* where _start() has got to
    enabled,        \* scheduler: may it switch at all
    ticks,          \* scheduler: ticks % QUANTUM
    ready_q,        \* scheduler: the ready queue, oldest first
    current,        \* scheduler: the thread on the CPU
    zombies,        \* scheduler: dead threads not yet destroyed
    tstate,         \* thread_t.state, "FREE" for a slot not allocated
    owner,          \* thread_t.owner
    ctx,            \* where a thread runs, or resumes when it is dispatched
    pstate,         \* proc_t.state; "FREE" a freed slot with its old contents,
                    \* "DATA" a slot whose memory last held something else
    head,           \* the list of live processes
    proc_zombies,   \* the list of exited processes
    threads,        \* proc_t.threads
    thread_count,   \* proc_t.thread_count
    alive_count,    \* proc_t.alive_count
    active_space,   \* the process whose page tables CR3 holds
    tss_rsp0,       \* the thread whose kernel stack an interrupt enters on
    syscall_kstack, \* the thread whose kernel stack SYSCALL enters on
    wild            \* the kernel ran on a stack or a pointer that is not its

schedVars == <<enabled, ticks, ready_q, current, zombies>>
thrVars   == <<tstate, owner, ctx>>
procVars  == <<pstate, head, proc_zombies, threads, thread_count, alive_count>>
cpuVars   == <<active_space, tss_rsp0, syscall_kstack, wild>>
vars      == <<boot, schedVars, thrVars, procVars, cpuVars>>

is_user(t) == t \in Threads

-----------------------------------------------------------------------------
(* Boot: Init is the state after process_init() and sched_init().          *)

Init ==
    /\ boot = "idle"
    /\ enabled = FALSE /\ ticks = 0 /\ ready_q = << >>
    /\ current = Bootstrap /\ zombies = {}
    /\ tstate = [t \in AllThreads |-> IF t = Bootstrap THEN "RUNNING" ELSE "FREE"]
    /\ owner = [t \in AllThreads |-> NULL]
    /\ ctx = [t \in AllThreads |-> "kernel"]
    /\ pstate = [p \in AllProcs |-> "FREE"]
    /\ head = {} /\ proc_zombies = {}
    /\ threads = [p \in AllProcs |-> {}]
    /\ thread_count = [p \in AllProcs |-> 0]
    /\ alive_count = [p \in AllProcs |-> 0]
    /\ active_space = KProc
    /\ tss_rsp0 = NULL /\ syscall_kstack = NULL
    /\ wild = FALSE

\* Faults: a capacity off by one; last in, first out.
q_push_short(q, t) == IF Len(q) >= SCHED_MAX_THREADS - 1 THEN q ELSE Append(q, t)
q_push_front(q, t) == IF Len(q) >= SCHED_MAX_THREADS THEN q ELSE << t >> \o q

\* q_push: a thread that finds the queue full is dropped without a word.
q_push(q, t) == IF Len(q) >= SCHED_MAX_THREADS THEN q ELSE Append(q, t)

\* Fault: nothing is removed.
sched_remove_none(q, t) == q

\* sched_remove: the first occurrence of t goes, the ones behind it move up.
sched_remove(q, t) ==
    LET at == {i \in 1 .. Len(q) : q[i] = t}
        i  == CHOOSE k \in at : \A m \in at : k <= m
    IN  IF at = {} THEN q ELSE SubSeq(q, 1, i - 1) \o SubSeq(q, i + 1, Len(q))

\* proc_alloc: a zeroed proc_t at the head of the process list.
proc_alloc(p) ==
    /\ pstate[p] \in {"FREE", "DATA"}
    /\ pstate' = [pstate EXCEPT ![p] = "ALIVE"]
    /\ head' = head \cup {p}

\* What thread_create, thread_create_user and process_fork do to the new
\* thread t of p: link it to its process and hand it to the scheduler.
thread_link(t, p, resume) ==
    /\ tstate[t] = "FREE"
    /\ owner' = [owner EXCEPT ![t] = p]
    /\ ctx' = [ctx EXCEPT ![t] = resume]

\* process_create("kernel"), thread_create(idle), sched_set_idle(idle).
boot_idle ==
    /\ boot = "idle" /\ boot' = "load"
    /\ proc_alloc(KProc)
    /\ thread_link(Idle, KProc, "kernel")
    /\ threads' = [threads EXCEPT ![KProc] = {Idle}]
    /\ thread_count' = [thread_count EXCEPT ![KProc] = 1]
    /\ alive_count' = [alive_count EXCEPT ![KProc] = 1]
    /\ tstate' = [tstate EXCEPT ![Idle] = "READY"]
    /\ ready_q' = sched_remove(q_push(ready_q, Idle), Idle)
    /\ UNCHANGED <<enabled, ticks, current, zombies, proc_zombies, cpuVars>>

\* user_start: no binary to load, or elf_load gives up before it has a process.
user_skip ==
    /\ boot = "load" /\ boot' = "start"
    /\ UNCHANGED <<schedVars, thrVars, procVars, cpuVars>>

\* elf_load: process_create_user makes the process of init.
elf_create(p) ==
    /\ boot = "load" /\ boot' = "segments"
    /\ proc_alloc(p)
    /\ threads' = [threads EXCEPT ![p] = {}]
    /\ thread_count' = [thread_count EXCEPT ![p] = 0]
    /\ alive_count' = [alive_count EXCEPT ![p] = 0]
    /\ UNCHANGED <<schedVars, thrVars, proc_zombies, cpuVars>>

\* elf_load: a segment, the stack or the thread fails, process_destroy(p).
process_destroy(p) ==
    /\ boot = "segments" /\ boot' = "start"
    /\ p \in head \ {KProc}
    /\ head' = head \ {p}
    /\ pstate' = [pstate EXCEPT ![p] = "FREE"]
    /\ UNCHANGED <<schedVars, thrVars, proc_zombies, threads, thread_count,
                   alive_count, cpuVars>>

\* elf_load: the segments are mapped, thread_create_user queues the thread.
thread_create_user(t, p) ==
    /\ boot = "segments" /\ boot' = "start"
    /\ p \in head \ {KProc}
    /\ thread_link(t, p, "user")
    /\ threads' = [threads EXCEPT ![p] = @ \cup {t}]
    /\ thread_count' = [thread_count EXCEPT ![p] = @ + 1]
    /\ alive_count' = [alive_count EXCEPT ![p] = @ + 1]
    /\ tstate' = [tstate EXCEPT ![t] = "READY"]
    /\ ready_q' = q_push(ready_q, t)
    /\ UNCHANGED <<enabled, ticks, current, zombies, pstate, head, proc_zombies,
                   cpuVars>>

-----------------------------------------------------------------------------
(* The scheduler.  sched_yield and thread_exit take as parameters the      *)
(* values their callers have already changed.                              *)

\* The threads thread_destroy finds in, and unlinks from, the list of p.
unlinked(p) == {z \in zombies : owner[z] = p /\ z \in threads[p] /\ pstate[p] # "DATA"}

\* reap_zombies: every thread of the zombie list is destroyed.  Following
\* the owner of one into memory that is no longer a proc_t may go anywhere.
reap_zombies(offStack) ==
    /\ threads' = [p \in AllProcs |-> threads[p] \ unlinked(p)]
    /\ thread_count' = [p \in AllProcs |-> thread_count[p] - Cardinality(unlinked(p))]
    /\ \/ wild' = offStack
       \/ /\ \E z \in zombies : pstate[owner[z]] = "DATA"
          /\ wild' = TRUE

\* Faults: threads are counted before they are buried; they never get to zero.
reapable_early(pz) == {p \in pz : thread_count[p] = 0}
reapable_never(pz) == {p \in pz : thread_count'[p] < 0}

\* The exited processes process_reap_zombies may release.
reapable(pz) == {p \in pz : thread_count'[p] = 0}

\* Fault: a released process stays on the list.
process_reap_linked(ps, pz) ==
    /\ proc_zombies' = pz
    /\ pstate' = [p \in AllProcs |-> IF p \in reapable(pz) THEN "FREE" ELSE ps[p]]

process_reap_zombies(ps, pz) ==
    /\ proc_zombies' = pz \ reapable(pz)
    /\ pstate' = [p \in AllProcs |-> IF p \in reapable(pz) THEN "FREE" ELSE ps[p]]

\* Fault: prev joins the list before it is reaped.
reaped_with_prev(ts) == [t \in AllThreads |->
    IF t \in zombies \/ (t = current /\ ts[t] = "DEAD") THEN "FREE" ELSE ts[t]]

\* The thread states reap_zombies leaves: it runs before prev joins the list.
reaped(ts) == [t \in AllThreads |-> IF t \in zombies THEN "FREE" ELSE ts[t]]

\* Fault: a dead thread goes back too.
requeues_dead(ts) == ts[current] \in {"RUNNING", "DEAD"} /\ current # Idle

\* prev goes back to the queue when it could have gone on running.
requeues(ts) == ts[current] = "RUNNING" /\ current # Idle

\* The kernel stack the CPU enters on once next runs (gdt_set_kernel_stack,
\* syscall_update_kstack), given the one it entered on before.
entry_stack(next, old) == IF is_user(next) THEN next ELSE old

\* Fault: a kernel thread borrows the space of prev.
space_borrowed(next, old) == IF is_user(next) THEN owner[next] ELSE old

\* vmm_space_activate of the space of next's process.
space_of(next, old) == owner[next]

\* Nobody else is ready: prev goes on.
yield_stays(ts) ==
    /\ ready_q = << >> /\ ts[current] = "RUNNING"
    /\ reap_zombies(FALSE)
    /\ tstate' = reaped(ts)
    /\ zombies' = {}
    /\ UNCHANGED <<ready_q, current, active_space, tss_rsp0, syscall_kstack>>

\* The address space is activated while the CPU is still on prev's stack:
\* fatal when that stack is prev's user stack.
yield_switches(ts) ==
    LET q    == IF requeues(ts) THEN q_push(ready_q, current) ELSE ready_q
        next == IF q = << >> THEN Idle ELSE Head(q)
    IN  /\ ~(ready_q = << >> /\ ts[current] = "RUNNING")
        /\ reap_zombies(ctx[current] = "fork_ustack")
        /\ zombies' = IF ts[current] = "DEAD" THEN {current} ELSE {}
        /\ ready_q' = IF q = << >> THEN q ELSE Tail(q)
        /\ tstate' = [reaped(ts) EXCEPT ![current] = IF requeues(ts) THEN "READY" ELSE @,
                                        ![next] = "RUNNING"]
        /\ current' = next
        /\ active_space' = space_of(next, active_space)
        /\ tss_rsp0' = entry_stack(next, tss_rsp0)
        /\ syscall_kstack' = entry_stack(next, syscall_kstack)

sched_yield(ts, ps, pz) ==
    /\ yield_stays(ts) \/ yield_switches(ts)
    /\ process_reap_zombies(ps, pz)

\* sched_start: the boot context is blocked for good.  One step here, although
\* interrupts are on and a tick may come after enabled is set: it would yield as
\* sched_start is about to, leaving the boot context ready for one more turn if it
\* came before the state was set.
sched_start ==
    /\ boot = "start" /\ boot' = "done"
    /\ enabled' = TRUE
    /\ sched_yield([tstate EXCEPT ![Bootstrap] = "BLOCKED"], pstate, proc_zombies)
    /\ UNCHANGED <<ticks, owner, ctx, head, alive_count>>

\* The timer interrupt: timer_handler calls sched_tick once enabled.
sched_tick ==
    /\ enabled /\ ~wild
    /\ ticks' = (ticks + 1) % QUANTUM
    /\ IF ticks' = 0
       THEN /\ sched_yield(tstate, pstate, proc_zombies)
            /\ UNCHANGED <<boot, enabled, owner, ctx, head, alive_count>>
       ELSE UNCHANGED <<boot, enabled, ready_q, current, zombies, thrVars,
                        procVars, cpuVars>>

-----------------------------------------------------------------------------
(* System calls of the thread in user mode.                                *)

user_calls(call) ==
    /\ call \in UserCalls
    /\ enabled /\ ~wild
    /\ is_user(current) /\ ctx[current] = "user"

sys_yield ==
    /\ user_calls("yield")
    /\ sched_yield(tstate, pstate, proc_zombies)
    /\ UNCHANGED <<boot, enabled, ticks, owner, ctx, head, alive_count>>

\* thread_exit: the last thread to exit takes its process along.
last_thread(p) == alive_count'[p] <= 0 /\ pstate[p] = "ALIVE"

sys_exit ==
    LET p == owner[current] IN
    /\ user_calls("exit")
    /\ alive_count' = [alive_count EXCEPT ![p] = @ - 1]
    /\ head' = IF last_thread(p) THEN head \ {p} ELSE head
    /\ sched_yield([tstate EXCEPT ![current] = "DEAD"],
                   IF last_thread(p) THEN [pstate EXCEPT ![p] = "ZOMBIE"] ELSE pstate,
                   IF last_thread(p) THEN proc_zombies \cup {p} ELSE proc_zombies)
    /\ UNCHANGED <<boot, enabled, ticks, owner, ctx>>

\* process_fork: a clone of the caller's process with one thread, which will
\* start in fork_child_return.
sys_fork(p, t) ==
    /\ user_calls("fork")
    /\ proc_alloc(p)
    /\ thread_link(t, p, "fork_entry")
    /\ threads' = [threads EXCEPT ![p] = {t}]
    /\ thread_count' = [thread_count EXCEPT ![p] = 1]
    /\ alive_count' = [alive_count EXCEPT ![p] = 1]
    /\ tstate' = [tstate EXCEPT ![t] = "READY"]
    /\ ready_q' = q_push(ready_q, t)
    /\ UNCHANGED <<boot, enabled, ticks, current, zombies, proc_zombies, cpuVars>>

\* process_waitpid: any exited process that matches is released on the spot,
\* address space and all.  No match: nothing changes.
sys_waitpid(p) ==
    /\ user_calls("waitpid")
    /\ p \in proc_zombies
    /\ proc_zombies' = proc_zombies \ {p}
    /\ pstate' = [pstate EXCEPT ![p] = "FREE"]
    /\ UNCHANGED <<boot, schedVars, thrVars, head, threads, thread_count,
                   alive_count, cpuVars>>

\* A kmalloc of another system call (vfs_write) reuses a freed proc_t.
vfs_write(p) ==
    /\ user_calls("write")
    /\ pstate[p] = "FREE"
    /\ pstate' = [pstate EXCEPT ![p] = "DATA"]
    /\ UNCHANGED <<boot, schedVars, thrVars, head, proc_zombies, threads,
                   thread_count, alive_count, cpuVars>>

\* fork_child_return, in ring 0 with interrupts on: it loads the user stack
\* pointer, then the other registers, and leaves with sysret.
fork_return_rest == [fork_entry |-> "fork_ustack", fork_ustack |-> "user"]

fork_child_return ==
    /\ enabled /\ ~wild
    /\ ctx[current] \in DOMAIN fork_return_rest
    /\ ctx' = [ctx EXCEPT ![current] = fork_return_rest[@]]
    /\ UNCHANGED <<boot, schedVars, tstate, owner, procVars, cpuVars>>

\* Nothing is known of a machine that executes garbage.
gone_wild == wild /\ UNCHANGED vars

Boot ==
    \/ boot_idle \/ user_skip \/ sched_start
    \/ \E p \in Procs : elf_create(p) \/ process_destroy(p)
    \/ \E p \in Procs, t \in Threads : thread_create_user(t, p)

Syscall ==
    \/ sys_yield \/ sys_exit
    \/ \E p \in Procs : sys_waitpid(p) \/ vfs_write(p)
    \/ \E p \in Procs, t \in Threads : sys_fork(p, t)

Next == Boot \/ sched_tick \/ Syscall \/ fork_child_return \/ gone_wild

Spec == Init /\ [][Next]_vars

\* The timer keeps ticking, _start() and fork_child_return run on.  What user
\* programs do is up to them.
Fairness == WF_vars(Boot) /\ WF_vars(sched_tick) /\ WF_vars(fork_child_return)

FairSpec == Spec /\ Fairness
-----------------------------------------------------------------------------
(* Properties.                                                             *)

ThreadStates == {"FREE", "READY", "RUNNING", "BLOCKED", "DEAD"}
ProcStates   == {"FREE", "DATA", "ALIVE", "ZOMBIE"}
Contexts     == {"kernel", "user", "fork_entry", "fork_ustack"}

\* The values the variables may take.
TypeOK ==
    /\ boot \in {"idle", "load", "segments", "start", "done"}
    /\ enabled \in BOOLEAN
    /\ ticks \in 0 .. QUANTUM - 1
    /\ ready_q \in Seq(Threads)
    /\ current \in AllThreads
    /\ zombies \subseteq Threads
    /\ tstate \in [AllThreads -> ThreadStates]
    /\ owner \in [AllThreads -> AllProcs \cup {NULL}]
    /\ ctx \in [AllThreads -> Contexts]
    /\ pstate \in [AllProcs -> ProcStates]
    /\ head \subseteq AllProcs
    /\ proc_zombies \subseteq Procs
    /\ threads \in [AllProcs -> SUBSET (Threads \cup {Idle})]
    /\ thread_count \in [AllProcs -> Int]
    /\ alive_count \in [AllProcs -> Int]
    /\ active_space \in AllProcs
    /\ tss_rsp0 \in Threads \cup {NULL}
    /\ syscall_kstack \in Threads \cup {NULL}
    /\ wild \in BOOLEAN

\* A thread that may still run: on the CPU or waiting for it.
runnable(t) == tstate[t] \in {"READY", "RUNNING"}

\* The ready queue holds each thread at most once, only threads that are
\* READY, never the one on the CPU and never a freed thread_t: what q_push,
\* q_pop and the state changes around them keep in step, whoever exits, forks
\* or is preempted in between.
QueueSound ==
    /\ \A i, j \in 1 .. Len(ready_q) : ready_q[i] = ready_q[j] => i = j
    /\ \A i \in 1 .. Len(ready_q) : tstate[ready_q[i]] = "READY"

\* Once the scheduler runs, the thread on the CPU is RUNNING and is the only
\* user thread that is: nobody is on the CPU twice and nobody's thread_t or
\* kernel stack is freed under it (reap_zombies runs on the stack of prev,
\* which sched_yield adds to the zombie list only afterwards).
OneOnCPU ==
    enabled => /\ tstate[current] = "RUNNING"
               /\ \A t \in Threads : tstate[t] = "RUNNING" => t = current

\* CR3 always holds the page tables of the process on the CPU, and those have
\* not been released: an exited process outlives, in process_reap_zombies, the
\* last switch away from it.
SpaceOfCurrent ==
    enabled => /\ active_space = owner[current]
               /\ pstate[active_space] = "ALIVE"

\* A user thread on the CPU enters the kernel on its own stack, by interrupt
\* and by SYSCALL, so it never overwrites the frames of a thread suspended in
\* the kernel; the thread whose stack is used is never a freed one.
EntersOnOwnStack ==
    enabled /\ is_user(current) => tss_rsp0 = current /\ syscall_kstack = current

\* The CPU runs one live thread, in its own address space and on its own stack.
CpuSound == OneOnCPU /\ SpaceOfCurrent /\ EntersOnOwnStack

\* Nothing is given back to the allocators while the CPU uses it: not the stack
\* sched_yield and its caller run on (the thread on the CPU before the step),
\* and not the page tables CR3 holds before the step.
ReleasedIsOffCPU ==
    [][/\ \A t \in Threads : tstate[t] # "FREE" /\ tstate'[t] = "FREE" => t # current
       /\ \A p \in Procs :
             enabled /\ pstate[p] \in {"ALIVE", "ZOMBIE"} /\ pstate'[p] = "FREE"
                => p # active_space]_vars

\* The process bookkeeping adds up: the two process lists are exactly the live
\* and the exited processes, every thread that may still run is linked in a
\* live process, and a process with such a thread counts it, so
\* process_reap_zombies cannot release a process with a thread that may run.
ProcessBooks ==
    /\ head = {p \in AllProcs : pstate[p] = "ALIVE"}
    /\ proc_zombies = {p \in AllProcs : pstate[p] = "ZOMBIE"}
    /\ \A t \in Threads : runnable(t) =>
          /\ owner[t] \in head
          /\ threads[owner[t]] = {t}
          /\ thread_count[owner[t]] = 1 /\ alive_count[owner[t]] = 1

\* The only exited process waitpid can still find is that of the one dead
\* thread awaiting burial: every other one is released by the very sched_yield
\* that left it, so an exit status not fetched before the next yield is lost.
ZombieAwaitsBurial ==
    \A p \in proc_zombies : \E t \in zombies :
        /\ zombies = {t} /\ owner[t] = p
        /\ threads[p] = {t} /\ thread_count[p] = 1

\* Where boot has got to and what exists by then.
BootState ==
    /\ enabled <=> boot = "done"
    /\ boot = "idle" => \A p \in AllProcs : pstate[p] = "FREE"
    /\ boot # "idle" =>
          /\ pstate[KProc] = "ALIVE" /\ threads[KProc] = {Idle}
          /\ owner[Idle] = KProc /\ tstate[Idle] \in {"READY", "RUNNING"}
    /\ boot \in {"idle", "load", "segments"} =>
          ready_q = << >> /\ \A t \in Threads : tstate[t] = "FREE"
    /\ boot = "load" => head = {KProc}
    /\ boot = "segments" =>
          \A p \in head \ {KProc} :
             threads[p] = {} /\ thread_count[p] = 0 /\ alive_count[p] = 0
    /\ ~enabled =>
          /\ current = Bootstrap /\ zombies = {} /\ proc_zombies = {}
          /\ \A t \in Threads : tstate[t] # "RUNNING"
    /\ enabled => current # Bootstrap

\* A thread is DEAD exactly while it is on the zombie list, and one thread at
\* most is: every sched_yield first buries the one the last yield left.
OneDeadThread ==
    /\ \A t \in Threads : tstate[t] = "DEAD" <=> t \in zombies
    /\ \A t, u \in zombies : t = u

\* The inductive invariant.
IInv ==
    /\ TypeOK /\ QueueSound /\ OneOnCPU /\ SpaceOfCurrent /\ EntersOnOwnStack
    /\ ProcessBooks /\ ZombieAwaitsBurial /\ BootState /\ OneDeadThread

\* A thread that is READY waits in the queue (or is the idle thread), so no
\* thread is forgotten.  Holds while the queue has room for every thread.
NoThreadForgotten ==
    \A t \in Threads : tstate[t] = "READY" => \E i \in 1 .. Len(ready_q) : ready_q[i] = t

\* The idle thread only runs on an empty queue; it never leaves the CPU again,
\* as nothing in this kernel blocks a thread and wakes it later.
IdleRunsOnEmptyQueue == enabled /\ current = Idle => ready_q = << >>

\* kernel.c: "idle runs only when nothing else can".
IdleOnlyWhenNothingElse ==
    enabled /\ current = Idle => \A t \in Threads : tstate[t] # "READY"

\* reap_zombies is "safe": the thread_destroy of a thread on the zombie list
\* still finds the owner it unlinks the thread from.
ReapIsSafe ==
    \A t \in zombies : pstate[owner[t]] \in {"ALIVE", "ZOMBIE"}

\* A new context is not interrupted, let alone switched away from, before it
\* has reached user mode.
NewContextUninterrupted ==
    [][current' # current => ctx[current] \notin {"fork_entry", "fork_ustack"}]_vars

\* A runnable thread gets the CPU again and again: the queue is served in
\* order and the timer preempts whoever holds the CPU.
EveryThreadRuns ==
    \A t \in Threads : tstate[t] = "READY" ~> tstate[t] = "RUNNING" \/ wild

\* Whatever exits is given back: the thread_t with its stack and the proc_t
\* with its address space, even if nobody waits for it.
ExitedIsReleased ==
    /\ \A t \in Threads : tstate[t] = "DEAD" ~> tstate[t] = "FREE" \/ wild
    /\ \A p \in Procs : pstate[p] = "ZOMBIE" ~> pstate[p] \in {"FREE", "DATA"} \/ wild
=============================================================================
