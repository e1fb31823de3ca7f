--------------------------- MODULE SchedProcProofs ---------------------------
(***************************************************************************)
(* Proofs about SchedProc, for every number of slots, every capacity of    *)
(* the ready queue, every quantum and every choice of system calls.        *)
(***************************************************************************)
EXTENDS SchedProc, FiniteSetTheorems, TLAPS

USE SlotsAssumption, LimitsAssumption DEF AllThreads, AllProcs

(***************************************************************************)
(* What q_push and q_pop do to a queue of distinct threads.                *)
(***************************************************************************)
Distinct(q) == \A i, j \in 1 .. Len(q) : q[i] = q[j] => i = j

\* q_push keeps a queue of distinct elements distinct, and adds at most t.
LEMMA PushDistinct ==
    ASSUME NEW S, NEW q \in Seq(S), Distinct(q), NEW t \in S,
           \A i \in 1 .. Len(q) : q[i] # t
    PROVE  /\ q_push(q, t) \in Seq(S)
           /\ Distinct(q_push(q, t))
           /\ \A i \in 1 .. Len(q_push(q, t)) :
                 \/ q_push(q, t)[i] = t
                 \/ \E j \in 1 .. Len(q) : q_push(q, t)[i] = q[j]
           /\ q # << >> => q_push(q, t) # << >> /\ Head(q_push(q, t)) = q[1]
BY DEF q_push, Distinct

\* q_pop: the rest of the queue is distinct and no longer holds its head.
LEMMA PopDistinct ==
    ASSUME NEW S, NEW q \in Seq(S), Distinct(q), q # << >>
    PROVE  /\ Head(q) \in S /\ Head(q) = q[1] /\ 1 \in 1 .. Len(q)
           /\ Tail(q) \in Seq(S)
           /\ Distinct(Tail(q))
           /\ \A i \in 1 .. Len(Tail(q)) :
                 /\ Tail(q)[i] # Head(q)
                 /\ \E j \in 1 .. Len(q) : Tail(q)[i] = q[j]
<1>1. /\ Head(q) \in S /\ Head(q) = q[1] /\ 1 \in 1 .. Len(q)
      /\ Tail(q) \in Seq(S) /\ Len(Tail(q)) = Len(q) - 1
  OBVIOUS
<1>2. \A i \in 1 .. Len(Tail(q)) : Tail(q)[i] = q[i + 1] /\ i + 1 \in 1 .. Len(q)
  OBVIOUS
<1> QED  BY <1>1, <1>2 DEF Distinct

(***************************************************************************)
(* sched_yield.  BeforeYield is what its callers (sched_start, sched_tick, *)
(* sys_yield, sys_exit) have established with the thread states ts, the    *)
(* process states ps, the zombie processes pz and the live processes hd.   *)
(***************************************************************************)
BeforeYield(ts, ps, pz, hd) ==
    /\ ts \in [AllThreads -> ThreadStates]
    /\ ps \in [AllProcs -> ProcStates]
    /\ hd = {p \in AllProcs : ps[p] = "ALIVE"}
    /\ pz = {p \in AllProcs : ps[p] = "ZOMBIE"} /\ KProc \notin pz
    /\ \A p \in AllProcs : ps[p] \in {"ALIVE", "ZOMBIE"} => pstate[p] # "DATA"
    /\ ts[current] \in {"RUNNING", "DEAD", "BLOCKED"}
    /\ current = Idle => ts[current] = "RUNNING"
    /\ current = Bootstrap <=> ts[current] = "BLOCKED"
    /\ current \notin zombies
    /\ \A t \in Threads : ts[t] = "RUNNING" => t = current
    /\ \A t \in Threads \ {current} : ts[t] = "DEAD" <=> t \in zombies
    /\ \A i \in 1 .. Len(ready_q) : ts[ready_q[i]] = "READY"
    /\ \A t \in Threads : ts[t] \in {"READY", "RUNNING"} =>
          /\ owner[t] \in hd
          /\ threads[owner[t]] = {t}
          /\ thread_count[owner[t]] = 1 /\ alive_count'[owner[t]] = 1
    /\ \A p \in pz :
          \/ \E t \in zombies : owner[t] = p /\ threads[p] = {t} /\ thread_count[p] = 1
          \/ /\ ts[current] = "DEAD" /\ owner[current] = p
             /\ threads[p] = {current} /\ thread_count[p] = 1
    /\ ts[current] = "DEAD" => threads[owner[current]] = {current}
    /\ ps[KProc] = "ALIVE" /\ threads[KProc] = {Idle}
    /\ owner[Idle] = KProc /\ ts[Idle] \in {"READY", "RUNNING"}
    /\ enabled => active_space = owner[current]
    /\ enabled /\ is_user(current) => tss_rsp0 = current /\ syscall_kstack = current
    /\ enabled <=> current # Bootstrap

\* reap_zombies takes from a list of threads exactly the threads on the zombie
\* list, of which there is at most one, and counts it off.
LEMMA ReapEffect ==
    ASSUME TypeOK, OneDeadThread, NEW off, reap_zombies(off), NEW p \in AllProcs
    PROVE  /\ threads'[p] = threads[p] \ unlinked(p)
           /\ threads'[p] \subseteq Threads \cup {Idle}
           /\ unlinked(p) = {} => thread_count'[p] = thread_count[p]
           /\ \A z : unlinked(p) = {z} => thread_count'[p] = thread_count[p] - 1
           /\ thread_count'[p] \in Int
<1>1. threads'[p] = threads[p] \ unlinked(p)
      /\ thread_count'[p] = thread_count[p] - Cardinality(unlinked(p))
  BY DEF reap_zombies
<1>2. threads'[p] \subseteq Threads \cup {Idle} /\ thread_count[p] \in Int
  BY <1>1 DEF TypeOK
<1>3. unlinked(p) = {} \/ \E z : unlinked(p) = {z}
  BY DEF unlinked, OneDeadThread
<1>4. Cardinality({}) = 0 /\ \A z : Cardinality({z}) = 1
  BY FS_EmptySet, FS_Singleton
<1>5. unlinked(p) = {} => thread_count'[p] = thread_count[p]
  BY <1>1, <1>2, <1>4
<1>6. \A z : unlinked(p) = {z} => thread_count'[p] = thread_count[p] - 1
  BY <1>1, <1>4
<1>7. thread_count'[p] \in Int
  BY <1>2, <1>3, <1>5, <1>6
<1> QED  BY <1>1, <1>2, <1>5, <1>6, <1>7

\* sched_yield re-establishes the invariant from whatever its callers leave.
LEMMA YieldPreserves ==
    ASSUME TypeOK, QueueSound, OneDeadThread,
           NEW ts, NEW ps, NEW pz, NEW hd,
           BeforeYield(ts, ps, pz, hd), sched_yield(ts, ps, pz),
           head' = hd, owner' = owner, ctx' = ctx,
           boot' = "done", enabled' = TRUE,
           ticks' \in 0 .. QUANTUM - 1, alive_count' \in [AllProcs -> Int]
    PROVE  IInv'
<1> DEFINE run(t) == ts[t] \in {"READY", "RUNNING"}
<1> USE DEF ThreadStates, ProcStates
<1>0. PICK off : reap_zombies(off)
  BY DEF sched_yield, yield_stays, yield_switches
<1>1. process_reap_zombies(ps, pz)
  BY DEF sched_yield
<1>z. zombies \subseteq Threads /\ current \in AllThreads /\ owner \in [AllThreads -> AllProcs \cup {NULL}]
  BY DEF TypeOK
<1>2. ASSUME NEW t \in Threads, run(t)
      PROVE  /\ owner[t] \in hd /\ owner[t] \in AllProcs
             /\ threads'[owner[t]] = {t} /\ thread_count'[owner[t]] = 1
             /\ alive_count'[owner[t]] = 1
  <2>1. /\ owner[t] \in hd /\ owner[t] \in AllProcs /\ threads[owner[t]] = {t}
        /\ thread_count[owner[t]] = 1 /\ alive_count'[owner[t]] = 1 /\ t \notin zombies
    BY <1>2 DEF BeforeYield
  <2>2. unlinked(owner[t]) = {}
    BY <2>1 DEF unlinked
  <2> QED  BY <2>1, <2>2, <1>0, ReapEffect
<1>3. threads'[KProc] = {Idle}
  <2>1. unlinked(KProc) = {}
    BY <1>z DEF unlinked, BeforeYield
  <2> QED  BY <2>1, <1>0, ReapEffect DEF BeforeYield
<1>4. ASSUME NEW p \in pz, NEW t \in zombies, owner[t] = p, threads[p] = {t},
             thread_count[p] = 1
      PROVE  thread_count'[p] = 0
  <2>1. p \in AllProcs /\ pstate[p] # "DATA"
    BY <1>4 DEF BeforeYield
  <2>2. unlinked(p) = {t}
    BY <1>4, <2>1 DEF unlinked
  <2> QED  BY <1>4, <2>1, <2>2, <1>0, ReapEffect
<1>5. ASSUME NEW p \in proc_zombies'
      PROVE  /\ ts[current] = "DEAD" /\ owner[current] = p
             /\ threads'[p] = {current} /\ thread_count'[p] = 1
  <2>1. p \in pz /\ thread_count'[p] # 0 /\ p \in AllProcs
    BY <1>1 DEF process_reap_zombies, reapable, BeforeYield
  <2>2. ~ \E t \in zombies : owner[t] = p /\ threads[p] = {t} /\ thread_count[p] = 1
    BY <1>4, <2>1
  <2>3. /\ ts[current] = "DEAD" /\ owner[current] = p
        /\ threads[p] = {current} /\ thread_count[p] = 1 /\ current \notin zombies
    BY <2>1, <2>2 DEF BeforeYield
  <2>4. unlinked(p) = {}
    BY <2>3 DEF unlinked
  <2> QED  BY <2>1, <2>3, <2>4, <1>0, ReapEffect
<1>6. /\ pstate' \in [AllProcs -> ProcStates]
      /\ head' = {p \in AllProcs : pstate'[p] = "ALIVE"}
      /\ proc_zombies' = {p \in AllProcs : pstate'[p] = "ZOMBIE"}
      /\ head' \subseteq AllProcs /\ proc_zombies' \subseteq Procs
      /\ pstate'[KProc] = "ALIVE"
  BY <1>1 DEF process_reap_zombies, reapable, BeforeYield
<1>7. /\ threads' \in [AllProcs -> SUBSET (Threads \cup {Idle})]
      /\ thread_count' \in [AllProcs -> Int]
  <2>1. threads' = [p \in AllProcs |-> threads'[p]] /\ thread_count' = [p \in AllProcs |-> thread_count'[p]]
    BY <1>0 DEF reap_zombies
  <2>2. \A p \in AllProcs : threads'[p] \subseteq Threads \cup {Idle} /\ thread_count'[p] \in Int
    BY <1>0, ReapEffect
  <2> QED  BY <2>1, <2>2
<1>8. wild' \in BOOLEAN
  BY DEF sched_yield, yield_stays, yield_switches, reap_zombies
<1>9. ASSUME NEW t \in Threads
      PROVE  reaped(ts)[t] = IF t \in zombies THEN "FREE" ELSE ts[t]
  BY DEF reaped
<1>10. /\ reaped(ts) \in [AllThreads -> ThreadStates]
       /\ reaped(ts)[Idle] = ts[Idle] /\ reaped(ts)[current] = ts[current]
  BY <1>z DEF reaped, BeforeYield
<1>q. Distinct(ready_q) /\ ready_q \in Seq(Threads)
  BY DEF QueueSound, Distinct, TypeOK
<1>d. \A t \in Threads : reaped(ts)[t] = "DEAD" => t = current
  BY <1>9 DEF BeforeYield
<1> DEFINE After ==
      /\ tstate' \in [AllThreads -> ThreadStates] /\ tstate'[Idle] \in {"READY", "RUNNING"}
      /\ ready_q' \in Seq(Threads) /\ Distinct(ready_q')
      /\ \A i \in 1 .. Len(ready_q') : tstate'[ready_q'[i]] = "READY"
      /\ current' \in AllThreads \ {Bootstrap} /\ tstate'[current'] = "RUNNING"
      /\ \A t \in Threads : tstate'[t] = "RUNNING" => t = current'
      /\ \A t \in Threads : tstate'[t] \in {"READY", "RUNNING"} => run(t)
      /\ active_space' = owner[current']
      /\ is_user(current') => tss_rsp0' = current' /\ syscall_kstack' = current'
      /\ tss_rsp0' \in Threads \cup {NULL} /\ syscall_kstack' \in Threads \cup {NULL}
      /\ zombies' \subseteq Threads
      /\ \A t \in Threads : tstate'[t] = "DEAD" <=> t \in zombies'
      /\ zombies' = IF ts[current] = "DEAD" THEN {current} ELSE {}
<1>11. ASSUME yield_stays(ts)
       PROVE  After
  <2>1. /\ ready_q = << >> /\ ts[current] = "RUNNING" /\ ready_q' = ready_q
        /\ tstate' = reaped(ts) /\ zombies' = {} /\ current' = current
        /\ active_space' = active_space /\ tss_rsp0' = tss_rsp0
        /\ syscall_kstack' = syscall_kstack
    BY <1>11 DEF yield_stays
  <2>2. \A t \in Threads : tstate'[t] # "DEAD"
    BY <2>1, <1>d, <1>10
  <2>3. /\ current' \in AllThreads \ {Bootstrap} /\ tstate'[current'] = "RUNNING"
        /\ enabled /\ active_space' = owner[current']
        /\ is_user(current') => tss_rsp0' = current' /\ syscall_kstack' = current'
    BY <2>1, <1>z, <1>10 DEF BeforeYield
  <2>4. /\ \A t \in Threads : tstate'[t] = "RUNNING" => t = current'
        /\ \A t \in Threads : tstate'[t] \in {"READY", "RUNNING"} => run(t)
    BY <2>1, <1>9 DEF BeforeYield
  <2>5. tss_rsp0' \in Threads \cup {NULL} /\ syscall_kstack' \in Threads \cup {NULL}
    BY <2>1 DEF TypeOK
  <2>6. /\ ready_q' \in Seq(Threads) /\ Distinct(ready_q')
        /\ \A i \in 1 .. Len(ready_q') : tstate'[ready_q'[i]] = "READY"
    BY <2>1, <1>q
  <2>7. tstate' \in [AllThreads -> ThreadStates] /\ tstate'[Idle] \in {"READY", "RUNNING"}
    BY <2>1, <1>10 DEF BeforeYield
  <2> QED  BY <2>1, <2>2, <2>3, <2>4, <2>5, <2>6, <2>7
<1>12. ASSUME yield_switches(ts)
       PROVE  After
  <2> DEFINE q == IF requeues(ts) THEN q_push(ready_q, current) ELSE ready_q
             next == IF q = << >> THEN Idle ELSE Head(q)
  <2>1. /\ ready_q' = IF q = << >> THEN q ELSE Tail(q)
        /\ tstate' = [reaped(ts) EXCEPT ![current] = IF requeues(ts) THEN "READY" ELSE @,
                                        ![next] = "RUNNING"]
        /\ current' = next /\ active_space' = owner[next]
        /\ tss_rsp0' = entry_stack(next, tss_rsp0)
        /\ syscall_kstack' = entry_stack(next, syscall_kstack)
        /\ zombies' = IF ts[current] = "DEAD" THEN {current} ELSE {}
        /\ ~(ready_q = << >> /\ ts[current] = "RUNNING")
    BY <1>12 DEF yield_switches, space_of
  <2>2. requeues(ts) => current \in Threads /\ ready_q # << >>
    BY <2>1, <1>z DEF requeues, BeforeYield
  <2>3. \A i \in 1 .. Len(ready_q) : ready_q[i] \in Threads /\ ready_q[i] # current
    BY <1>q DEF BeforeYield
  <2>4. /\ q \in Seq(Threads) /\ Distinct(q)
        /\ \A i \in 1 .. Len(q) :
              \/ requeues(ts) /\ q[i] = current
              \/ \E j \in 1 .. Len(ready_q) : q[i] = ready_q[j]
        /\ q # << >> => \E j \in 1 .. Len(ready_q) : Head(q) = ready_q[j]
    <3>1. CASE requeues(ts)
      <4>1. q = q_push(ready_q, current)
        BY <3>1
      <4>2. 1 \in 1 .. Len(ready_q)
        BY <2>2, <3>1, <1>q
      <4> QED  BY <3>1, <4>1, <4>2, <2>2, <2>3, <1>q, PushDistinct
    <3>2. CASE ~requeues(ts)
      BY <3>2, <1>q, PopDistinct
    <3> QED  BY <3>1, <3>2
  <2>5. /\ ready_q' \in Seq(Threads) /\ Distinct(ready_q')
        /\ \A i \in 1 .. Len(ready_q') :
              /\ ready_q'[i] # next
              /\ \E j \in 1 .. Len(q) : ready_q'[i] = q[j]
    <3> HIDE DEF q, next
    <3>1. CASE q = << >>
      BY <2>1, <2>4, <3>1
    <3>2. CASE q # << >>
      <4>1. ready_q' = Tail(q) /\ next = Head(q)
        BY <2>1, <3>2 DEF next
      <4> QED  BY <4>1, <3>2, <2>4, PopDistinct
    <3> QED  BY <3>1, <3>2
  <2>6. /\ next # Bootstrap /\ next \in Threads \cup {Idle} /\ next # current
        /\ next \in Threads => ts[next] = "READY"
    <3>1. CASE q = << >>
      <4>1. next = Idle /\ ready_q = << >> /\ ~requeues(ts)
        BY <3>1, <2>2, <2>4, PushDistinct, <1>q, <2>3
      <4>2. current # Idle
        BY <4>1, <2>1 DEF BeforeYield
      <4> QED  BY <4>1, <4>2
    <3>2. CASE q # << >>
      <4>1. PICK j \in 1 .. Len(ready_q) : next = ready_q[j]
        BY <3>2, <2>4
      <4> QED  BY <4>1, <2>3 DEF BeforeYield
    <3> QED  BY <3>1, <3>2
  <2>7. ASSUME NEW t \in AllThreads
        PROVE  tstate'[t] = IF t = next THEN "RUNNING"
                            ELSE IF t = current /\ requeues(ts) THEN "READY"
                            ELSE reaped(ts)[t]
    BY <2>1, <2>6, <1>10, <1>z
  <2>8. tstate' \in [AllThreads -> ThreadStates] /\ tstate'[Idle] \in {"READY", "RUNNING"}
    <3>1. tstate' \in [AllThreads -> ThreadStates]
      BY <2>1, <1>10
    <3>2. tstate'[Idle] \in {"READY", "RUNNING"}
      BY <2>7, <1>10 DEF BeforeYield
    <3> QED  BY <3>1, <3>2
  <2>9. \A i \in 1 .. Len(ready_q') : tstate'[ready_q'[i]] = "READY"
    <3> SUFFICES ASSUME NEW i \in 1 .. Len(ready_q') PROVE tstate'[ready_q'[i]] = "READY"
      OBVIOUS
    <3>1. ready_q'[i] \in Threads /\ ready_q'[i] # next
      BY <2>5
    <3>2. CASE requeues(ts) /\ ready_q'[i] = current
      BY <3>1, <3>2, <2>7
    <3>3. CASE \E j \in 1 .. Len(ready_q) : ready_q'[i] = ready_q[j]
      <4>1. ts[ready_q'[i]] = "READY" /\ ready_q'[i] # current
        BY <3>3, <2>3 DEF BeforeYield
      <4>2. ready_q'[i] \notin zombies
        BY <4>1, <3>1 DEF BeforeYield
      <4> QED  BY <4>1, <4>2, <3>1, <2>7, <1>9
    <3> QED  BY <3>2, <3>3, <2>4, <2>5
  <2>10. /\ current' \in AllThreads \ {Bootstrap} /\ tstate'[current'] = "RUNNING"
         /\ \A t \in Threads : tstate'[t] = "RUNNING" => t = current'
    <3>1. current' = next /\ next \in AllThreads \ {Bootstrap}
      BY <2>1, <2>6
    <3>2. ASSUME NEW t \in Threads, tstate'[t] = "RUNNING", t # next
          PROVE  FALSE
      <4>1. ts[t] = "RUNNING" /\ (~requeues(ts) \/ t # current)
        BY <3>2, <2>7, <1>9
      <4> QED  BY <4>1 DEF requeues, BeforeYield
    <3> QED  BY <3>1, <3>2, <2>7
  <2>11. \A t \in Threads : tstate'[t] \in {"READY", "RUNNING"} => run(t)
    BY <2>6, <2>7, <1>9 DEF requeues
  <2>12. /\ is_user(current') => tss_rsp0' = current' /\ syscall_kstack' = current'
         /\ tss_rsp0' \in Threads \cup {NULL} /\ syscall_kstack' \in Threads \cup {NULL}
    BY <2>1, <2>6 DEF entry_stack, is_user, TypeOK
  <2>13. zombies' \subseteq Threads /\ \A t \in Threads : tstate'[t] = "DEAD" <=> t \in zombies'
    <3>1. ts[current] = "DEAD" => current \in Threads /\ ~requeues(ts)
      BY <1>z DEF BeforeYield, requeues
    <3>2. ASSUME NEW t \in Threads
          PROVE  tstate'[t] = "DEAD" <=> t = current /\ ts[current] = "DEAD"
      BY <3>1, <2>6, <2>7, <1>d, <1>10
    <3> QED  BY <2>1, <3>1, <3>2
  <2> QED  BY <2>1, <2>5, <2>8, <2>9, <2>10, <2>11, <2>12, <2>13
<1>13. After
  BY <1>11, <1>12 DEF sched_yield
<1> HIDE DEF After
<1>14. TypeOK'
  <2>1. ctx' \in [AllThreads -> Contexts] /\ owner' \in [AllThreads -> AllProcs \cup {NULL}]
    BY DEF TypeOK
  <2>2. active_space' \in AllProcs
    BY <1>13, <1>2, <1>z DEF After, BeforeYield
  <2> QED  BY <2>1, <2>2, <1>6, <1>7, <1>8, <1>13 DEF After, TypeOK
<1>15. QueueSound'
  BY <1>13 DEF After, QueueSound, Distinct
<1>16. OneOnCPU'
  BY <1>13 DEF After, OneOnCPU
<1>17. SpaceOfCurrent'
  <2>1. current' = Idle => owner[current'] = KProc
    BY DEF BeforeYield
  <2>2. current' \in Threads => owner[current'] \in head'
    BY <1>2, <1>13 DEF After
  <2> QED  BY <2>1, <2>2, <1>6, <1>13 DEF After, SpaceOfCurrent
<1>18. EntersOnOwnStack'
  BY <1>13 DEF After, EntersOnOwnStack
<1>19. ProcessBooks'
  <2>1. ASSUME NEW t \in Threads, runnable(t)'
        PROVE  /\ owner'[t] \in head' /\ threads'[owner'[t]] = {t}
               /\ thread_count'[owner'[t]] = 1 /\ alive_count'[owner'[t]] = 1
    <3>1. run(t)
      BY <1>13, <2>1 DEF After, runnable
    <3> QED  BY <3>1, <1>2
  <2> QED  BY <2>1, <1>6 DEF ProcessBooks
<1>20. ZombieAwaitsBurial'
  BY <1>5, <1>13 DEF After, ZombieAwaitsBurial
<1>21. BootState'
  BY <1>3, <1>6, <1>13 DEF After, BootState, BeforeYield
<1>22. OneDeadThread'
  BY <1>13 DEF After, OneDeadThread
<1> QED  BY <1>14, <1>15, <1>16, <1>17, <1>18, <1>19, <1>20, <1>21, <1>22 DEF IInv

(***************************************************************************)
(* The callers of sched_yield.                                             *)
(***************************************************************************)

\* The idle thread and the kernel process once the scheduler runs, and who
\* owns a user thread that may run.
LEMMA Standing ==
    ASSUME IInv
    PROVE  /\ zombies \subseteq Threads /\ current \in AllThreads
           /\ \A t \in Threads : runnable(t) => owner[t] \in Procs /\ pstate[owner[t]] = "ALIVE"
           /\ enabled => current \in Threads \cup {Idle}
<1>1. /\ zombies \subseteq Threads /\ current \in AllThreads
      /\ enabled => current \in Threads \cup {Idle}
  BY DEF IInv, TypeOK, BootState
<1>2. ASSUME NEW t \in Threads, runnable(t)
      PROVE  owner[t] \in Procs /\ pstate[owner[t]] = "ALIVE"
  <2>1. owner[t] \in AllProcs /\ pstate[owner[t]] = "ALIVE" /\ threads[owner[t]] = {t}
    BY <1>2 DEF IInv, ProcessBooks
  <2>2. boot # "idle"
    BY <2>1 DEF IInv, BootState
  <2>3. threads[KProc] = {Idle}
    BY <2>2 DEF IInv, BootState
  <2> QED  BY <2>1, <2>3
<1> QED  BY <1>1, <1>2

\* The timer and sys_yield call sched_yield with nothing changed.
LEMMA YieldAsIs ==
    ASSUME IInv, enabled, alive_count' = alive_count
    PROVE  BeforeYield(tstate, pstate, proc_zombies, head)
<1>1. /\ current \in Threads \cup {Idle} /\ tstate[current] = "RUNNING"
      /\ current \notin zombies
      /\ \A t \in Threads : tstate[t] = "RUNNING" => t = current
  BY Standing DEF IInv, OneOnCPU, OneDeadThread
<1>2. \A p \in proc_zombies : \E t \in zombies :
         owner[t] = p /\ threads[p] = {t} /\ thread_count[p] = 1
  BY DEF IInv, ZombieAwaitsBurial
<1>3. /\ head = {p \in AllProcs : pstate[p] = "ALIVE"}
      /\ proc_zombies = {p \in AllProcs : pstate[p] = "ZOMBIE"}
      /\ \A t \in Threads : tstate[t] \in {"READY", "RUNNING"} =>
            /\ owner[t] \in head /\ threads[owner[t]] = {t}
            /\ thread_count[owner[t]] = 1 /\ alive_count'[owner[t]] = 1
  BY DEF IInv, ProcessBooks, runnable
<1>4. /\ pstate[KProc] = "ALIVE" /\ threads[KProc] = {Idle}
      /\ owner[Idle] = KProc /\ tstate[Idle] \in {"READY", "RUNNING"}
  BY DEF IInv, BootState
<1>5. /\ \A t \in Threads : tstate[t] = "DEAD" <=> t \in zombies
      /\ \A i \in 1 .. Len(ready_q) : tstate[ready_q[i]] = "READY"
  BY DEF IInv, OneDeadThread, QueueSound
<1>6. tstate \in [AllThreads -> ThreadStates] /\ pstate \in [AllProcs -> ProcStates]
  BY DEF IInv, TypeOK
<1>7. /\ active_space = owner[current]
      /\ is_user(current) => tss_rsp0 = current /\ syscall_kstack = current
  BY DEF IInv, SpaceOfCurrent, EntersOnOwnStack
<1> QED  BY <1>1, <1>2, <1>3, <1>4, <1>5, <1>6, <1>7 DEF BeforeYield

\* sched_start hands over from the boot context.
LEMMA StartYields ==
    ASSUME IInv, sched_start
    PROVE  \E ts :
             /\ BeforeYield(ts, pstate, proc_zombies, head)
             /\ sched_yield(ts, pstate, proc_zombies) /\ head' = head
             /\ owner' = owner /\ ctx' = ctx /\ boot' = "done" /\ enabled' = TRUE
             /\ ticks' \in 0 .. QUANTUM - 1 /\ alive_count' \in [AllProcs -> Int]
             /\ \A t \in Threads : ts[t] = tstate[t]
<1> DEFINE ts == [tstate EXCEPT ![Bootstrap] = "BLOCKED"]
<1>1. /\ boot = "start" /\ ~enabled /\ current = Bootstrap /\ zombies = {} /\ proc_zombies = {}
      /\ boot' = "done" /\ enabled' = TRUE /\ sched_yield(ts, pstate, proc_zombies)
      /\ ticks' = ticks /\ owner' = owner /\ ctx' = ctx /\ head' = head
      /\ alive_count' = alive_count
  BY DEF sched_start, IInv, BootState
<1>2. /\ tstate \in [AllThreads -> ThreadStates] /\ pstate \in [AllProcs -> ProcStates]
      /\ ready_q \in Seq(Threads)
      /\ ticks \in 0 .. QUANTUM - 1 /\ alive_count \in [AllProcs -> Int]
  BY DEF IInv, TypeOK
<1>3. /\ ts \in [AllThreads -> ThreadStates] /\ ts[Bootstrap] = "BLOCKED"
      /\ \A t \in Threads \cup {Idle} : ts[t] = tstate[t]
  BY <1>2 DEF ThreadStates
<1>4. /\ \A t \in Threads : tstate[t] # "RUNNING"
      /\ pstate[KProc] = "ALIVE" /\ threads[KProc] = {Idle}
      /\ owner[Idle] = KProc /\ tstate[Idle] \in {"READY", "RUNNING"}
  BY <1>1 DEF IInv, BootState
<1>5. /\ head = {p \in AllProcs : pstate[p] = "ALIVE"}
      /\ proc_zombies = {p \in AllProcs : pstate[p] = "ZOMBIE"}
      /\ \A t \in Threads : tstate[t] \in {"READY", "RUNNING"} =>
            /\ owner[t] \in head /\ threads[owner[t]] = {t}
            /\ thread_count[owner[t]] = 1 /\ alive_count[owner[t]] = 1
  BY DEF IInv, ProcessBooks, runnable
<1>6. /\ \A t \in Threads : tstate[t] # "DEAD"
      /\ \A i \in 1 .. Len(ready_q) : ready_q[i] \in Threads /\ tstate[ready_q[i]] = "READY"
  BY <1>1, <1>2 DEF IInv, OneDeadThread, QueueSound
<1> HIDE DEF ts
<1>7. BeforeYield(ts, pstate, proc_zombies, head)
  BY <1>1, <1>2, <1>3, <1>4, <1>5, <1>6 DEF BeforeYield
<1> QED  BY <1>1, <1>2, <1>3, <1>7

\* sched_start keeps the invariant.
LEMMA StartPreserves ==
    ASSUME IInv, sched_start
    PROVE  IInv'
BY StartYields, YieldPreserves DEF IInv

\* A timer tick, whether or not it ends the quantum.
LEMMA TickPreserves ==
    ASSUME IInv, sched_tick
    PROVE  IInv'
<1>1. enabled /\ ticks' \in 0 .. QUANTUM - 1 /\ boot = "done"
  BY DEF sched_tick, IInv, TypeOK, BootState
<1>2. CASE ticks' = 0
  <2>1. /\ sched_yield(tstate, pstate, proc_zombies)
        /\ UNCHANGED <<boot, enabled, owner, ctx, head, alive_count>>
    BY <1>2 DEF sched_tick
  <2>2. BeforeYield(tstate, pstate, proc_zombies, head)
    BY <1>1, <2>1, YieldAsIs
  <2>3. alive_count' \in [AllProcs -> Int]
    BY <2>1 DEF IInv, TypeOK
  <2>4. enabled' = TRUE
    BY <1>1, <2>1 DEF IInv, TypeOK
  <2> QED  BY <1>1, <2>1, <2>2, <2>3, <2>4, YieldPreserves DEF IInv
<1>3. CASE ticks' # 0
  <2>1. UNCHANGED <<boot, enabled, ready_q, current, zombies, thrVars, procVars, cpuVars>>
    BY <1>3 DEF sched_tick
  <2>2. TypeOK'
    BY <1>1, <2>1 DEF IInv, TypeOK, thrVars, procVars, cpuVars
  <2> QED
    BY <2>1, <2>2 DEF IInv, QueueSound, OneOnCPU, SpaceOfCurrent, EntersOnOwnStack, ProcessBooks,
       ZombieAwaitsBurial, BootState, OneDeadThread, thrVars, procVars, cpuVars, runnable
<1> QED  BY <1>2, <1>3

\* sys_yield.
LEMMA SysYieldPreserves ==
    ASSUME IInv, sys_yield
    PROVE  IInv'
<1>1. /\ enabled /\ sched_yield(tstate, pstate, proc_zombies)
      /\ UNCHANGED <<boot, enabled, ticks, owner, ctx, head, alive_count>>
  BY DEF sys_yield, user_calls
<1>2. BeforeYield(tstate, pstate, proc_zombies, head)
  BY <1>1, YieldAsIs
<1>3. /\ alive_count' \in [AllProcs -> Int] /\ ticks' \in 0 .. QUANTUM - 1
      /\ boot' = "done" /\ enabled' = TRUE
  BY <1>1 DEF IInv, TypeOK, BootState
<1> QED  BY <1>1, <1>2, <1>3, YieldPreserves DEF IInv

\* sys_exit: the caller dies and takes its process along; its thread_count
\* keeps the process from being released under it.
LEMMA ExitYields ==
    ASSUME IInv, sys_exit
    PROVE  \E ts, ps, pz, hd :
             /\ BeforeYield(ts, ps, pz, hd) /\ sched_yield(ts, ps, pz) /\ head' = hd
             /\ owner' = owner /\ ctx' = ctx /\ boot' = "done" /\ enabled' = TRUE
             /\ ticks' \in 0 .. QUANTUM - 1 /\ alive_count' \in [AllProcs -> Int]
             /\ \A t \in Threads : /\ tstate[t] # "FREE" => ts[t] # "FREE"
                                   /\ ts[t] = "READY" => tstate[t] = "READY"
             /\ \A r \in AllProcs : pstate[r] \in {"ALIVE", "ZOMBIE"} => ps[r] \in {"ALIVE", "ZOMBIE"}
<1> DEFINE p == owner[current]
           ts == [tstate EXCEPT ![current] = "DEAD"]
           ps == [pstate EXCEPT ![p] = "ZOMBIE"]
           pz == proc_zombies \cup {p}
           hd == head \ {p}
<1>1. /\ enabled /\ current \in Threads
      /\ alive_count' = [alive_count EXCEPT ![p] = @ - 1]
      /\ UNCHANGED <<boot, enabled, ticks, owner, ctx>>
  BY DEF sys_exit, user_calls, is_user
<1>2. tstate[current] = "RUNNING" /\ runnable(current)
  BY <1>1 DEF IInv, OneOnCPU, runnable
<1>3. /\ p \in Procs /\ pstate[p] = "ALIVE" /\ p \in head
      /\ threads[p] = {current} /\ thread_count[p] = 1 /\ alive_count[p] = 1
  BY <1>1, <1>2, Standing DEF IInv, ProcessBooks
<1>4. /\ tstate \in [AllThreads -> ThreadStates] /\ pstate \in [AllProcs -> ProcStates]
      /\ ticks \in 0 .. QUANTUM - 1 /\ alive_count \in [AllProcs -> Int]
      /\ zombies \subseteq Threads /\ ready_q \in Seq(Threads)
  BY DEF IInv, TypeOK
<1>5. /\ alive_count' \in [AllProcs -> Int] /\ alive_count'[p] = 0
      /\ \A r \in AllProcs \ {p} : alive_count'[r] = alive_count[r]
  BY <1>1, <1>3, <1>4
<1>6. last_thread(p)
  BY <1>3, <1>5 DEF last_thread
<1>7. head' = hd /\ sched_yield(ts, ps, pz)
  BY <1>6 DEF sys_exit
<1>8. /\ ts \in [AllThreads -> ThreadStates] /\ ts[current] = "DEAD"
      /\ \A t \in AllThreads \ {current} : ts[t] = tstate[t]
  BY <1>1, <1>4 DEF ThreadStates
<1>9. /\ ps \in [AllProcs -> ProcStates] /\ ps[p] = "ZOMBIE"
      /\ \A r \in AllProcs \ {p} : ps[r] = pstate[r]
  BY <1>3, <1>4 DEF ProcStates
<1>10. /\ hd = {r \in AllProcs : ps[r] = "ALIVE"}
       /\ pz = {r \in AllProcs : ps[r] = "ZOMBIE"}
  BY <1>3, <1>9 DEF IInv, ProcessBooks
<1>11. /\ boot = "done" /\ enabled = TRUE /\ pstate[KProc] = "ALIVE"
       /\ threads[KProc] = {Idle} /\ owner[Idle] = KProc
       /\ tstate[Idle] \in {"READY", "RUNNING"} /\ current # Bootstrap
  BY <1>1 DEF IInv, BootState, TypeOK
<1>12. /\ \A t \in Threads : tstate[t] = "DEAD" <=> t \in zombies
       /\ current \notin zombies
       /\ \A t \in Threads : tstate[t] = "RUNNING" => t = current
       /\ \A i \in 1 .. Len(ready_q) : ready_q[i] \in Threads /\ tstate[ready_q[i]] = "READY"
  BY <1>1, <1>2, <1>4 DEF IInv, OneDeadThread, OneOnCPU, QueueSound
<1>13. ASSUME NEW t \in Threads, ts[t] \in {"READY", "RUNNING"}
       PROVE  /\ owner[t] \in hd /\ threads[owner[t]] = {t}
              /\ thread_count[owner[t]] = 1 /\ alive_count'[owner[t]] = 1
  <2>1. t # current /\ runnable(t)
    BY <1>8, <1>13 DEF runnable
  <2>2. /\ owner[t] \in head /\ threads[owner[t]] = {t}
        /\ thread_count[owner[t]] = 1 /\ alive_count[owner[t]] = 1 /\ owner[t] \in AllProcs
    BY <2>1, Standing DEF IInv, ProcessBooks
  <2>3. owner[t] # p
    BY <2>1, <2>2, <1>3
  <2> QED  BY <2>2, <2>3, <1>5
<1>14. \A r \in pz :
          \/ \E t \in zombies : owner[t] = r /\ threads[r] = {t} /\ thread_count[r] = 1
          \/ /\ ts[current] = "DEAD" /\ owner[current] = r
             /\ threads[r] = {current} /\ thread_count[r] = 1
  BY <1>3, <1>8 DEF IInv, ZombieAwaitsBurial
<1>15. /\ active_space = owner[current]
       /\ tss_rsp0 = current /\ syscall_kstack = current
  BY <1>1 DEF IInv, SpaceOfCurrent, EntersOnOwnStack, is_user
<1>16. \A r \in AllProcs : ps[r] \in {"ALIVE", "ZOMBIE"} => pstate[r] # "DATA"
  BY <1>3, <1>9
<1>17. KProc \notin pz
  BY <1>3 DEF IInv, TypeOK
<1> HIDE DEF ts, ps, pz, hd
<1>t. /\ \A t \in Threads \ {current} : ts[t] = "DEAD" <=> t \in zombies
      /\ \A t \in Threads : ts[t] = "RUNNING" => t = current
      /\ \A i \in 1 .. Len(ready_q) : ts[ready_q[i]] = "READY"
      /\ ts[Idle] \in {"READY", "RUNNING"} /\ ps[KProc] = "ALIVE"
      /\ current # Idle /\ current # Bootstrap
  BY <1>1, <1>2, <1>3, <1>8, <1>9, <1>11, <1>12
<1>18. BeforeYield(ts, ps, pz, hd)
  BY <1>1, <1>t, <1>3, <1>8, <1>9, <1>10, <1>11, <1>12, <1>13, <1>14, <1>15, <1>16, <1>17
     DEF BeforeYield
<1>19. /\ \A t \in Threads : /\ tstate[t] # "FREE" => ts[t] # "FREE"
                             /\ ts[t] = "READY" => tstate[t] = "READY"
       /\ \A r \in AllProcs : pstate[r] \in {"ALIVE", "ZOMBIE"} => ps[r] \in {"ALIVE", "ZOMBIE"}
  BY <1>3, <1>8, <1>9
<1>20. /\ owner' = owner /\ ctx' = ctx /\ boot' = "done" /\ enabled' = TRUE
       /\ ticks' \in 0 .. QUANTUM - 1
  BY <1>1, <1>4, <1>11
<1> QED  BY <1>5, <1>7, <1>18, <1>19, <1>20

\* sys_exit keeps the invariant: thread_exit, then sched_yield.
LEMMA ExitPreserves ==
    ASSUME IInv, sys_exit
    PROVE  IInv'
BY ExitYields, YieldPreserves DEF IInv

(***************************************************************************)
(* The other actions.                                                      *)
(***************************************************************************)

\* sys_fork: the child takes a free thread slot and a slot no process uses.
LEMMA ForkPreserves ==
    ASSUME IInv, NEW p \in Procs, NEW t \in Threads, sys_fork(p, t)
    PROVE  IInv'
<1>1. /\ enabled /\ current \in Threads
      /\ pstate[p] \in {"FREE", "DATA"} /\ tstate[t] = "FREE"
      /\ pstate' = [pstate EXCEPT ![p] = "ALIVE"] /\ head' = head \cup {p}
      /\ owner' = [owner EXCEPT ![t] = p] /\ ctx' = [ctx EXCEPT ![t] = "fork_entry"]
      /\ threads' = [threads EXCEPT ![p] = {t}]
      /\ thread_count' = [thread_count EXCEPT ![p] = 1]
      /\ alive_count' = [alive_count EXCEPT ![p] = 1]
      /\ tstate' = [tstate EXCEPT ![t] = "READY"]
      /\ ready_q' = q_push(ready_q, t)
      /\ boot' = boot /\ enabled' = enabled /\ ticks' = ticks /\ current' = current
      /\ zombies' = zombies /\ proc_zombies' = proc_zombies
      /\ active_space' = active_space /\ tss_rsp0' = tss_rsp0
      /\ syscall_kstack' = syscall_kstack /\ wild' = wild
  BY DEF sys_fork, user_calls, is_user, proc_alloc, thread_link, cpuVars
<1>2. TypeOK
  BY DEF IInv
<1>3. /\ t # current /\ t \notin zombies
      /\ \A i \in 1 .. Len(ready_q) : ready_q[i] # t
  BY <1>1, <1>2 DEF IInv, OneOnCPU, OneDeadThread, QueueSound
<1>4. /\ p \notin head /\ p \notin proc_zombies
      /\ \A u \in Threads : runnable(u) => owner[u] # p /\ u # t
      /\ owner[current] # p
  BY <1>1, Standing DEF IInv, ProcessBooks, runnable, OneOnCPU
<1>5. /\ q_push(ready_q, t) \in Seq(Threads) /\ Distinct(q_push(ready_q, t))
      /\ \A i \in 1 .. Len(q_push(ready_q, t)) :
            \/ q_push(ready_q, t)[i] = t
            \/ \E j \in 1 .. Len(ready_q) : q_push(ready_q, t)[i] = ready_q[j]
  BY <1>2, <1>3, PushDistinct DEF IInv, TypeOK, QueueSound, Distinct
<1>6. TypeOK'
  BY <1>1, <1>2, <1>5 DEF TypeOK, ThreadStates, ProcStates, Contexts
<1>7. \A u \in AllThreads \ {t} : tstate'[u] = tstate[u] /\ owner'[u] = owner[u]
  BY <1>1, <1>2 DEF TypeOK
<1>8. tstate'[t] = "READY" /\ owner'[t] = p
  BY <1>1, <1>2 DEF TypeOK
<1>9. /\ \A r \in AllProcs \ {p} : /\ pstate'[r] = pstate[r] /\ threads'[r] = threads[r]
                                  /\ thread_count'[r] = thread_count[r]
                                  /\ alive_count'[r] = alive_count[r]
      /\ pstate'[p] = "ALIVE" /\ threads'[p] = {t} /\ thread_count'[p] = 1
      /\ alive_count'[p] = 1
  BY <1>1, <1>2 DEF TypeOK
<1>10. QueueSound'
  <2>1. \A i \in 1 .. Len(ready_q') : tstate'[ready_q'[i]] = "READY"
    <3> SUFFICES ASSUME NEW i \in 1 .. Len(ready_q') PROVE tstate'[ready_q'[i]] = "READY"
      OBVIOUS
    <3>1. CASE ready_q'[i] = t
      BY <3>1, <1>8
    <3>2. CASE ready_q'[i] # t
      <4>1. PICK j \in 1 .. Len(ready_q) : ready_q'[i] = ready_q[j]
        BY <3>2, <1>1, <1>5
      <4>2. ready_q[j] \in Threads /\ tstate[ready_q[j]] = "READY"
        BY <1>2 DEF TypeOK, IInv, QueueSound
      <4> QED  BY <4>1, <4>2, <3>2, <1>7
    <3> QED  BY <3>1, <3>2
  <2> QED  BY <2>1, <1>1, <1>5 DEF QueueSound, Distinct
<1>11. OneOnCPU'
  BY <1>1, <1>3, <1>7, <1>8, Standing DEF IInv, OneOnCPU
<1>12. SpaceOfCurrent' /\ EntersOnOwnStack'
  BY <1>1, <1>2, <1>3, <1>4, <1>7, <1>9 DEF IInv, SpaceOfCurrent, EntersOnOwnStack, TypeOK
<1>13. ProcessBooks'
  <2>1. /\ head' = {r \in AllProcs : pstate'[r] = "ALIVE"}
        /\ proc_zombies' = {r \in AllProcs : pstate'[r] = "ZOMBIE"}
    BY <1>1, <1>4, <1>9 DEF IInv, ProcessBooks
  <2>2. ASSUME NEW u \in Threads, runnable(u)'
        PROVE  /\ owner'[u] \in head' /\ threads'[owner'[u]] = {u}
               /\ thread_count'[owner'[u]] = 1 /\ alive_count'[owner'[u]] = 1
    <3>1. CASE u = t
      BY <3>1, <1>1, <1>8, <1>9
    <3>2. CASE u # t
      <4>1. runnable(u) /\ owner'[u] = owner[u]
        BY <3>2, <2>2, <1>7 DEF runnable
      <4>2. owner[u] \in AllProcs \ {p}
        BY <4>1, <1>4, Standing
      <4> QED  BY <4>1, <4>2, <1>1, <1>9 DEF IInv, ProcessBooks
    <3> QED  BY <3>1, <3>2
  <2> QED  BY <2>1, <2>2 DEF ProcessBooks
<1>14. ZombieAwaitsBurial'
  <2> SUFFICES ASSUME NEW r \in proc_zombies'
               PROVE  \E z \in zombies' : /\ zombies' = {z} /\ owner'[z] = r
                                          /\ threads'[r] = {z} /\ thread_count'[r] = 1
    BY DEF ZombieAwaitsBurial
  <2>1. PICK z \in zombies : /\ zombies = {z} /\ owner[z] = r
                             /\ threads[r] = {z} /\ thread_count[r] = 1
    BY <1>1 DEF IInv, ZombieAwaitsBurial
  <2>2. r \in AllProcs \ {p} /\ z \in AllThreads \ {t}
    BY <1>1, <1>2, <1>3, <1>4 DEF TypeOK
  <2> QED  BY <2>1, <2>2, <1>1, <1>7, <1>9
<1>15. BootState'
  BY <1>1, <1>7, <1>9 DEF IInv, BootState
<1>16. OneDeadThread'
  BY <1>1, <1>2, <1>3, <1>7, <1>8 DEF IInv, OneDeadThread, TypeOK
<1> QED  BY <1>6, <1>10, <1>11, <1>12, <1>13, <1>14, <1>15, <1>16 DEF IInv

\* A step that changes only the state of processes that are not live, and the
\* list of zombie processes with it.
LEMMA DeadProcPreserves ==
    ASSUME IInv, NEW p \in Procs, pstate[p] # "ALIVE", enabled,
           NEW s \in {"FREE", "DATA"}, pstate' = [pstate EXCEPT ![p] = s],
           proc_zombies' = proc_zombies \ {p},
           UNCHANGED <<boot, schedVars, thrVars, head, threads, thread_count,
                       alive_count, cpuVars>>
    PROVE  IInv'
<1> USE DEF schedVars, thrVars, cpuVars
<1>1. TypeOK /\ TypeOK'
  BY DEF IInv, TypeOK, ProcStates
<1>2. /\ \A r \in AllProcs \ {p} : pstate'[r] = pstate[r]
      /\ pstate'[p] = s
  BY <1>1 DEF TypeOK
<1>3. QueueSound' /\ OneOnCPU' /\ EntersOnOwnStack' /\ OneDeadThread'
  BY DEF IInv, QueueSound, OneOnCPU, EntersOnOwnStack, OneDeadThread
<1>4. SpaceOfCurrent'
  BY <1>1, <1>2 DEF IInv, SpaceOfCurrent, TypeOK
<1>5. ProcessBooks'
  <2>1. /\ head' = {r \in AllProcs : pstate'[r] = "ALIVE"}
        /\ proc_zombies' = {r \in AllProcs : pstate'[r] = "ZOMBIE"}
    BY <1>1, <1>2 DEF IInv, ProcessBooks
  <2> QED  BY <2>1 DEF IInv, ProcessBooks, runnable
<1>6. ZombieAwaitsBurial'
  BY DEF IInv, ZombieAwaitsBurial
<1>7. BootState'
  BY <1>2 DEF IInv, BootState
<1> QED  BY <1>1, <1>3, <1>4, <1>5, <1>6, <1>7 DEF IInv

\* sys_waitpid and a file write only touch processes that are gone.
LEMMA WaitpidPreserves ==
    ASSUME IInv, NEW p \in Procs, sys_waitpid(p) \/ vfs_write(p)
    PROVE  IInv'
<1>1. CASE sys_waitpid(p)
  <2>1. pstate[p] # "ALIVE" /\ enabled
    BY <1>1 DEF sys_waitpid, user_calls, IInv, ProcessBooks
  <2> QED  BY <1>1, <2>1, DeadProcPreserves DEF sys_waitpid
<1>2. CASE vfs_write(p)
  <2>1. pstate[p] = "FREE" /\ enabled /\ p \notin proc_zombies
    BY <1>2 DEF vfs_write, user_calls, IInv, ProcessBooks
  <2>2. proc_zombies \ {p} = proc_zombies
    BY <2>1
  <2> QED  BY <1>2, <2>1, <2>2, DeadProcPreserves DEF vfs_write
<1> QED  BY <1>1, <1>2

\* fork_child_return and stuttering change nothing the invariant speaks of.
LEMMA ReturnPreserves ==
    ASSUME IInv, fork_child_return \/ UNCHANGED vars
    PROVE  IInv'
<1>1. UNCHANGED <<boot, schedVars, tstate, owner, procVars, cpuVars>>
  BY DEF fork_child_return, vars, thrVars
<1>2. ctx' \in [AllThreads -> Contexts]
  BY DEF IInv, TypeOK, fork_child_return, fork_return_rest, vars, thrVars, Contexts
<1>3. TypeOK'
  BY <1>1, <1>2 DEF IInv, TypeOK, schedVars, procVars, cpuVars
<1> QED
  BY <1>1, <1>3 DEF IInv, QueueSound, OneOnCPU, SpaceOfCurrent, EntersOnOwnStack, ProcessBooks,
     ZombieAwaitsBurial, BootState, OneDeadThread, schedVars, procVars, cpuVars, runnable

\* Before the scheduler is enabled nothing runs but _start() itself.
LEMMA BootIdlePreserves ==
    ASSUME IInv, boot_idle
    PROVE  IInv'
<1> USE DEF cpuVars
<1>1. TypeOK /\ boot = "idle" /\ ~enabled /\ ready_q = << >> /\ current = Bootstrap
      /\ zombies = {} /\ proc_zombies = {} /\ \A p \in AllProcs : pstate[p] = "FREE"
      /\ \A t \in Threads : tstate[t] = "FREE"
  BY DEF IInv, BootState, boot_idle
<1>2. ready_q' = << >>
  <2>1. q_push(ready_q, Idle) = << Idle >>
    BY <1>1 DEF q_push
  <2>2. sched_remove(<< Idle >>, Idle) = << >>
    <3> DEFINE at == {i \in 1 .. Len(<< Idle >>) : << Idle >>[i] = Idle}
               i  == CHOOSE k \in at : \A m \in at : k <= m
    <3>1. at = {1}
      OBVIOUS
    <3>2. i = 1
      BY <3>1
    <3>3. SubSeq(<< Idle >>, 1, 0) = << >> /\ SubSeq(<< Idle >>, 2, 1) = << >>
      OBVIOUS
    <3> QED  BY <3>1, <3>2, <3>3 DEF sched_remove
  <2> QED  BY <2>1, <2>2 DEF boot_idle
<1>3. /\ head' = head \cup {KProc} /\ pstate' = [pstate EXCEPT ![KProc] = "ALIVE"]
      /\ owner' = [owner EXCEPT ![Idle] = KProc] /\ ctx' = [ctx EXCEPT ![Idle] = "kernel"]
      /\ threads' = [threads EXCEPT ![KProc] = {Idle}]
      /\ thread_count' = [thread_count EXCEPT ![KProc] = 1]
      /\ alive_count' = [alive_count EXCEPT ![KProc] = 1]
      /\ tstate' = [tstate EXCEPT ![Idle] = "READY"]
      /\ UNCHANGED <<enabled, ticks, current, zombies, proc_zombies, cpuVars>>
      /\ boot' = "load"
  BY DEF boot_idle, proc_alloc, thread_link
<1>4. TypeOK'
  BY <1>1, <1>2, <1>3 DEF TypeOK, ThreadStates, ProcStates, Contexts
<1>5. /\ \A t \in Threads : tstate'[t] = "FREE"
      /\ tstate'[Idle] = "READY" /\ owner'[Idle] = KProc
      /\ pstate'[KProc] = "ALIVE" /\ threads'[KProc] = {Idle}
      /\ \A p \in Procs : pstate'[p] = "FREE"
  BY <1>1, <1>3 DEF TypeOK
<1>6. head = {}
  BY <1>1 DEF IInv, ProcessBooks
<1>7. ProcessBooks'
  BY <1>1, <1>3, <1>5, <1>6 DEF ProcessBooks, runnable
<1>8. BootState'
  BY <1>1, <1>2, <1>3, <1>5, <1>6 DEF BootState
<1>9. QueueSound' /\ OneOnCPU' /\ SpaceOfCurrent' /\ EntersOnOwnStack'
      /\ ZombieAwaitsBurial' /\ OneDeadThread'
  BY <1>1, <1>2, <1>3, <1>5 DEF QueueSound, OneOnCPU, SpaceOfCurrent, EntersOnOwnStack,
     ZombieAwaitsBurial, OneDeadThread
<1> QED  BY <1>4, <1>7, <1>8, <1>9 DEF IInv

\* elf_load makes the process of init, or gives up before or after it has.
LEMMA ElfPreserves ==
    ASSUME IInv, NEW p \in AllProcs,
           user_skip \/ (p # KProc /\ (elf_create(p) \/ process_destroy(p)))
    PROVE  IInv'
<1> USE DEF schedVars, thrVars, cpuVars, procVars
<1>1. /\ TypeOK /\ boot \in {"load", "segments"} /\ ~enabled /\ ready_q = << >>
      /\ current = Bootstrap /\ zombies = {} /\ proc_zombies = {}
      /\ \A t \in Threads : tstate[t] = "FREE"
      /\ pstate[KProc] = "ALIVE" /\ threads[KProc] = {Idle}
      /\ owner[Idle] = KProc /\ tstate[Idle] \in {"READY", "RUNNING"}
  BY DEF IInv, BootState, user_skip, elf_create, process_destroy
<1>2. /\ UNCHANGED <<schedVars, thrVars, proc_zombies, cpuVars>>
      /\ boot' \in {"segments", "start"}
  BY DEF user_skip, elf_create, process_destroy
<1>3. TypeOK'
  <2>1. /\ pstate' \in [AllProcs -> ProcStates] /\ head' \subseteq AllProcs
        /\ threads' \in [AllProcs -> SUBSET (Threads \cup {Idle})]
        /\ thread_count' \in [AllProcs -> Int] /\ alive_count' \in [AllProcs -> Int]
    <3>1. CASE user_skip
      BY <1>1, <3>1 DEF user_skip, TypeOK
    <3>2. CASE elf_create(p)
      BY <1>1, <3>2 DEF elf_create, proc_alloc, TypeOK, ProcStates
    <3>3. CASE process_destroy(p)
      BY <1>1, <3>3 DEF process_destroy, TypeOK, ProcStates
    <3> QED  BY <3>1, <3>2, <3>3
  <2> QED  BY <1>1, <1>2, <2>1 DEF TypeOK
<1>4. head = {r \in AllProcs : pstate[r] = "ALIVE"}
      /\ proc_zombies = {r \in AllProcs : pstate[r] = "ZOMBIE"}
  BY DEF IInv, ProcessBooks
<1>5. /\ head' = {r \in AllProcs : pstate'[r] = "ALIVE"}
      /\ proc_zombies' = {r \in AllProcs : pstate'[r] = "ZOMBIE"}
      /\ pstate'[KProc] = "ALIVE" /\ threads'[KProc] = {Idle}
  <2>1. CASE user_skip
    BY <2>1, <1>1, <1>4 DEF user_skip
  <2>2. CASE elf_create(p)
    BY <2>2, <1>1, <1>4 DEF elf_create, proc_alloc, TypeOK, ProcStates
  <2>3. CASE process_destroy(p)
    BY <2>3, <1>1, <1>4 DEF process_destroy, TypeOK, ProcStates
  <2> QED  BY <2>1, <2>2, <2>3
<1>6. ProcessBooks'
  BY <1>1, <1>2, <1>5 DEF ProcessBooks, runnable
<1>7. boot' = "segments" => \A r \in head' \ {KProc} :
         threads'[r] = {} /\ thread_count'[r] = 0 /\ alive_count'[r] = 0
  <2> SUFFICES ASSUME boot' = "segments", NEW r \in head' \ {KProc}
               PROVE  threads'[r] = {} /\ thread_count'[r] = 0 /\ alive_count'[r] = 0
    OBVIOUS
  <2>1. elf_create(p)
    BY DEF user_skip, process_destroy
  <2>2. r = p
    BY <2>1 DEF elf_create, proc_alloc, IInv, BootState
  <2> QED  BY <2>1, <2>2, <1>1 DEF elf_create, TypeOK
<1>8. BootState'
  BY <1>1, <1>2, <1>5, <1>7 DEF BootState
<1>9. QueueSound' /\ OneOnCPU' /\ SpaceOfCurrent' /\ EntersOnOwnStack'
      /\ ZombieAwaitsBurial' /\ OneDeadThread'
  BY <1>1, <1>2 DEF QueueSound, OneOnCPU, SpaceOfCurrent, EntersOnOwnStack,
     ZombieAwaitsBurial, OneDeadThread
<1> QED  BY <1>3, <1>6, <1>8, <1>9 DEF IInv

\* elf_load hands the thread of init to the scheduler.
LEMMA InitThreadPreserves ==
    ASSUME IInv, NEW p \in Procs, NEW t \in Threads, thread_create_user(t, p)
    PROVE  IInv'
<1> USE DEF cpuVars
<1>1. /\ TypeOK /\ boot = "segments" /\ ~enabled /\ ready_q = << >>
      /\ current = Bootstrap /\ zombies = {} /\ proc_zombies = {}
      /\ \A u \in Threads : tstate[u] = "FREE"
      /\ pstate[KProc] = "ALIVE" /\ threads[KProc] = {Idle}
      /\ owner[Idle] = KProc /\ tstate[Idle] \in {"READY", "RUNNING"}
      /\ p \in head \ {KProc} /\ threads[p] = {} /\ thread_count[p] = 0 /\ alive_count[p] = 0
  BY DEF IInv, BootState, thread_create_user
<1>2. ready_q' = << t >>
  BY <1>1 DEF thread_create_user, q_push
<1>3. /\ owner' = [owner EXCEPT ![t] = p] /\ ctx' = [ctx EXCEPT ![t] = "user"]
      /\ threads' = [threads EXCEPT ![p] = @ \cup {t}]
      /\ thread_count' = [thread_count EXCEPT ![p] = @ + 1]
      /\ alive_count' = [alive_count EXCEPT ![p] = @ + 1]
      /\ tstate' = [tstate EXCEPT ![t] = "READY"]
      /\ UNCHANGED <<enabled, ticks, current, zombies, pstate, head, proc_zombies, cpuVars>>
      /\ boot' = "start"
  BY DEF thread_create_user, thread_link
<1>4. TypeOK'
  BY <1>1, <1>2, <1>3 DEF TypeOK, ThreadStates, Contexts
<1>5. /\ tstate'[t] = "READY" /\ \A u \in Threads \ {t} : tstate'[u] = "FREE"
      /\ owner'[t] = p /\ threads'[p] = {t} /\ thread_count'[p] = 1 /\ alive_count'[p] = 1
      /\ tstate'[Idle] \in {"READY", "RUNNING"} /\ owner'[Idle] = KProc
      /\ threads'[KProc] = {Idle}
  BY <1>1, <1>3 DEF TypeOK
<1>6. ProcessBooks'
  <2>1. \A u \in Threads : runnable(u)' => u = t
    BY <1>5 DEF runnable
  <2> QED  BY <2>1, <1>1, <1>3, <1>5 DEF IInv, ProcessBooks
<1>7. BootState'
  BY <1>1, <1>3, <1>5 DEF BootState
<1>8. QueueSound' /\ OneOnCPU' /\ SpaceOfCurrent' /\ EntersOnOwnStack'
      /\ ZombieAwaitsBurial' /\ OneDeadThread'
  BY <1>1, <1>2, <1>3, <1>5 DEF QueueSound, OneOnCPU, SpaceOfCurrent, EntersOnOwnStack,
     ZombieAwaitsBurial, OneDeadThread
<1> QED  BY <1>4, <1>6, <1>7, <1>8 DEF IInv

\* The state after process_init() and sched_init().
LEMMA InitIInv == Init => IInv
<1> SUFFICES ASSUME Init PROVE IInv
  OBVIOUS
<1>1. TypeOK
  <2>1. tstate \in [AllThreads -> ThreadStates] /\ ctx \in [AllThreads -> Contexts]
    BY DEF Init, ThreadStates, Contexts
  <2>2. /\ ready_q \in Seq(Threads) /\ ticks \in 0 .. QUANTUM - 1
        /\ boot \in {"idle", "load", "segments", "start", "done"}
    BY DEF Init
  <2>3. /\ owner \in [AllThreads -> AllProcs \cup {NULL}] /\ pstate \in [AllProcs -> ProcStates]
        /\ threads \in [AllProcs -> SUBSET (Threads \cup {Idle})]
        /\ thread_count \in [AllProcs -> Int] /\ alive_count \in [AllProcs -> Int]
    BY DEF Init, ProcStates
  <2> QED  BY <2>1, <2>2, <2>3 DEF Init, TypeOK
<1>2. BootState /\ OneDeadThread /\ ProcessBooks
  BY DEF Init, BootState, OneDeadThread, ProcessBooks, runnable
<1>3. QueueSound /\ OneOnCPU /\ SpaceOfCurrent /\ EntersOnOwnStack /\ ZombieAwaitsBurial
  BY DEF Init, QueueSound, OneOnCPU, SpaceOfCurrent, EntersOnOwnStack, ZombieAwaitsBurial
<1> QED  BY <1>1, <1>2, <1>3 DEF IInv

\* Every step keeps the inductive invariant.
LEMMA NextIInv == IInv /\ [Next]_vars => IInv'
<1> SUFFICES ASSUME IInv, [Next]_vars PROVE IInv'
  OBVIOUS
<1>1. CASE boot_idle
  BY <1>1, BootIdlePreserves
<1>2. ASSUME NEW p \in Procs, elf_create(p) \/ process_destroy(p)
      PROVE  IInv'
  BY <1>2, ElfPreserves
<1>3. CASE user_skip
  <2>1. KProc \in AllProcs
    OBVIOUS
  <2> QED  BY <1>3, <2>1, ElfPreserves
<1>4. ASSUME NEW p \in Procs, NEW t \in Threads, thread_create_user(t, p)
      PROVE  IInv'
  BY <1>4, InitThreadPreserves
<1>5. CASE sched_start
  BY <1>5, StartPreserves
<1>6. CASE sched_tick
  BY <1>6, TickPreserves
<1>7. CASE sys_yield \/ sys_exit
  BY <1>7, SysYieldPreserves, ExitPreserves
<1>8. ASSUME NEW p \in Procs, sys_waitpid(p) \/ vfs_write(p)
      PROVE  IInv'
  BY <1>8, WaitpidPreserves
<1>9. ASSUME NEW p \in Procs, NEW t \in Threads, sys_fork(p, t)
      PROVE  IInv'
  BY <1>9, ForkPreserves
<1>10. CASE fork_child_return \/ gone_wild \/ UNCHANGED vars
  BY <1>10, ReturnPreserves DEF gone_wild
<1> QED
  BY <1>1, <1>2, <1>3, <1>4, <1>5, <1>6, <1>7, <1>8, <1>9, <1>10 DEF Next, Boot, Syscall

(***************************************************************************)
(* What a step gives back.                                                 *)
(***************************************************************************)

\* sched_yield frees neither the thread it is called on nor its process.
LEMMA YieldReleases ==
    ASSUME TypeOK, OneDeadThread, enabled,
           NEW ts, NEW ps, NEW pz, NEW hd,
           BeforeYield(ts, ps, pz, hd), sched_yield(ts, ps, pz)
    PROVE  /\ ts[current] # "FREE" => tstate'[current] # "FREE"
           /\ ps[active_space] \in {"ALIVE", "ZOMBIE"} => pstate'[active_space] # "FREE"
<1>1. /\ current \in AllThreads /\ current \notin zombies /\ active_space = owner[current]
      /\ active_space \in AllProcs /\ zombies \subseteq Threads
  BY DEF BeforeYield, TypeOK
<1>2. tstate'[current] # "FREE"
  <2>1. reaped(ts) \in [AllThreads -> ThreadStates] /\ reaped(ts)[current] = ts[current]
    BY <1>1 DEF reaped, BeforeYield, ThreadStates
  <2>2. ts[current] # "FREE"
    BY DEF BeforeYield
  <2>3. CASE yield_stays(ts)
    BY <2>1, <2>2, <2>3 DEF yield_stays
  <2>4. CASE yield_switches(ts)
    BY <1>1, <2>1, <2>2, <2>4 DEF yield_switches, requeues, BeforeYield
  <2> QED  BY <2>3, <2>4 DEF sched_yield
<1>3. ASSUME ps[active_space] \in {"ALIVE", "ZOMBIE"}, pstate'[active_space] = "FREE"
      PROVE  FALSE
  <2>0. PICK off : reap_zombies(off)
    BY DEF sched_yield, yield_stays, yield_switches
  <2>1. active_space \in pz /\ thread_count'[active_space] = 0
    BY <1>1, <1>3 DEF sched_yield, process_reap_zombies, reapable
  <2>2. ps[active_space] = "ZOMBIE" /\ active_space # KProc
    BY <2>1 DEF BeforeYield
  <2>3. ts[current] = "DEAD"
    <3>1. current \in Threads
      BY <1>1, <2>2 DEF BeforeYield
    <3>2. ts[current] # "RUNNING"
      BY <3>1, <2>2, <1>1 DEF BeforeYield
    <3> QED  BY <3>1, <3>2 DEF BeforeYield
  <2>4. threads[active_space] = {current} /\ thread_count[active_space] = 1
    BY <1>1, <2>1, <2>3 DEF BeforeYield
  <2>5. unlinked(active_space) = {}
    BY <2>4, <1>1 DEF unlinked
  <2>6. thread_count'[active_space] = 1
    BY <2>0, <2>4, <2>5, <1>1, ReapEffect
  <2> QED  BY <2>1, <2>6
<1> QED  BY <1>2, <1>3

\* No step frees the stack or the page tables the CPU is using.
LEMMA NextReleases ==
    ASSUME IInv, [Next]_vars
    PROVE  /\ \A t \in Threads : tstate[t] # "FREE" /\ tstate'[t] = "FREE" => t # current
           /\ \A p \in Procs :
                 enabled /\ pstate[p] \in {"ALIVE", "ZOMBIE"} /\ pstate'[p] = "FREE"
                    => p # active_space
<1> DEFINE Goal ==
      /\ \A t \in Threads : tstate[t] # "FREE" /\ tstate'[t] = "FREE" => t # current
      /\ \A p \in Procs :
            enabled /\ pstate[p] \in {"ALIVE", "ZOMBIE"} /\ pstate'[p] = "FREE"
               => p # active_space
<1> USE DEF schedVars, thrVars, procVars, cpuVars
<1>1. TypeOK /\ OneDeadThread /\ (~enabled => current = Bootstrap)
  BY DEF IInv, BootState
<1>2. CASE boot_idle \/ user_skip \/ sched_start
  BY <1>1, <1>2 DEF boot_idle, user_skip, sched_start, IInv, BootState, TypeOK
<1>3. ASSUME NEW p \in Procs, elf_create(p) \/ process_destroy(p)
      PROVE  Goal
  BY <1>1, <1>3 DEF elf_create, process_destroy, IInv, BootState
<1>4. ASSUME NEW p \in Procs, NEW t \in Threads, thread_create_user(t, p) \/ sys_fork(p, t)
      PROVE  Goal
  BY <1>1, <1>4 DEF thread_create_user, sys_fork, proc_alloc, TypeOK
<1>5. ASSUME enabled, alive_count' = alive_count, sched_yield(tstate, pstate, proc_zombies)
      PROVE  Goal
  <2>1. BeforeYield(tstate, pstate, proc_zombies, head)
    BY <1>5, YieldAsIs
  <2> QED  BY <1>1, <1>5, <2>1, YieldReleases
<1>6. CASE sys_yield \/ sched_tick
  BY <1>5, <1>6 DEF sys_yield, user_calls, sched_tick
<1>7. CASE sys_exit
  <2>1. enabled
    BY <1>7 DEF sys_exit, user_calls
  <2>2. PICK ts, ps, pz, hd :
          /\ BeforeYield(ts, ps, pz, hd) /\ sched_yield(ts, ps, pz)
          /\ \A t \in Threads : tstate[t] # "FREE" => ts[t] # "FREE"
          /\ \A r \in AllProcs : pstate[r] \in {"ALIVE", "ZOMBIE"} => ps[r] \in {"ALIVE", "ZOMBIE"}
    BY <1>7, ExitYields
  <2> QED  BY <1>1, <2>1, <2>2, YieldReleases
<1>8. ASSUME NEW p \in Procs, sys_waitpid(p) \/ vfs_write(p)
      PROVE  Goal
  <2>1. /\ tstate' = tstate /\ enabled /\ pstate[active_space] = "ALIVE"
        /\ pstate' \in {[pstate EXCEPT ![p] = "FREE"], [pstate EXCEPT ![p] = "DATA"]}
        /\ pstate[p] # "ALIVE"
    BY <1>8 DEF sys_waitpid, vfs_write, user_calls, IInv, SpaceOfCurrent, ProcessBooks
  <2> QED  BY <1>1, <2>1 DEF TypeOK
<1>9. CASE fork_child_return \/ gone_wild \/ UNCHANGED vars
  BY <1>9 DEF fork_child_return, gone_wild, vars
<1> QED
  BY <1>2, <1>3, <1>4, <1>6, <1>7, <1>8, <1>9 DEF Next, Boot, Syscall

\* The invariant holds throughout.
THEOREM Invariance == Spec => []IInv
BY InitIInv, NextIInv, PTL DEF Spec

\* The variables keep their types.
THEOREM TypeCorrect == Spec => []TypeOK
<1>1. IInv => TypeOK
  BY DEF IInv
<1> QED  BY <1>1, Invariance, PTL

\* The ready queue is sound: no duplicate, no thread that runs or is freed.
THEOREM QueueIsSound == Spec => []QueueSound
<1>1. IInv => QueueSound
  BY DEF IInv
<1> QED  BY <1>1, Invariance, PTL

\* The CPU runs one thread, which is not freed under it, in the address space
\* of its process, which has not been released, and enters the kernel on its
\* own stack.
THEOREM CpuIsSound == Spec => []CpuSound
<1>1. IInv => CpuSound
  BY DEF IInv, CpuSound
<1> QED  BY <1>1, Invariance, PTL

\* Process lists and counters agree with the threads.
THEOREM BooksAreSound == Spec => []ProcessBooks
<1>1. IInv => ProcessBooks
  BY DEF IInv
<1> QED  BY <1>1, Invariance, PTL

\* The only exited process waitpid can find is that of the one dead thread
\* awaiting burial.
THEOREM ZombiesAwaitBurial == Spec => []ZombieAwaitsBurial
<1>1. IInv => ZombieAwaitsBurial
  BY DEF IInv
<1> QED  BY <1>1, Invariance, PTL

\* Nothing the CPU uses is given back: neither the stack a step starts on nor
\* the page tables it starts with.
THEOREM NothingInUseIsReleased == Spec => ReleasedIsOffCPU
<1>1. IInv /\ [Next]_vars =>
        [/\ \A t \in Threads : tstate[t] # "FREE" /\ tstate'[t] = "FREE" => t # current
         /\ \A p \in Procs :
               enabled /\ pstate[p] \in {"ALIVE", "ZOMBIE"} /\ pstate'[p] = "FREE"
                  => p # active_space]_vars
  BY NextReleases
<1> QED  BY <1>1, Invariance, PTL DEF Spec, ReleasedIsOffCPU

(***************************************************************************)
(* With room for every thread in the ready queue no thread is forgotten.   *)
(***************************************************************************)
Room == IsFiniteSet(Threads) /\ Cardinality(Threads) <= SCHED_MAX_THREADS

\* The queue still has room for a thread it does not hold.
LEMMA RoomForOne ==
    ASSUME Room, NEW q \in Seq(Threads), Distinct(q), NEW t \in Threads,
           \A i \in 1 .. Len(q) : q[i] # t
    PROVE  Len(q) < SCHED_MAX_THREADS
<1>1. q \in Injection(1 .. Len(q), Threads \ {t})
  BY DEF Distinct, Injection, IsInjective
<1>3. IsFiniteSet(Threads \ {t}) /\ Cardinality(Threads \ {t}) = Cardinality(Threads) - 1
      /\ Cardinality(Threads) \in Nat
  BY FS_RemoveElement, FS_CardinalityType DEF Room
<1>4. Cardinality(1 .. Len(q)) <= Cardinality(Threads \ {t})
  BY <1>1, <1>3, FS_Injection
<1>5. Cardinality(1 .. Len(q)) = Len(q)
  <2>1. Len(q) \in Int /\ 1 \in Int /\ Len(q) >= 0
    OBVIOUS
  <2>2. Cardinality(1 .. Len(q)) = IF 1 > Len(q) THEN 0 ELSE Len(q) - 1 + 1
    BY <2>1, FS_Interval, Zenon
  <2> QED  BY <2>1, <2>2
<1> QED  BY <1>3, <1>4, <1>5 DEF Room

Queued(q, t) == \E i \in 1 .. Len(q) : q[i] = t

\* A push loses nobody: not the threads already queued, not the new one.
LEMMA PushKeeps ==
    ASSUME Room, NEW q \in Seq(Threads), Distinct(q), NEW t \in Threads, ~Queued(q, t)
    PROVE  /\ Queued(q_push(q, t), t)
           /\ \A u : Queued(q, u) => Queued(q_push(q, t), u)
<1>1. q_push(q, t) = Append(q, t)
  BY RoomForOne DEF q_push, Queued
<1>2. Append(q, t)[Len(q) + 1] = t /\ Len(Append(q, t)) = Len(q) + 1
      /\ \A i \in 1 .. Len(q) : Append(q, t)[i] = q[i]
  OBVIOUS
<1> QED  BY <1>1, <1>2 DEF Queued

\* A pop takes out the head and nobody else.
LEMMA PopKeeps ==
    ASSUME NEW q \in Seq(Threads), q # << >>, NEW u, Queued(q, u), u # Head(q)
    PROVE  Queued(Tail(q), u)
<1>1. PICK i \in 1 .. Len(q) : q[i] = u
  BY DEF Queued
<1>2. i - 1 \in 1 .. Len(Tail(q)) /\ Tail(q)[i - 1] = u
  BY <1>1
<1> QED  BY <1>2 DEF Queued

\* sched_yield forgets nobody and leaves the idle thread only an empty queue.
LEMMA YieldKeeps ==
    ASSUME Room, TypeOK, QueueSound, OneDeadThread,
           NEW ts, NEW ps, NEW pz, NEW hd,
           BeforeYield(ts, ps, pz, hd), sched_yield(ts, ps, pz),
           \A t \in Threads : ts[t] = "READY" => Queued(ready_q, t)
    PROVE  /\ \A t \in Threads : tstate'[t] = "READY" => Queued(ready_q', t)
           /\ current' = Idle => ready_q' = << >>
<1>1. /\ ready_q \in Seq(Threads) /\ Distinct(ready_q) /\ zombies \subseteq Threads
      /\ current \in AllThreads
  BY DEF TypeOK, QueueSound, Distinct
<1>2. /\ reaped(ts) \in [AllThreads -> ThreadStates]
      /\ \A t \in Threads : reaped(ts)[t] = "READY" => ts[t] = "READY"
  BY DEF reaped, BeforeYield, ThreadStates
<1>3. CASE yield_stays(ts)
  BY <1>2, <1>3 DEF yield_stays
<1>4. CASE yield_switches(ts)
  <2> DEFINE q == IF requeues(ts) THEN q_push(ready_q, current) ELSE ready_q
             next == IF q = << >> THEN Idle ELSE Head(q)
  <2>1. /\ ready_q' = IF q = << >> THEN q ELSE Tail(q)
        /\ tstate' = [reaped(ts) EXCEPT ![current] = IF requeues(ts) THEN "READY" ELSE @,
                                        ![next] = "RUNNING"]
        /\ current' = next
    BY <1>4 DEF yield_switches
  <2>2. requeues(ts) => current \in Threads /\ ~Queued(ready_q, current)
    BY <1>1 DEF requeues, BeforeYield, Queued
  <2>3. /\ q \in Seq(Threads)
        /\ \A t \in Threads : Queued(ready_q, t) => Queued(q, t)
        /\ requeues(ts) => Queued(q, current)
    <3>1. CASE requeues(ts)
      <4>1. q = q_push(ready_q, current) /\ q \in Seq(Threads)
        BY <3>1, <2>2, <1>1 DEF q_push
      <4> QED  BY <3>1, <4>1, <2>2, <1>1, PushKeeps
    <3>2. CASE ~requeues(ts)
      BY <3>2, <1>1
    <3> QED  BY <3>1, <3>2
  <2> HIDE DEF q
  <2>4. next \in AllThreads /\ (next = Idle => q = << >>)
    BY <2>3
  <2>5. ASSUME NEW t \in Threads, tstate'[t] = "READY"
        PROVE  Queued(ready_q', t)
    <3>1. t # next
      BY <2>1, <2>4, <2>5, <1>1, <1>2
    <3>2. Queued(q, t)
      <4>1. (t = current /\ requeues(ts)) \/ reaped(ts)[t] = "READY"
        BY <2>1, <2>4, <2>5, <3>1, <1>1, <1>2
      <4> QED  BY <4>1, <2>3, <1>2
    <3>3. q # << >> /\ next = Head(q) /\ ready_q' = Tail(q)
      BY <3>2, <2>1 DEF Queued
    <3> QED  BY <3>1, <3>2, <3>3, <2>3, PopKeeps
  <2>6. current' = Idle => ready_q' = << >>
    BY <2>1, <2>4
  <2> QED  BY <2>5, <2>6
<1> QED  BY <1>3, <1>4 DEF sched_yield

Kept == NoThreadForgotten /\ IdleRunsOnEmptyQueue

\* No step loses a READY thread, or lets idle run while one waits, as long as
\* the queue has room for every thread.
LEMMA NextKeeps ==
    ASSUME Room, IInv, IInv', Kept, [Next]_vars
    PROVE  Kept'
<1> USE DEF schedVars, thrVars, procVars, cpuVars
<1> DEFINE K == /\ \A t \in Threads : tstate'[t] = "READY" => Queued(ready_q', t)
                /\ enabled' /\ current' = Idle => ready_q' = << >>
<1> SUFFICES K
  BY DEF Kept, NoThreadForgotten, IdleRunsOnEmptyQueue, Queued
<1>1. /\ TypeOK /\ QueueSound /\ OneDeadThread /\ BootState
      /\ \A t \in Threads : tstate[t] = "READY" => Queued(ready_q, t)
      /\ enabled /\ current = Idle => ready_q = << >>
  BY DEF IInv, Kept, NoThreadForgotten, IdleRunsOnEmptyQueue, Queued
<1>2. ASSUME NEW t \in Threads, ready_q' = q_push(ready_q, t), tstate[t] = "FREE",
             tstate' = [tstate EXCEPT ![t] = "READY"], current' = current, current # Idle
      PROVE  K
  <2>1. ready_q \in Seq(Threads) /\ Distinct(ready_q) /\ ~Queued(ready_q, t)
    BY <1>1, <1>2 DEF TypeOK, QueueSound, Distinct, Queued
  <2>2. Queued(ready_q', t) /\ \A u : Queued(ready_q, u) => Queued(ready_q', u)
    BY <1>2, <2>1, PushKeeps
  <2>3. \A u \in Threads : tstate'[u] = "READY" => u = t \/ tstate[u] = "READY"
    BY <1>1, <1>2 DEF TypeOK
  <2> QED  BY <1>1, <1>2, <2>2, <2>3
<1>3. ASSUME NEW p \in Procs, NEW t \in Threads, thread_create_user(t, p) \/ sys_fork(p, t)
      PROVE  K
  <2>1. /\ ready_q' = q_push(ready_q, t) /\ tstate[t] = "FREE" /\ current' = current
        /\ tstate' = [tstate EXCEPT ![t] = "READY"]
    BY <1>3 DEF thread_create_user, sys_fork, thread_link
  <2>2. current # Idle
    BY <1>1, <1>3 DEF thread_create_user, sys_fork, user_calls, is_user, BootState
  <2> QED  BY <1>2, <2>1, <2>2
<1>4. CASE boot_idle
  <2>1. \A t \in Threads : tstate'[t] # "READY"
    BY <1>1, <1>4 DEF boot_idle, BootState, TypeOK
  <2>2. ~enabled'
    BY <1>1, <1>4 DEF boot_idle, BootState
  <2> QED  BY <2>1, <2>2
<1>5. CASE UNCHANGED <<tstate, ready_q, current, enabled>>
  BY <1>1, <1>5
<1>6. ASSUME NEW p \in Procs,
             elf_create(p) \/ process_destroy(p) \/ sys_waitpid(p) \/ vfs_write(p)
      PROVE  K
  BY <1>5, <1>6 DEF elf_create, process_destroy, sys_waitpid, vfs_write
<1>7. CASE user_skip \/ fork_child_return \/ gone_wild \/ UNCHANGED vars
  BY <1>5, <1>7 DEF user_skip, fork_child_return, gone_wild, vars
<1>8. CASE sched_start
  BY <1>1, <1>8, StartYields, YieldKeeps
<1>9. CASE sys_exit
  BY <1>1, <1>9, ExitYields, YieldKeeps
<1>10. ASSUME enabled, alive_count' = alive_count, sched_yield(tstate, pstate, proc_zombies)
       PROVE  K
  <2>1. BeforeYield(tstate, pstate, proc_zombies, head)
    BY <1>10, YieldAsIs
  <2> QED  BY <1>1, <1>10, <2>1, YieldKeeps
<1>11. CASE sys_yield
  BY <1>10, <1>11 DEF sys_yield, user_calls
<1>12. CASE sched_tick
  BY <1>5, <1>10, <1>12 DEF sched_tick
<1> QED
  BY <1>3, <1>4, <1>6, <1>7, <1>8, <1>9, <1>11, <1>12 DEF Next, Boot, Syscall

\* With at most SCHED_MAX_THREADS user threads no thread that is READY is ever
\* out of the queue, and idle runs only when nothing else can.
THEOREM NobodyForgotten ==
    ASSUME IsFiniteSet(Threads), Cardinality(Threads) <= SCHED_MAX_THREADS
    PROVE  Spec => [](NoThreadForgotten /\ IdleOnlyWhenNothingElse)
<1>1. Room
  BY DEF Room
<1>2. Init => Kept
  BY DEF Init, Kept, NoThreadForgotten, IdleRunsOnEmptyQueue
<1>3. IInv /\ IInv' /\ Kept /\ [Next]_vars => Kept'
  BY <1>1, NextKeeps
<1>4. IInv /\ Kept => NoThreadForgotten /\ IdleOnlyWhenNothingElse
  BY DEF Kept, NoThreadForgotten, IdleRunsOnEmptyQueue, IdleOnlyWhenNothingElse
<1> QED  BY <1>2, <1>3, <1>4, Invariance, PTL DEF Spec
=============================================================================
