------------------------------- MODULE Kernel -------------------------------
(***************************************************************************)
(* Processes, scheduler, timers and traps of the ucore kernel (lab8) on    *)
(* its one CPU: kern/process/proc.c, kern/schedule/sched.c and             *)
(* default_sched.c, kern/trap/trap.c.                                      *)
(*                                                                         *)
(* The kernel is not preemptive: a timer interrupt taken in kernel mode    *)
(* runs its handler and returns to the interrupted code, and only a trap   *)
(* from user mode reschedules.  A system call runs with interrupts off,    *)
(* a kernel thread runs with interrupts on.  So a system call is one step  *)
(* up to its call of schedule(), its return to trap(), or its end, and     *)
(* the clock interrupt may fall between any two steps of a kernel thread.  *)
(*                                                                         *)
(* A definition named Mut... is a seeded fault of the definition it stands *)
(* before; no behaviour uses it.                                           *)
(***************************************************************************)
EXTENDS Naturals, Sequences, FiniteSets

CONSTANTS
  User,         (* slots for user processes                             *)
  KThread,      (* kernel threads init_main starts (check_sync)         *)
  Idle, Init,   (* idleproc and initproc                                *)
  NoProc,       (* the null pointer of proc->parent                     *)
  MaxProcess,   (* MAX_PROCESS                                          *)
  MaxSlice,     (* rq->max_time_slice                                   *)
  MaxSleep      (* bound: the longest argument of do_sleep              *)

Procs == User \cup KThread \cup {Idle, Init}

ASSUME KernelAssumption ==
  /\ Idle # Init
  /\ Idle \notin User \cup KThread /\ Init \notin User \cup KThread
  /\ User \cap KThread = {}
  /\ NoProc \notin Procs
  /\ IsFiniteSet(User) /\ IsFiniteSet(KThread)
  /\ MaxProcess \in Nat
  /\ MaxSlice \in Nat \ {0}
  /\ MaxSleep \in Nat

VARIABLES
  state,        (* proc->state, "unused" before do_fork and after reaping *)
  wait_state,   (* proc->wait_state: "0", "CHILD" or "TIMER"              *)
  exiting,      (* the processes whose flags hold PF_EXITING              *)
  parent,       (* proc->parent                                           *)
  pc,           (* where the process is, or where schedule() returns to   *)
  waitfor,      (* the pid do_wait is waiting for, NoProc for 0 (any)       *)
  left,         (* ticks left of the timer of do_sleep, 0 when not linked *)
  time_slice,   (* proc->time_slice                                       *)
  need_resched, (* proc->need_resched                                     *)
  rq,           (* rq->run_list, head first                               *)
  current,      (* the running process                                    *)
  in_schedule,  (* current is at a call of schedule()                     *)
  failed        (* the assertions of the kernel that have failed          *)

treeVars  == <<parent, waitfor, exiting>>
schedVars == <<time_slice, need_resched, rq>>
vars == <<state, wait_state, exiting, parent, pc, waitfor, left, time_slice,
          need_resched, rq, current, in_schedule, failed>>

States == {"unused", "RUNNABLE", "SLEEPING", "ZOMBIE"}
Places == {"unused", "user", "trapret", "waited", "slept", "kernel", "dead",
           "idle", "spawn", "do_wait", "no_child", "halted"}
Asserts == {"wakeup_zombie", "run_link_linked", "main_leftovers"}

\* The processes in proc_list, and idleproc, which nr_process counts as well.
Live == {p \in Procs : state[p] # "unused"}
nr_process == Cardinality(Live)

Children(p) == {c \in Live : parent[c] = p}
Zombies(S) == {c \in S : state[c] = "ZOMBIE"}

MutAwaitedAny(p, pid) ==
  IF pid = NoProc THEN Children(p) ELSE {c \in Live : c = pid}

\* What do_wait(pid) looks at: the child of that pid, or every child for 0,
\* which is written NoProc.
Awaited(p, pid) ==
  {c \in Children(p) : pid = NoProc \/ c = pid}

-----------------------------------------------------------------------------
(***************************************************************************)
(* The run queue (RR_enqueue, RR_dequeue, RR_pick_next) and wakeup_proc.   *)
(***************************************************************************)

Elements(q) == {q[i] : i \in 1..Len(q)}
Distinct(q) == \A i, j \in 1..Len(q) : i # j => q[i] # q[j]

\* RR_enqueue refills a time slice that is used up or too large.
Refilled(slice) ==
  IF slice = 0 \/ slice > MaxSlice THEN MaxSlice ELSE slice

RefilledAll(S) ==
  [p \in Procs |-> IF p \in S THEN Refilled(time_slice[p]) ELSE time_slice[p]]

\* The orders in which the members of a set may be appended to the run queue.
Orders(S) ==
  {s \in [1..Cardinality(S) -> S] : Distinct(s) /\ Elements(s) = S}

\* assert(proc->state != PROC_ZOMBIE) of wakeup_proc, for every member of W,
\* and assert(list_empty(&proc->run_link)) of RR_enqueue for what is queued.
FailedWakeups(st, W) ==
  {"wakeup_zombie" : p \in {w \in W : st[w] = "ZOMBIE"}}
  \cup {"run_link_linked" : p \in {w \in W : st[w] # "RUNNABLE" /\ w \in Elements(rq)}}

MutQueuedCurrent(st, W) == {p \in W : st[p] # "RUNNABLE"}

\* What wakeup_proc puts on the run queue: not the current process, which
\* schedule() queues itself if it finds it RUNNABLE.
Queued(st, W) == {p \in W : st[p] # "RUNNABLE"} \ {current}

\* wakeup_proc for every member of W, where proc->state is st and
\* proc->wait_state is ws: what is not RUNNABLE becomes so and is queued.
WakeupProcs(st, ws, W) ==
  /\ state' = [p \in Procs |-> IF p \in W THEN "RUNNABLE" ELSE st[p]]
  /\ wait_state' = [p \in Procs |->
                      IF p \in W /\ st[p] # "RUNNABLE" THEN "0" ELSE ws[p]]
  /\ \E s \in Orders(Queued(st, W)) : rq' = rq \o s
  /\ failed' = failed \cup FailedWakeups(st, W)

-----------------------------------------------------------------------------
(***************************************************************************)
(* schedule(), called from trap(), do_wait, do_sleep, do_exit, init_main   *)
(* and cpu_idle; pc[current] is where the call returns to.                 *)
(***************************************************************************)

\* The current process is at a call of schedule() that returns to `place`.
CallSchedule(place) ==
  /\ in_schedule' = TRUE
  /\ pc' = [pc EXCEPT ![current] = place]

Schedule ==
  /\ in_schedule
  /\ LET requeue == {p \in {current} \ {Idle} : state[p] = "RUNNABLE"}
         queue   == IF requeue = {} THEN rq ELSE Append(rq, current)
     IN /\ rq' = IF queue = <<>> THEN queue ELSE Tail(queue)
        /\ current' = IF queue = <<>> THEN Idle ELSE Head(queue)
        /\ time_slice' = RefilledAll(requeue)
        /\ failed' = failed \cup {"run_link_linked" : p \in requeue \cap Elements(rq)}
  /\ need_resched' = [need_resched EXCEPT ![current] = FALSE]
  /\ in_schedule' = FALSE
  /\ UNCHANGED <<state, wait_state, treeVars, pc, left>>

-----------------------------------------------------------------------------
(***************************************************************************)
(* do_fork fills a free slot with the new process, a child of the current  *)
(* one, and queues it.  It fails without effect when nr_process has        *)
(* reached MAX_PROCESS.                                                    *)
(***************************************************************************)
DoFork(p, c) ==
  /\ state[c] = "unused"
  /\ nr_process < MaxProcess
  /\ WakeupProcs(state, [wait_state EXCEPT ![p] = "0"], {c})
  /\ time_slice' = RefilledAll({c})
  /\ parent' = [parent EXCEPT ![c] = p]
  /\ UNCHANGED <<exiting, waitfor, left, need_resched, current, in_schedule>>

(***************************************************************************)
(* do_exit: the process turns zombie, wakes a parent that waits for        *)
(* children, and hands its own children to initproc, which is woken too    *)
(* when it waits and one of them is a zombie already.                      *)
(***************************************************************************)
MutWokenParent(p) == {q \in Procs : wait_state[q] = "CHILD" /\ q = parent[p]}

MutWokenInit(p) ==
  {q \in Procs : wait_state[q] = "CHILD" /\ q = Init /\ Zombies(Children(p)) # {}}

MutWokenAlways(p) == {q \in Procs : wait_state[q] = "CHILD" /\ q \in {parent[p], Init}}

WokenByExit(p) ==
  {q \in Procs :
     /\ wait_state[q] = "CHILD"
     /\ q = parent[p] \/ (q = Init /\ Zombies(Children(p)) # {})}

MutAdoptedNone(p) == parent

\* proc->parent once the children of p are those of initproc.
Adopted(p) == [c \in Procs |-> IF c \in Children(p) THEN Init ELSE parent[c]]

DoExit(p) ==
  LET st == [state EXCEPT ![p] = "ZOMBIE"]
      W  == WokenByExit(p)
  IN /\ WakeupProcs(st, wait_state, W)
     /\ time_slice' = RefilledAll(Queued(st, W))
     /\ parent' = Adopted(p)
     /\ waitfor' = [waitfor EXCEPT ![p] = NoProc]
     /\ CallSchedule("dead")
     /\ UNCHANGED <<exiting, left, need_resched, current>>

(***************************************************************************)
(* do_wait: reap a zombie among the children asked for and return 0; with  *)
(* none, sleep until a child exits and look again; with no such child,     *)
(* return -E_BAD_PROC.  A system call returns to trap(); init_main calls   *)
(* schedule() and do_wait again while it gets 0.                           *)
(***************************************************************************)
\* do_wait returns to its caller, with 0 if ok.
DoWaitReturns(p, ok) ==
  /\ in_schedule' = (p = Init /\ ok)
  /\ waitfor' = [waitfor EXCEPT ![p] = NoProc]

MutReturnLoops(p, ok) == IF p # Init THEN "trapret" ELSE "do_wait"

ReturnPlace(p, ok) ==
  IF p # Init THEN "trapret" ELSE IF ok THEN "do_wait" ELSE "no_child"

\* found: unhash_proc, remove_links, kfree; a free slot keeps the values that
\* alloc_proc gives the fields of a new process.
Reap(p, c) ==
  /\ state' = [state EXCEPT ![c] = "unused"]
  /\ parent' = [parent EXCEPT ![c] = NoProc]
  /\ exiting' = exiting \ {c}
  /\ time_slice' = [time_slice EXCEPT ![c] = 0]
  /\ pc' = [pc EXCEPT ![c] = "unused", ![p] = ReturnPlace(p, TRUE)]
  /\ DoWaitReturns(p, TRUE)
  /\ UNCHANGED <<wait_state, left, need_resched, rq, current, failed>>

SleepForChild(p, pid) ==
  /\ state' = [state EXCEPT ![p] = "SLEEPING"]
  /\ wait_state' = [wait_state EXCEPT ![p] = "CHILD"]
  /\ waitfor' = [waitfor EXCEPT ![p] = pid]
  /\ CallSchedule("waited")
  /\ UNCHANGED <<exiting, parent, schedVars, left, current, failed>>

NoSuchChild(p) ==
  /\ pc' = [pc EXCEPT ![p] = ReturnPlace(p, FALSE)]
  /\ DoWaitReturns(p, FALSE)
  /\ UNCHANGED <<state, wait_state, exiting, parent, schedVars, left, current, failed>>

DoWait(p, pid) ==
  LET kids == Awaited(p, pid)
  IN \/ \E c \in Zombies(kids) : Reap(p, c)
     \/ Zombies(kids) = {} /\ kids # {} /\ SleepForChild(p, pid)
     \/ kids = {} /\ NoSuchChild(p)

(***************************************************************************)
(* do_sleep: link a timer and sleep; when schedule() returns, by time or   *)
(* by do_kill, unlink it.  do_sleep(0) returns at once.  With interrupts   *)
(* on again before schedule(), the timer of a kernel thread may expire     *)
(* while it is still the current process.                                  *)
(***************************************************************************)
MutSleepUntimed(p, time) ==
  /\ state' = [state EXCEPT ![p] = "SLEEPING"]
  /\ wait_state' = [wait_state EXCEPT ![p] = "TIMER"]
  /\ CallSchedule("slept")
  /\ UNCHANGED <<left, treeVars, schedVars, current, failed>>

DoSleep(p, time) ==
  /\ state' = [state EXCEPT ![p] = "SLEEPING"]
  /\ wait_state' = [wait_state EXCEPT ![p] = "TIMER"]
  /\ left' = [left EXCEPT ![p] = time]
  /\ CallSchedule("slept")
  /\ UNCHANGED <<treeVars, schedVars, current, failed>>

-----------------------------------------------------------------------------
(***************************************************************************)
(* System calls and traps of a user process.                               *)
(***************************************************************************)

\* p has the CPU and is at this place of its code.
At(p, place) == current = p /\ ~in_schedule /\ pc[p] = place

SysFork(p, c) ==
  /\ At(p, "user")
  /\ c \in User
  /\ DoFork(p, c)
  /\ pc' = [pc EXCEPT ![c] = "user", ![p] = "trapret"]

SysExit(p) == At(p, "user") /\ DoExit(p)

SysWait(p, pid) == At(p, "user") /\ DoWait(p, pid)

SysYield(p) ==
  /\ At(p, "user")
  /\ need_resched' = [need_resched EXCEPT ![p] = TRUE]
  /\ pc' = [pc EXCEPT ![p] = "trapret"]
  /\ UNCHANGED <<state, wait_state, treeVars, time_slice, rq, left, current,
                 in_schedule, failed>>

SysSleep(p, time) == At(p, "user") /\ DoSleep(p, time)

\* A system call that changes nothing and returns: getpid, gettime, do_sleep(0),
\* do_fork at MAX_PROCESS, do_kill of a pid not found or killed already.
SysReturn(p) ==
  /\ At(p, "user")
  /\ pc' = [pc EXCEPT ![p] = "trapret"]
  /\ UNCHANGED <<state, wait_state, treeVars, schedVars, left, current,
                 in_schedule, failed>>

\* do_kill sets PF_EXITING and wakes its target out of an interruptible wait;
\* for a process that has the flag already it returns -E_KILLED.
MutInterruptible == {"0", "CHILD", "TIMER"}

Interruptible == {"CHILD", "TIMER"}

SysKill(p, target) ==
  LET W == {q \in {target} : wait_state[q] \in Interruptible}
  IN /\ At(p, "user")
     /\ target \in Live \ exiting
     /\ exiting' = exiting \cup {target}
     /\ WakeupProcs(state, wait_state, W)
     /\ time_slice' = RefilledAll(Queued(state, W))
     /\ pc' = [pc EXCEPT ![p] = "trapret"]
     /\ UNCHANGED <<parent, waitfor, left, need_resched, current, in_schedule>>

\* The end of trap() for a trap from user mode.
TrapReturn(p) ==
  /\ At(p, "trapret")
  /\ \/ p \in exiting /\ DoExit(p)
     \/ /\ p \notin exiting
        /\ IF need_resched[p] THEN CallSchedule("user")
           ELSE pc' = [pc EXCEPT ![p] = "user"] /\ UNCHANGED in_schedule
        /\ UNCHANGED <<state, wait_state, treeVars, schedVars, left, current, failed>>

MutWaited(p) == At(p, "waited") /\ DoWait(p, waitfor[p])

\* do_wait after schedule(): a killed process exits, any other looks again.
Waited(p) ==
  /\ At(p, "waited")
  /\ \/ p \in exiting /\ DoExit(p)
     \/ p \notin exiting /\ DoWait(p, waitfor[p])

MutSlept(p) ==
  /\ At(p, "slept")
  /\ pc' = [pc EXCEPT ![p] = IF p \in KThread THEN "kernel" ELSE "trapret"]
  /\ UNCHANGED <<left, state, wait_state, treeVars, schedVars, current, in_schedule, failed>>

\* do_sleep after schedule(): del_timer.
Slept(p) ==
  /\ At(p, "slept")
  /\ left' = [left EXCEPT ![p] = 0]
  /\ pc' = [pc EXCEPT ![p] = IF p \in KThread THEN "kernel" ELSE "trapret"]
  /\ UNCHANGED <<state, wait_state, treeVars, schedVars, current, in_schedule, failed>>

-----------------------------------------------------------------------------
(***************************************************************************)
(* Kernel threads: the threads init_main starts, initproc and idleproc.    *)
(***************************************************************************)

KSleep(k, time) == At(k, "kernel") /\ DoSleep(k, time)

\* kernel_thread_entry calls do_exit when the thread's function returns.
KExit(k) == At(k, "kernel") /\ DoExit(k)

\* init_main starts user_main, taken from where kernel_execve has entered user
\* mode, and the kernel threads; then it reaps children until it has none.
ToSpawn == {c \in KThread : state[c] = "unused"}

InitSpawn(c) ==
  /\ At(Init, "spawn")
  /\ IF \A u \in User : state[u] = "unused" THEN c \in User ELSE c \in ToSpawn
  /\ DoFork(Init, c)
  /\ pc' = [pc EXCEPT ![c] = IF c \in User THEN "user" ELSE "kernel",
                      ![Init] = IF ToSpawn \subseteq {c} THEN "do_wait" ELSE "spawn"]

InitWait == At(Init, "do_wait") /\ DoWait(Init, NoProc)

\* The assertions at the end of init_main, which then ends the system (the
\* panic of do_exit for initproc).
InitFinish ==
  /\ At(Init, "no_child")
  /\ pc' = [pc EXCEPT ![Init] = "halted"]
  /\ failed' = failed \cup
       {"main_leftovers" : p \in {q \in Live : q \notin {Idle, Init}}}
  /\ UNCHANGED <<state, wait_state, treeVars, schedVars, left, current, in_schedule>>

CpuIdle ==
  /\ At(Idle, "idle")
  /\ need_resched[Idle]
  /\ CallSchedule("idle")
  /\ UNCHANGED <<state, wait_state, treeVars, schedVars, left, current, failed>>

-----------------------------------------------------------------------------
(***************************************************************************)
(* The clock interrupt (run_timer_list): every timer loses a tick, those   *)
(* that reach 0 are unlinked and their processes woken, and the time slice *)
(* of the current process is charged.  Timers that expire together wake in *)
(* any order here; module TimerList has the delta list and its order.      *)
(***************************************************************************)
InterruptsOn ==
  /\ pc[Init] # "halted"
  /\ \/ current \in KThread \cup {Idle, Init}
     \/ pc[current] = "user" /\ ~in_schedule

MutCharged(p) == IF p # Idle THEN time_slice[p] - 1 ELSE time_slice[p]

MutChargedNever(p) == time_slice[p]

\* sched_class_proc_tick
Charged(p) == IF p # Idle /\ time_slice[p] > 0 THEN time_slice[p] - 1 ELSE time_slice[p]

Tick ==
  /\ InterruptsOn
  /\ LET due == {p \in Procs : left[p] = 1}
     IN /\ WakeupProcs(state, wait_state, due)
        /\ time_slice' = [RefilledAll(Queued(state, due))
                            EXCEPT ![current] = Charged(current)]
  /\ left' = [p \in Procs |-> IF left[p] > 0 THEN left[p] - 1 ELSE 0]
  /\ need_resched' = [need_resched EXCEPT ![current] =
                        @ \/ current = Idle \/ Charged(current) = 0]
  /\ pc' = [pc EXCEPT ![current] = IF @ = "user" THEN "trapret" ELSE @]
  /\ UNCHANGED <<treeVars, current, in_schedule>>

-----------------------------------------------------------------------------
\* proc_init: idleproc runs, initproc is queued.
Start ==
  /\ state = [p \in Procs |-> IF p \in {Idle, Init} THEN "RUNNABLE" ELSE "unused"]
  /\ wait_state = [p \in Procs |-> "0"]
  /\ exiting = {}
  /\ parent = [p \in Procs |-> IF p = Init THEN Idle ELSE NoProc]
  /\ pc = [p \in Procs |-> IF p = Idle THEN "idle"
                           ELSE IF p = Init THEN "spawn" ELSE "unused"]
  /\ waitfor = [p \in Procs |-> NoProc]
  /\ left = [p \in Procs |-> 0]
  /\ time_slice = [p \in Procs |-> IF p = Init THEN MaxSlice ELSE 0]
  /\ need_resched = [p \in Procs |-> p = Idle]
  /\ rq = <<Init>>
  /\ current = Idle
  /\ in_schedule = FALSE
  /\ failed = {}

\* What the running process is bound to do next, wherever it is in the kernel.
KernelStep ==
  \/ Schedule
  \/ \E p \in User : TrapReturn(p)
  \/ \E p \in User \cup {Init} : Waited(p)
  \/ \E p \in User \cup KThread : Slept(p)
  \/ \E c \in User \cup KThread : InitSpawn(c)
  \/ InitWait
  \/ InitFinish
  \/ CpuIdle

\* A kernel thread computes for a bounded time between its calls.
KThreadStep ==
  \E k \in KThread : KExit(k) \/ \E time \in 1..MaxSleep : KSleep(k, time)

\* The system calls a user process may make, or not.
UserStep ==
  \E p \in User :
    \/ \E c \in User : SysFork(p, c)
    \/ SysExit(p)
    \/ \E pid \in User \cup {NoProc} : SysWait(p, pid)
    \/ SysYield(p)
    \/ SysReturn(p)
    \/ \E time \in 1..MaxSleep : SysSleep(p, time)
    \/ \E target \in User \cup KThread : SysKill(p, target)

\* The system has stopped in panic() with all user processes gone.
Halted == pc[Init] = "halted" /\ UNCHANGED vars

Next == KernelStep \/ KThreadStep \/ UserStep \/ Tick \/ Halted

Spec == Start /\ [][Next]_vars

(***************************************************************************)
(* The kernel's own code does not stop, and a pending clock interrupt is   *)
(* taken as soon as interrupts are on, before the next instruction of the  *)
(* user program: strong fairness, since system calls switch them off.      *)
(***************************************************************************)
FairSpec ==
  /\ Spec
  /\ WF_vars(KernelStep)
  /\ WF_vars(KThreadStep)
  /\ SF_vars(Tick)

-----------------------------------------------------------------------------
(***************************************************************************)
(* What must hold.                                                         *)
(***************************************************************************)

\* The types of the variables.
TypeOK ==
  /\ state \in [Procs -> States]
  /\ wait_state \in [Procs -> {"0", "CHILD", "TIMER"}]
  /\ exiting \subseteq User \cup KThread
  /\ parent \in [Procs -> Procs \cup {NoProc}]
  /\ pc \in [Procs -> Places]
  /\ waitfor \in [Procs -> User \cup {NoProc}]
  /\ left \in [Procs -> 0..MaxSleep]
  /\ time_slice \in [Procs -> 0..MaxSlice]
  /\ need_resched \in [Procs -> BOOLEAN]
  /\ rq \in Seq(Procs)
  /\ current \in Procs
  /\ in_schedule \in BOOLEAN
  /\ failed \subseteq Asserts

\* The run queue holds every RUNNABLE process except idleproc and the current
\* one, each once: wakeup_proc leaves the current process to schedule(), and
\* neither an expiring timer nor do_kill queues a process a second time.
RunQueueExact ==
  /\ Distinct(rq)
  /\ Elements(rq) = {p \in Procs \ {Idle, current} : state[p] = "RUNNABLE"}

\* A sleeping process has something left that will wake it: do_wait sleeps only
\* while a child it asked for lives on and none is a zombie, do_sleep only while
\* its timer is linked.
NoLostWakeup ==
  \A p \in Procs : state[p] = "SLEEPING" =>
    \/ /\ wait_state[p] = "CHILD"
       /\ Awaited(p, waitfor[p]) # {}
       /\ Zombies(Awaited(p, waitfor[p])) = {}
    \/ wait_state[p] = "TIMER" /\ left[p] > 0

\* Every process but idleproc has a parent that can still wait for it, and no
\* group of processes is cut off from idleproc: do_exit leaves no orphan.
ProcessTree ==
  /\ \A c \in Live \ {Idle} :
       parent[c] \in Live /\ state[parent[c]] # "ZOMBIE"
  /\ \A S \in SUBSET (Live \ {Idle}) : S # {} => \E c \in S : parent[c] \notin S

\* A linked timer, which lies on the kernel stack of do_sleep, belongs to a
\* process still inside do_sleep: neither kill nor exit leaves it behind.
TimerOwned ==
  \A p \in Procs : left[p] > 0 => pc[p] = "slept" /\ state[p] \in {"SLEEPING", "RUNNABLE"}

\* No assertion fails: wakeup_proc meets no zombie, RR_enqueue no process that
\* is queued already, and init_main ends with idleproc and initproc alone.
AssertionsHold == failed = {}

\* A zombie stays one until its parent reaps it, and has no children then.
ZombieReapedByParent ==
  [][\A c \in Procs : state[c] = "ZOMBIE" /\ state'[c] # "ZOMBIE" =>
        state'[c] = "unused" /\ current = parent[c] /\ Children(c) = {}]_vars

\* A sleep ends for a reason: the last tick of its timer, a child that has
\* become a zombie, or do_kill.
WakeupHasCause ==
  [][\A p \in Procs : state[p] = "SLEEPING" /\ state'[p] # "SLEEPING" =>
        \/ p \in exiting' \ exiting
        \/ wait_state[p] = "TIMER" /\ left[p] = 1 /\ left'[p] = 0
        \/ wait_state[p] = "CHILD" /\ Zombies(Children(p))' # {}]_vars

\* A RUNNABLE process gets the CPU, whatever the user processes do.
RunnableRuns ==
  \A p \in Procs \ {Idle} : state[p] = "RUNNABLE" ~> current = p

\* A process killed in an interruptible wait comes out of do_wait or do_sleep
\* and ends without entering another.
KilledSleeperExits ==
  \A p \in User :
    p \in exiting /\ state[p] = "RUNNABLE" /\ pc[p] \in {"waited", "slept"}
      ~> state[p] \in {"ZOMBIE", "unused"}

\* Every killed user process ends (proc.c:58, "SYS_kill : kill process ...
\* -->do_exit").  do_wait does not look at PF_EXITING before it sleeps, so a
\* process killed while RUNNABLE that calls do_wait first sleeps with the flag
\* set, past any later do_kill.
KilledExits ==
  \A p \in User : p \in exiting ~> state[p] \in {"ZOMBIE", "unused"}

\* Once no more processes are forked, initproc reaps every zombie it has, its
\* own children and those do_exit hands to it.  (With ever new ones it may not:
\* do_wait takes the first zombie of the list, where the newest child stands.)
OrphansReaped ==
  <>[][Live' \subseteq Live]_vars =>
    \A p \in User \cup KThread :
      state[p] = "ZOMBIE" /\ parent[p] = Init ~> state[p] = "unused"

\* do_sleep returns.
SleepReturns == \A p \in User \cup KThread : pc[p] = "slept" ~> pc[p] # "slept"

\* Once every other process is gone, init_main notices and ends.
InitEnds ==
  (pc[Init] # "spawn" /\ Live = {Idle, Init}) ~> pc[Init] = "halted"

=============================================================================
