------------------------------ MODULE Semaphore ------------------------------
(***************************************************************************)
(* kern/sync/sem.c on the wait queues of kern/sync/wait.c.  up() hands its *)
(* unit to the first process of the queue, if there is one, and does not   *)
(* touch the value then.  Kernel code is not preempted: between two calls  *)
(* of schedule() one process runs, and which one schedule() picks is left  *)
(* open here (module Kernel has the run queue).                            *)
(* The operators named Mut... are seeded faults: see the README.           *)
(***************************************************************************)
EXTENDS Integers, Sequences

CONSTANTS
  Thread,       \* the processes that call down and up
  Sem,          \* the semaphores
  InitialValue, \* the value sem_init gives each
  NoSem,        \* not a semaphore
  MaxValue,     \* bound: up() is not called when a semaphore has this many units
  Nobody        \* current, while schedule() has picked none of Thread

ASSUME SemaphoreAssumption ==
  /\ InitialValue \in [Sem -> Nat]
  /\ NoSem \notin Sem
  /\ Nobody \notin Thread

VARIABLES
  value,        \* sem->value
  wait_queue,   \* sem->wait_queue, its processes, head first
  wakeup_flags, \* wait->wakeup_flags of the wait_t on the stack of __down
  on,           \* the semaphore of the __down that has called schedule()
  state,        \* proc->state: "RUNNABLE" or "SLEEPING"
  wait_state,   \* proc->wait_state: "0" or "KSEM" here
  exiting,      \* the processes whose flags hold PF_EXITING
  current,      \* the running process
  failed        \* the assertions that have failed

queueVars == <<wait_queue, wakeup_flags, on>>
procVars  == <<state, wait_state>>
vars == <<value, queueVars, procVars, exiting, current, failed>>

Members(q) == {q[i] : i \in 1..Len(q)}
Distinct(q) == \A i, j \in 1..Len(q) : i # j => q[i] # q[j]

\* The place of p in a queue that holds it.
PlaceIn(q, p) == CHOOSE i \in 1..Len(q) : q[i] = p

\* wakeup_proc for every member of W.
Wakeup(W) ==
  /\ state' = [p \in Thread |-> IF p \in W THEN "RUNNABLE" ELSE state[p]]
  /\ wait_state' = [p \in Thread |-> IF p \in W THEN "0" ELSE wait_state[p]]

-----------------------------------------------------------------------------
\* sem_init and proc_init
Start ==
  /\ value = InitialValue
  /\ wait_queue = [s \in Sem |-> <<>>]
  /\ wakeup_flags = [p \in Thread |-> "INTERRUPTED"]
  /\ on = [p \in Thread |-> NoSem]
  /\ state = [p \in Thread |-> "RUNNABLE"]
  /\ wait_state = [p \in Thread |-> "0"]
  /\ exiting = {}
  /\ current = Nobody
  /\ failed = {}

\* p has the CPU, outside down().
Runs(p) == current = p /\ on[p] = NoSem

\* wait_queue_add, at the tail.
MutEnqueued(s, p) == <<p>> \o wait_queue[s]

Enqueued(s, p) == Append(wait_queue[s], p)

(***************************************************************************)
(* down: take a unit, or sleep at the end of the queue (wait_current_set)  *)
(* and call schedule().                                                    *)
(***************************************************************************)
Down(p, s) ==
  /\ Runs(p)
  /\ \/ /\ value[s] > 0
        /\ value' = [value EXCEPT ![s] = @ - 1]
        /\ UNCHANGED <<queueVars, procVars, current>>
     \/ /\ value[s] <= 0
        /\ wakeup_flags' = [wakeup_flags EXCEPT ![p] = "INTERRUPTED"]
        /\ wait_queue' = [wait_queue EXCEPT ![s] = Enqueued(s, p)]
        /\ on' = [on EXCEPT ![p] = s]
        /\ state' = [state EXCEPT ![p] = "SLEEPING"]
        /\ wait_state' = [wait_state EXCEPT ![p] = "KSEM"]
        /\ current' = Nobody
        /\ UNCHANGED value
  /\ UNCHANGED <<exiting, failed>>

\* wait_current_del: a wait_t that is still linked is taken out.
Dequeued(q, p) ==
  IF p \in Members(q)
  THEN SubSeq(q, 1, PlaceIn(q, p) - 1) \o SubSeq(q, PlaceIn(q, p) + 1, Len(q))
  ELSE q

\* down after schedule(), with assert(flags == 0).  The wait_t, on the stack
\* of __down, is gone.
DownReturns(p) ==
  /\ current = p /\ on[p] # NoSem
  /\ wait_queue' = [wait_queue EXCEPT ![on[p]] = Dequeued(@, p)]
  /\ wakeup_flags' = [wakeup_flags EXCEPT ![p] = "INTERRUPTED"]
  /\ on' = [on EXCEPT ![p] = NoSem]
  /\ failed' = IF wakeup_flags[p] = "KSEM" THEN failed ELSE failed \cup {"down_flags"}
  /\ UNCHANGED <<value, procVars, exiting, current>>

\* try_down, where it gets the unit.
TryDown(p, s) ==
  /\ Runs(p)
  /\ value[s] > 0
  /\ value' = [value EXCEPT ![s] = @ - 1]
  /\ UNCHANGED <<queueVars, procVars, exiting, current, failed>>

MutUp(p, s) ==
  /\ Runs(p)
  /\ value' = [value EXCEPT ![s] = @ + 1]
  /\ IF wait_queue[s] = <<>>
     THEN UNCHANGED <<queueVars, procVars, failed>>
     ELSE /\ wait_queue' = [wait_queue EXCEPT ![s] = Tail(@)]
          /\ wakeup_flags' = [wakeup_flags EXCEPT ![Head(wait_queue[s])] = "KSEM"]
          /\ Wakeup({Head(wait_queue[s])})
          /\ UNCHANGED <<on, failed>>
  /\ UNCHANGED <<exiting, current>>

\* up: count the unit, or hand it to the first of the queue (wakeup_wait).
Up(p, s) ==
  /\ Runs(p)
  /\ \/ /\ wait_queue[s] = <<>>
        /\ value' = [value EXCEPT ![s] = @ + 1]
        /\ UNCHANGED <<queueVars, procVars, failed>>
     \/ /\ wait_queue[s] # <<>>
        /\ LET first == Head(wait_queue[s])
           IN /\ wait_queue' = [wait_queue EXCEPT ![s] = Tail(@)]
              /\ wakeup_flags' = [wakeup_flags EXCEPT ![first] = "KSEM"]
              /\ Wakeup({first})
              /\ failed' = IF wait_state[first] = "KSEM" THEN failed
                           ELSE failed \cup {"up_wait_state"}
        /\ UNCHANGED <<value, on>>
  /\ UNCHANGED <<exiting, current>>

MutInterruptible == {"CHILD", "TIMER", "KBD", "KSEM"}

\* The values of wait_state with WT_INTERRUPTED: a wait for a semaphore is none.
Interruptible == {"CHILD", "TIMER", "KBD"}

\* do_kill wakes its target only out of an interruptible wait.
Kill(p, target) ==
  /\ Runs(p)
  /\ target \notin exiting
  /\ exiting' = exiting \cup {target}
  /\ Wakeup({q \in {target} : wait_state[q] \in Interruptible})
  /\ UNCHANGED <<value, queueVars, current, failed>>

\* The process calls schedule() for another reason, and schedule() picks one.
Yield(p) ==
  /\ Runs(p)
  /\ current' = Nobody
  /\ UNCHANGED <<value, queueVars, procVars, exiting, failed>>

Dispatch(p) ==
  /\ current = Nobody /\ state[p] = "RUNNABLE"
  /\ current' = p
  /\ UNCHANGED <<value, queueVars, procVars, exiting, failed>>

Next ==
  \E p \in Thread :
    \/ \E s \in Sem : Down(p, s) \/ TryDown(p, s) \/ (value[s] < MaxValue /\ Up(p, s))
    \/ DownReturns(p)
    \/ \E target \in Thread : Kill(p, target)
    \/ Yield(p)
    \/ Dispatch(p)

Spec == Start /\ [][Next]_vars

-----------------------------------------------------------------------------
\* The types of the variables.
TypeOK ==
  /\ value \in [Sem -> Nat]
  /\ wait_queue \in [Sem -> Seq(Thread)]
  /\ wakeup_flags \in [Thread -> {"INTERRUPTED", "KSEM"}]
  /\ on \in [Thread -> Sem \cup {NoSem}]
  /\ state \in [Thread -> {"RUNNABLE", "SLEEPING"}]
  /\ wait_state \in [Thread -> {"0", "KSEM"}]
  /\ exiting \subseteq Thread
  /\ current \in Thread \cup {Nobody}
  /\ failed \subseteq {"down_flags", "up_wait_state"}

\* The queue of a semaphore holds exactly the processes asleep in its down(),
\* each once, and none while it has a unit to give.
QueueExact ==
  \A s \in Sem :
    /\ Distinct(wait_queue[s])
    /\ Members(wait_queue[s]) = {p \in Thread : on[p] = s /\ state[p] = "SLEEPING"}
    /\ value[s] > 0 => wait_queue[s] = <<>>

\* down() returns with a unit and not because of do_kill, and up() wakes only
\* processes that sleep in down().
AssertionsHold == failed = {}

\* The calls of up() that a process in down() still needs: its place in the
\* queue, and none once it has been woken.
Need(p) ==
  IF on[p] # NoSem /\ p \in Members(wait_queue[on[p]])
  THEN PlaceIn(wait_queue[on[p]], p) ELSE 0

\* The value and the queue together are the credit of SemaphoreSpec: nobody
\* who comes later gets a unit that was handed over, however late the process
\* it was given to runs.
Promise == INSTANCE SemaphoreSpec WITH
  credit <- [s \in Sem |-> value[s] - Len(wait_queue[s])],
  need   <- [p \in Thread |-> Need(p)]

InTurn == Promise!Spec

=============================================================================
