----------------------------- MODULE Philosophers -----------------------------
(***************************************************************************)
(* The monitor of kern/sync/monitor.c with its only user, the philosophers *)
(* of kern/sync/check_sync.c (philosopher_using_condvar).  cond_signal     *)
(* gives the monitor to the process it wakes and sleeps on `next` until    *)
(* that one leaves or waits again.  The semaphores are those of module     *)
(* Semaphore; a philosopher stays on the CPU until it sleeps.              *)
(* The operators named Mut... are seeded faults: see the README.           *)
(***************************************************************************)
EXTENDS Integers, Sequences, FiniteSets

CONSTANTS
  N,            \* the number of philosophers
  TIMES,        \* how often each eats
  Nobody        \* current, while no philosopher runs

ASSUME PhilosophersAssumption ==
  N \in Nat \ {0, 1} /\ TIMES \in Nat \ {0} /\ Nobody \notin 0..N - 1

VARIABLES
  value, wait_queue, wakeup_flags, on, state, wait_state, exiting, current, failed,
  pc,            \* what the philosopher does next, then where that returns to
  iter,          \* how often it has eaten
  state_condvar, \* THINKING, HUNGRY or EATING
  count,         \* cv[i].count
  next_count     \* mtp->next_count

semVars == <<value, wait_queue, wakeup_flags, on, state, wait_state, exiting, current, failed>>
monVars == <<count, next_count>>
dinVars == <<pc, iter, state_condvar, monVars>>
vars == <<semVars, dinVars>>

Phil == 0..N - 1
LEFT(i)  == (i - 1 + N) % N
RIGHT(i) == (i + 1) % N

\* mtp->mutex, mtp->next and mtp->cv[i].sem, as monitor_init makes them.
cv(i) == <<"cv", i>>
Sems == {<<"mutex">>, <<"next">>} \cup {cv(i) : i \in Phil}
mutex == <<"mutex">>
next  == <<"next">>
SemInit == [s \in Sems |-> IF s = mutex THEN 1 ELSE 0]

S == INSTANCE Semaphore WITH
  Thread <- Phil, Sem <- Sems, InitialValue <- SemInit, NoSem <- <<>>, MaxValue <- 1

-----------------------------------------------------------------------------
\* The philosopher i has the CPU and is at this place of its code.
At(i, place) == S!Runs(i) /\ Head(pc[i]) = place

Goto(i, place) == pc' = [pc EXCEPT ![i] = place]

\* do_sleep(SLEEP_TIME), which calls schedule(); the timer ends at some time.
Sleep(i) ==
  /\ state' = [state EXCEPT ![i] = "SLEEPING"]
  /\ wait_state' = [wait_state EXCEPT ![i] = "TIMER"]
  /\ current' = Nobody
  /\ UNCHANGED <<value, wait_queue, wakeup_flags, on, exiting, failed>>

TimerEnds(i) ==
  /\ wait_state[i] = "TIMER"
  /\ S!Wakeup({i})
  /\ UNCHANGED <<value, wait_queue, wakeup_flags, on, exiting, current, failed, dinVars>>

\* "leave routine in monitor", and the start of cond_wait: a process that has
\* signalled goes before those that want to enter.
MutLeave(i) == S!Up(i, mutex)

Leave(i) == S!Up(i, IF next_count > 0 THEN next ELSE mutex)

-----------------------------------------------------------------------------
(***************************************************************************)
(* cond_signal of cv[c], called by i, which goes on at `place`.  Without a *)
(* waiter the signal is lost.                                              *)
(***************************************************************************)
CondSignal(i, c, place) ==
  \/ /\ count[c] > 0
     /\ next_count' = next_count + 1
     /\ S!Up(i, cv(c))
     /\ Goto(i, <<"signal", place>>)
     /\ UNCHANGED count
  \/ /\ count[c] = 0
     /\ Goto(i, <<place>>)
     /\ UNCHANGED <<semVars, monVars>>

MutSignalSleeps(i) ==
  /\ At(i, "signal")
  /\ Goto(i, <<"signalled", pc[i][2]>>)
  /\ UNCHANGED <<semVars, iter, state_condvar, monVars>>

\* down(&mtp->next)
SignalSleeps(i) ==
  /\ At(i, "signal")
  /\ S!Down(i, next)
  /\ Goto(i, <<"signalled", pc[i][2]>>)
  /\ UNCHANGED <<iter, state_condvar, monVars>>

SignalReturns(i) ==
  /\ At(i, "signalled")
  /\ next_count' = next_count - 1
  /\ Goto(i, Tail(pc[i]))
  /\ UNCHANGED <<semVars, iter, state_condvar, count>>

MutMayEat(j, st) == st[j] = "HUNGRY" /\ st[LEFT(j)] # "EATING"

\* May j eat, if these are the states of the philosophers?
MayEat(j, st) == st[j] = "HUNGRY" /\ st[LEFT(j)] # "EATING" /\ st[RIGHT(j)] # "EATING"

\* phi_test_condvar(j), called by i, which goes on at `place`.
Test(i, j, st, place) ==
  \/ /\ MayEat(j, st)
     /\ state_condvar' = [st EXCEPT ![j] = "EATING"]
     /\ CondSignal(i, j, place)
  \/ /\ ~MayEat(j, st)
     /\ state_condvar' = st
     /\ Goto(i, <<place>>)
     /\ UNCHANGED <<semVars, monVars>>

-----------------------------------------------------------------------------
(***************************************************************************)
(* philosopher_using_condvar: think, take the forks, eat, put them back.   *)
(***************************************************************************)
Think(i) ==
  /\ At(i, "think")
  /\ iter[i] < TIMES
  /\ Sleep(i)
  /\ Goto(i, <<"take">>)
  /\ UNCHANGED <<iter, state_condvar, monVars>>

Quit(i) ==
  /\ At(i, "think")
  /\ iter[i] = TIMES
  /\ state' = [state EXCEPT ![i] = "ZOMBIE"]
  /\ current' = Nobody
  /\ Goto(i, <<"quit">>)
  /\ UNCHANGED <<value, wait_queue, wakeup_flags, on, wait_state, exiting, failed,
                 iter, state_condvar, monVars>>

\* phi_take_forks_condvar, up to cond_wait
Take(i) ==
  /\ At(i, "take")
  /\ S!Down(i, mutex)
  /\ Goto(i, <<"hungry">>)
  /\ UNCHANGED <<iter, state_condvar, monVars>>

Hungry(i) ==
  /\ At(i, "hungry")
  /\ Test(i, i, [state_condvar EXCEPT ![i] = "HUNGRY"], "tested")
  /\ UNCHANGED iter

MutCondWait(i) ==
  /\ At(i, "tested") /\ state_condvar[i] = "HUNGRY"
  /\ count' = [count EXCEPT ![i] = @ + 1]
  /\ Goto(i, <<"cond_wait">>)
  /\ UNCHANGED <<semVars, iter, state_condvar, next_count>>

\* cond_wait, which gives the monitor away before it sleeps
CondWait(i) ==
  /\ At(i, "tested") /\ state_condvar[i] = "HUNGRY"
  /\ count' = [count EXCEPT ![i] = @ + 1]
  /\ Leave(i)
  /\ Goto(i, <<"cond_wait">>)
  /\ UNCHANGED <<iter, state_condvar, next_count>>

CondSleeps(i) ==
  /\ At(i, "cond_wait")
  /\ S!Down(i, cv(i))
  /\ Goto(i, <<"cond_waited">>)
  /\ UNCHANGED <<iter, state_condvar, monVars>>

CondReturns(i) ==
  /\ At(i, "cond_waited")
  /\ count' = [count EXCEPT ![i] = @ - 1]
  /\ Goto(i, <<"taken">>)
  /\ UNCHANGED <<semVars, iter, state_condvar, next_count>>

\* The end of phi_take_forks_condvar.
Taken(i) ==
  /\ At(i, "taken") \/ (At(i, "tested") /\ state_condvar[i] # "HUNGRY")
  /\ Leave(i)
  /\ Goto(i, <<"eat">>)
  /\ UNCHANGED <<iter, state_condvar, monVars>>

Eat(i) ==
  /\ At(i, "eat")
  /\ Sleep(i)
  /\ Goto(i, <<"put">>)
  /\ UNCHANGED <<iter, state_condvar, monVars>>

\* phi_put_forks_condvar
Put(i) ==
  /\ At(i, "put")
  /\ S!Down(i, mutex)
  /\ Goto(i, <<"full">>)
  /\ UNCHANGED <<iter, state_condvar, monVars>>

TestLeft(i) ==
  /\ At(i, "full")
  /\ Test(i, LEFT(i), [state_condvar EXCEPT ![i] = "THINKING"], "test_right")
  /\ UNCHANGED iter

TestRight(i) ==
  /\ At(i, "test_right")
  /\ Test(i, RIGHT(i), state_condvar, "leave")
  /\ UNCHANGED iter

LeavePut(i) ==
  /\ At(i, "leave")
  /\ Leave(i)
  /\ iter' = [iter EXCEPT ![i] = @ + 1]
  /\ Goto(i, <<"think">>)
  /\ UNCHANGED <<state_condvar, monVars>>

-----------------------------------------------------------------------------
\* check_sync has started the philosophers.
Start ==
  /\ S!Start
  /\ pc = [i \in Phil |-> <<"think">>]
  /\ iter = [i \in Phil |-> 0]
  /\ state_condvar = [i \in Phil |-> "THINKING"]
  /\ count = [i \in Phil |-> 0]
  /\ next_count = 0

\* down() returns, or the CPU goes to i.
SemStep(i) == (S!DownReturns(i) \/ S!Dispatch(i)) /\ UNCHANGED dinVars

Step(i) ==
  \/ Think(i) \/ Quit(i)
  \/ Take(i) \/ Hungry(i) \/ CondWait(i) \/ CondSleeps(i) \/ CondReturns(i) \/ Taken(i)
  \/ Eat(i)
  \/ Put(i) \/ TestLeft(i) \/ TestRight(i) \/ LeavePut(i)
  \/ SignalSleeps(i) \/ SignalReturns(i)
  \/ SemStep(i)
  \/ TimerEnds(i)

AllQuitted == \A i \in Phil : pc[i] = <<"quit">>

Next == (\E i \in Phil : Step(i)) \/ (AllQuitted /\ UNCHANGED vars)

Spec == Start /\ [][Next]_vars

\* The machine runs on, whichever process schedule() picks.
FairSpec == Spec /\ WF_vars(\E i \in Phil : Step(i))

-----------------------------------------------------------------------------
\* Who is at the table has its forks to itself, from phi_take_forks_condvar to
\* phi_put_forks_condvar.
NeighboursApart ==
  \A i \in Phil :
    /\ Head(pc[i]) \in {"eat", "put", "full"} => state_condvar[i] = "EATING"
    /\ state_condvar[i] = "EATING" => state_condvar[RIGHT(i)] # "EATING"

\* The processes the monitor belongs to: they are in one of its routines and do
\* not sleep in down().  One that has been woken owns it before it runs.
Owners ==
  {i \in Phil :
     /\ state[i] = "RUNNABLE"
     /\ Head(pc[i]) \in {"hungry", "tested", "cond_waited", "taken", "full",
                         "test_right", "leave", "signalled"}}

\* The monitor has one owner, or is free; whoever gives it away gives it to one.
MonitorHeld == Cardinality(Owners) + value[mutex] = 1

\* What a philosopher was woken for still holds when it comes back from
\* cond_wait: nobody else touches the table between.
SignalHandsOver ==
  [][\A i \in Phil :
       Head(pc[i]) = "cond_waited" /\ state[i] = "RUNNABLE"
         => state_condvar' = state_condvar]_vars

\* check_sync gets every philosopher back.
AllQuit == <>AllQuitted

=============================================================================
