------------------------------ MODULE TimerList ------------------------------
(***************************************************************************)
(* timer_list of kern/schedule/sched.c: add_timer, del_timer and           *)
(* run_timer_list.  The list is sorted by the tick at which the timers     *)
(* end, and each holds only its distance from the one before it, so a tick *)
(* touches the first timer alone.  The functions run with interrupts off.  *)
(* The operators named Mut... are seeded faults: see the README.            *)
(***************************************************************************)
EXTENDS Integers, Sequences, SequencesExt

CONSTANTS
  Proc,         \* the processes that call do_sleep
  MaxTime       \* bound: the longest time asked for

ASSUME TimerAssumption == MaxTime \in Nat

VARIABLES
  timer_list,   \* the linked timers: the process and timer->expires
  woken         \* the processes the last run_timer_list woke, in order

timer_vars == <<timer_list, woken>>

\* The place of the timer of p in the list.
PlacesOf(p) == {i \in 1..Len(timer_list) : timer_list[i].proc = p}

\* The distances of list added up, timer by timer.
Sums(list) ==
  LET sum[i \in 0..Len(list)] == IF i = 0 THEN 0 ELSE sum[i - 1] + list[i].expires
  IN sum

\* The ticks until the i-th timer ends.
TicksLeft(i) == Sums(timer_list)[i]

-----------------------------------------------------------------------------
\* Where add_timer stops: at the first timer that ends later.
MutStop(time) ==
  Min({i \in 1..Len(timer_list) : time <= TicksLeft(i)} \cup {Len(timer_list) + 1})

Stop(time) ==
  Min({i \in 1..Len(timer_list) : time < TicksLeft(i)} \cup {Len(timer_list) + 1})

\* The list behind its first i timers, where the next of them stands d ticks
\* further from the timer before it than it did.
Behind(i, d) ==
  [j \in 1..Len(timer_list) - i |->
     IF j = 1 THEN [timer_list[i + 1] EXCEPT !.expires = @ + d] ELSE timer_list[i + j]]

MutAddTimer(p, time) ==
  LET i == Stop(time)
  IN /\ PlacesOf(p) = {}
     /\ timer_list' = SubSeq(timer_list, 1, i - 1)
                        \o <<[proc |-> p, expires |-> time - TicksLeft(i - 1)]>>
                        \o SubSeq(timer_list, i, Len(timer_list))
     /\ UNCHANGED woken

\* do_sleep(time): the timer takes what is left of its time after the timers
\* before it, and the one after it gives up as much.
AddTimer(p, time) ==
  LET i    == Stop(time)
      mine == time - TicksLeft(i - 1)
  IN /\ PlacesOf(p) = {}
     /\ timer_list' = SubSeq(timer_list, 1, i - 1)
                        \o <<[proc |-> p, expires |-> mine]>> \o Behind(i - 1, -mine)
     /\ UNCHANGED woken

\* del_timer: the next timer takes over the distance.  do_sleep also calls it
\* for a timer that has ended, which is linked no more.
DelTimer(p) ==
  /\ \E i \in PlacesOf(p) :
       timer_list' = SubSeq(timer_list, 1, i - 1) \o Behind(i, timer_list[i].expires)
  /\ UNCHANGED woken

\* How many timers the loop of run_timer_list takes off the head of the list:
\* after the first has lost its tick, those at distance 0.
Ending ==
  LET ticked == Behind(0, -1)
  IN Min({i \in 0..Len(ticked) : i < Len(ticked) => ticked[i + 1].expires # 0})

\* run_timer_list: the first timer loses a tick; those that end are unlinked
\* and their processes woken.
RunTimerList ==
  LET n == Ending
  IN /\ woken' = [i \in 1..n |-> timer_list[i].proc]
     /\ timer_list' = IF n = 0 THEN Behind(0, -1)
                      ELSE SubSeq(timer_list, n + 1, Len(timer_list))

-----------------------------------------------------------------------------
NoTimers == timer_list = <<>> /\ woken = <<>>

TimersNext ==
  \/ \E p \in Proc : DelTimer(p) \/ \E time \in 1..MaxTime : AddTimer(p, time)
  \/ RunTimerList

Timers == NoTimers /\ [][TimersNext]_timer_vars

\* The clock ticks on.
FairTimers == Timers /\ WF_timer_vars(RunTimerList)

-----------------------------------------------------------------------------
\* The distances are the absolute times of TimerSpec: adding or cancelling a
\* timer anywhere moves no other, and none is early, late or forgotten.
Absolute == INSTANCE TimerSpec WITH
  armed <- [i \in 1..Len(timer_list) |-> [proc |-> timer_list[i].proc, left |-> TicksLeft(i)]]

TimersOnTime == Absolute!Spec

\* Every timer ends or is cancelled.
TimersEnd == \A p \in Proc : PlacesOf(p) # {} ~> PlacesOf(p) = {}

=============================================================================
