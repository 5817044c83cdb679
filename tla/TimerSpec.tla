------------------------------ MODULE TimerSpec ------------------------------
(***************************************************************************)
(* What the timers of ucore promise: a process sleeps for the ticks it     *)
(* asked for, and timers that end with the same tick wake their processes  *)
(* in the order they were set.                                             *)
(***************************************************************************)
EXTENDS Naturals, Sequences, SequencesExt

CONSTANTS
  Proc,         \* the processes that call do_sleep
  MaxTime       \* the longest time asked for

VARIABLES
  armed,        \* the set timers, soonest first: the process and its ticks left
  woken         \* the processes the last tick woke, in order

Armed(p) == \E i \in 1..Len(armed) : armed[i].proc = p

\* The first n timers, and no others, have at most time ticks left.
Until(n, time) == \A i \in 1..Len(armed) : i <= n <=> armed[i].left <= time

\* A timer goes behind those that end no later.
Set(p, time) ==
  /\ ~Armed(p)
  /\ \E n \in 0..Len(armed) :
       /\ Until(n, time)
       /\ armed' = InsertAt(armed, n + 1, [proc |-> p, left |-> time])
  /\ UNCHANGED woken

Cancel(p) ==
  /\ \E i \in 1..Len(armed) : armed[i].proc = p /\ armed' = RemoveAt(armed, i)
  /\ UNCHANGED woken

\* Timers with one tick left end, the others have one less.
Tick ==
  \E n \in 0..Len(armed) :
    /\ Until(n, 1)
    /\ woken' = [i \in 1..n |-> armed[i].proc]
    /\ armed' = [i \in 1..Len(armed) - n |-> [armed[n + i] EXCEPT !.left = @ - 1]]

Init == armed = <<>> /\ woken = <<>>

Next ==
  \/ \E p \in Proc : Cancel(p) \/ \E time \in 1..MaxTime : Set(p, time)
  \/ Tick

Spec == Init /\ [][Next]_<<armed, woken>>

=============================================================================
