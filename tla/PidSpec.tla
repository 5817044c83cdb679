------------------------------- MODULE PidSpec -------------------------------
(***************************************************************************)
(* What the pid allocator of ucore promises: a new process gets the next   *)
(* free pid after the one given last, going round at MAX_PID.              *)
(***************************************************************************)
EXTENDS Integers

CONSTANT MaxPid       \* MAX_PID; pid 0 is idleproc's

VARIABLES
  pids,               \* the pids of the processes in proc_list
  last                \* the pid given last

Pids == 1..MaxPid - 1

\* The pids passed over on the way from a to b.
Skipped(a, b) ==
  IF b > a THEN a + 1..b - 1 ELSE (a + 1..MaxPid - 1) \cup (1..b - 1)

Give ==
  /\ last' \in Pids \ pids
  /\ Skipped(last, last') \subseteq pids
  /\ UNCHANGED pids

\* The process that was given the pid joins proc_list.
Join ==
  /\ last \in Pids \ pids
  /\ pids' = pids \cup {last}
  /\ UNCHANGED last

Leave == \E pid \in pids : pids' = pids \ {pid} /\ UNCHANGED last

Init == pids = {} /\ last = MaxPid

Next == Give \/ Join \/ Leave

Spec == Init /\ [][Next]_<<pids, last>>

=============================================================================
