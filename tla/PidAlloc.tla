------------------------------ MODULE PidAlloc ------------------------------
(***************************************************************************)
(* get_pid of kern/process/proc.c, called by do_fork.  It keeps two static *)
(* variables between calls: no process has a pid between last_pid and      *)
(* next_safe, so most calls need not look at the processes at all.         *)
(*                                                                         *)
(* The kernel does not preempt get_pid, so processes come and go only      *)
(* between calls; the scan of proc_list is modelled step by step, in any   *)
(* order of the list.                                                      *)
(***************************************************************************)
EXTENDS Integers, FiniteSets

CONSTANTS
  MaxPid,       (* MAX_PID      *)
  MaxProcess    (* MAX_PROCESS  *)

\* static_assert(MAX_PID > MAX_PROCESS)
ASSUME PidAssumption ==
  MaxProcess \in Nat \ {0} /\ MaxPid \in Nat /\ MaxPid > MaxProcess

VARIABLES
  pids,         (* the pids of the processes in proc_list                  *)
  last_pid,     (* static last_pid                                         *)
  next_safe,    (* static next_safe                                        *)
  rest,         (* the pids of proc_list the scan has not met yet          *)
  at,           (* "out", "scan" (the loop) or "got" (get_pid has returned) *)
  from          (* history: last_pid when get_pid was called               *)

vars == <<pids, last_pid, next_safe, rest, at, from>>

Pids == 1..MaxPid - 1

-----------------------------------------------------------------------------
\* The value of last_pid after ++last_pid and its wrap.
NextPid(n) == IF n >= MaxPid THEN 1 ELSE n

\* "inside:" and "repeat:", the start of a scan of proc_list.
StartScan ==
  /\ next_safe' = MaxPid
  /\ rest' = pids
  /\ at' = "scan"

MutGetPid ==
  /\ at = "out"
  /\ Cardinality(pids) + 1 < MaxProcess
  /\ from' = last_pid
  /\ last_pid' = NextPid(last_pid + 1)
  /\ IF last_pid + 1 > next_safe
     THEN StartScan
     ELSE at' = "got" /\ UNCHANGED <<next_safe, rest>>
  /\ UNCHANGED pids

\* do_fork calls get_pid; nr_process, which counts idleproc too, is below
\* MAX_PROCESS.
GetPid ==
  /\ at = "out"
  /\ Cardinality(pids) + 1 < MaxProcess
  /\ from' = last_pid
  /\ last_pid' = NextPid(last_pid + 1)
  /\ IF last_pid + 1 >= MaxPid \/ last_pid + 1 >= next_safe
     THEN StartScan
     ELSE at' = "got" /\ UNCHANGED <<next_safe, rest>>
  /\ UNCHANGED pids

\* The scan meets the process with pid last_pid: try the next pid, from the
\* start of the list if one at or above it is known to be taken.
MutTaken ==
  /\ at = "scan" /\ last_pid \in rest
  /\ last_pid' = NextPid(last_pid + 1)
  /\ rest' = rest \ {last_pid}
  /\ UNCHANGED <<pids, next_safe, at, from>>

MutTakenStays ==
  /\ at = "scan" /\ last_pid \in rest
  /\ IF last_pid + 1 >= next_safe
     THEN UNCHANGED last_pid /\ StartScan
     ELSE /\ last_pid' = last_pid + 1
          /\ rest' = rest \ {last_pid}
          /\ UNCHANGED <<next_safe, at>>
  /\ UNCHANGED <<pids, from>>

Taken ==
  /\ at = "scan" /\ last_pid \in rest
  /\ IF last_pid + 1 >= next_safe
     THEN last_pid' = NextPid(last_pid + 1) /\ StartScan
     ELSE /\ last_pid' = last_pid + 1
          /\ rest' = rest \ {last_pid}
          /\ UNCHANGED <<next_safe, at>>
  /\ UNCHANGED <<pids, from>>

MutPass(pid) ==
  /\ at = "scan" /\ pid \in rest \ {last_pid}
  /\ next_safe' = IF pid > last_pid THEN pid ELSE next_safe
  /\ rest' = rest \ {pid}
  /\ UNCHANGED <<pids, last_pid, at, from>>

\* The scan meets another process, whose pid may bound next_safe.
Pass(pid) ==
  /\ at = "scan" /\ pid \in rest \ {last_pid}
  /\ next_safe' = IF pid > last_pid /\ next_safe > pid THEN pid ELSE next_safe
  /\ rest' = rest \ {pid}
  /\ UNCHANGED <<pids, last_pid, at, from>>

EndScan ==
  /\ at = "scan" /\ rest = {}
  /\ at' = "got"
  /\ UNCHANGED <<pids, last_pid, next_safe, rest, from>>

\* set_links and hash_proc enter the new process into proc_list.
SetLinks ==
  /\ at = "got"
  /\ pids' = pids \cup {last_pid}
  /\ at' = "out"
  /\ UNCHANGED <<last_pid, next_safe, rest, from>>

\* copy_files fails after get_pid: do_fork drops the process and its pid.
ForkFails ==
  /\ at = "got"
  /\ at' = "out"
  /\ UNCHANGED <<pids, last_pid, next_safe, rest, from>>

\* remove_links and unhash_proc, when do_wait reaps a process.
RemoveLinks(pid) ==
  /\ at = "out"
  /\ pids' = pids \ {pid}
  /\ UNCHANGED <<last_pid, next_safe, rest, at, from>>

-----------------------------------------------------------------------------
Start ==
  /\ pids = {}
  /\ last_pid = MaxPid /\ next_safe = MaxPid
  /\ rest = {}
  /\ at = "out"
  /\ from = MaxPid

Scan == Taken \/ (\E pid \in Pids : Pass(pid)) \/ EndScan

Next ==
  \/ GetPid \/ Scan \/ SetLinks \/ ForkFails
  \/ \E pid \in pids : RemoveLinks(pid)

Spec == Start /\ [][Next]_vars

\* get_pid runs on; callers may never fork again.
FairSpec == Spec /\ WF_vars(Scan)

-----------------------------------------------------------------------------
\* The types of the variables.
TypeOK ==
  /\ pids \subseteq Pids
  /\ last_pid \in 1..MaxPid /\ (at # "out" => last_pid \in Pids)
  /\ next_safe \in 1..MaxPid
  /\ rest \subseteq pids /\ (at # "scan" => rest = {})
  /\ at \in {"out", "scan", "got"}
  /\ from \in 1..MaxPid

\* Between calls no process has a pid between last_pid and next_safe, whatever
\* processes were entered, dropped or reaped since the last scan: the next
\* calls may give these pids away unseen.
GapFree == at = "out" => \A pid \in pids : ~(last_pid < pid /\ pid < next_safe)

\* The pid get_pid returns belongs to no process.
Unique == at = "got" => last_pid \notin pids

\* The allocator gives the pids out in turn, as PidSpec says.
Promise == INSTANCE PidSpec WITH last <- IF at = "scan" THEN from ELSE last_pid

PidInTurn == Promise!Spec

\* The scan ends: there are fewer processes than pids.
GetPidReturns == at = "scan" ~> at = "got"

=============================================================================
