----------------------------- MODULE MemorySpec -----------------------------
(***************************************************************************)
(* What fork promises of user memory: every process has a memory of its    *)
(* own.  A child starts with a copy of its parent's, and from then on a    *)
(* store of one process is seen by no other.                               *)
(*                                                                         *)
(* A page nobody touched yet has no value, and its first touch may find    *)
(* anything in it.  A memory changes as a whole only by a call of fork or  *)
(* exec, which may also fail; all else changes one page of one process.    *)
(***************************************************************************)
EXTENDS Naturals

CONSTANTS Proc, VPage, Value, NoValue
VARIABLES
  alive,  \* the processes that have a memory
  mem,    \* mem[p][v]: what p reads at v
  calls   \* calls of fork and exec so far

vars == <<alive, mem, calls>>

Untouched == [v \in VPage |-> NoValue]

Init == alive = {} /\ mem = [p \in Proc |-> Untouched] /\ calls = 0

\* A program is loaded, in a process that had a memory or none.
Load(p) ==
  /\ alive' = alive \union {p}
  /\ mem'[p] \in [VPage -> Value \union {NoValue}]
  /\ mem' = [mem EXCEPT ![p] = mem'[p]]
  /\ calls' = calls + 1

Fork(p, q) ==
  /\ p \in alive /\ q \notin alive
  /\ alive' = alive \union {q}
  /\ mem' = [mem EXCEPT ![q] = mem[p]]
  /\ calls' = calls + 1

Store(p, v) ==
  /\ p \in alive /\ mem[p][v] # NoValue
  /\ \E x \in Value : mem' = [mem EXCEPT ![p][v] = x]
  /\ UNCHANGED <<alive, calls>>

FirstTouch(p, v) ==
  /\ p \in alive /\ mem[p][v] = NoValue
  /\ \E x \in Value : mem' = [mem EXCEPT ![p][v] = x]
  /\ UNCHANGED <<alive, calls>>

\* A process exits, or has no memory after an exec that failed.
Leave(p) ==
  /\ p \in alive
  /\ calls' \in {calls, calls + 1}
  /\ alive' = alive \ {p}
  /\ mem' = [mem EXCEPT ![p] = Untouched]

\* A fork that failed, or an exec of a process that had no memory.
Refused == calls' = calls + 1 /\ UNCHANGED <<alive, mem>>

Next ==
  \/ \E p \in Proc :
       \/ \E q \in Proc : Fork(p, q)
       \/ \E v \in VPage : Store(p, v) \/ FirstTouch(p, v)
       \/ Leave(p) \/ Load(p)
  \/ Refused

Spec == Init /\ [][Next]_vars
=============================================================================
