--------------------------- MODULE SemaphoreProofs ---------------------------
(***************************************************************************)
(* The safety properties of Semaphore for any number of processes and      *)
(* semaphores, and that it implements SemaphoreSpec.                       *)
(***************************************************************************)
EXTENDS Semaphore, TLAPS

(***************************************************************************)
(* A process is asleep only in down(), with WT_KSEM; one that has been     *)
(* woken there has the flag that says so; the running process is RUNNABLE. *)
(***************************************************************************)
SleepOK ==
  /\ \A p \in Thread :
       /\ state[p] = "SLEEPING" => on[p] # NoSem /\ wait_state[p] = "KSEM"
       /\ on[p] # NoSem /\ state[p] = "RUNNABLE" => wakeup_flags[p] = "KSEM"
       /\ state[p] = "RUNNABLE" => wait_state[p] = "0"
  /\ current # Nobody => state[current] = "RUNNABLE"

IInv == TypeOK /\ QueueExact /\ SleepOK /\ AssertionsHold

-----------------------------------------------------------------------------
\* Queues: what Append and Tail do to the members and their places.

LEMMA MembersAppend ==
  ASSUME NEW T, NEW q \in Seq(T), NEW p \in T, p \notin Members(q), Distinct(q)
  PROVE  /\ Append(q, p) \in Seq(T)
         /\ Members(Append(q, p)) = Members(q) \cup {p}
         /\ Distinct(Append(q, p))
<1>1. /\ Append(q, p) \in Seq(T)
      /\ Len(Append(q, p)) = Len(q) + 1
      /\ Append(q, p)[Len(q) + 1] = p
      /\ \A i \in 1..Len(q) : Append(q, p)[i] = q[i]
      /\ Len(q) \in Nat
  OBVIOUS
<1>2. 1..Len(Append(q, p)) = 1..Len(q) \cup {Len(q) + 1}
  BY <1>1
<1>3. Members(Append(q, p)) = Members(q) \cup {p}
  <2>1. ASSUME NEW x \in Members(Append(q, p)) PROVE x \in Members(q) \cup {p}
    <3>1. PICK i \in 1..Len(q) \cup {Len(q) + 1} : x = Append(q, p)[i]
      BY <1>2 DEF Members
    <3>2. CASE i \in 1..Len(q)
      BY <1>1, <3>1, <3>2 DEF Members
    <3>3. CASE i = Len(q) + 1
      BY <1>1, <3>1, <3>3
    <3> QED
      BY <3>1, <3>2, <3>3
  <2>2. ASSUME NEW x \in Members(q) PROVE x \in Members(Append(q, p))
    <3>1. PICK i \in 1..Len(q) : x = q[i]
      BY DEF Members
    <3>2. i \in 1..Len(Append(q, p)) /\ x = Append(q, p)[i]
      BY <1>1, <1>2, <3>1
    <3> QED
      BY <3>2 DEF Members
  <2>3. p \in Members(Append(q, p))
    BY <1>1, <1>2 DEF Members
  <2> QED
    BY <2>1, <2>2, <2>3
<1>4. Distinct(Append(q, p))
  <2> SUFFICES ASSUME NEW i \in 1..Len(Append(q, p)), NEW j \in 1..Len(Append(q, p)), i < j
               PROVE  Append(q, p)[i] # Append(q, p)[j]
    BY <1>1 DEF Distinct
  <2>1. i \in 1..Len(q) /\ Append(q, p)[i] = q[i] /\ q[i] \in Members(q)
    BY <1>1 DEF Members
  <2>2. CASE j \in 1..Len(q)
    BY <1>1, <2>1, <2>2 DEF Distinct
  <2>3. CASE j = Len(q) + 1
    BY <1>1, <2>1, <2>3
  <2> QED
    BY <1>2, <2>2, <2>3
<1> QED
  BY <1>1, <1>3, <1>4

LEMMA MembersTail ==
  ASSUME NEW T, NEW q \in Seq(T), q # <<>>, Distinct(q)
  PROVE  /\ Tail(q) \in Seq(T) /\ Head(q) \in T
         /\ Head(q) \in Members(q)
         /\ Members(Tail(q)) = Members(q) \ {Head(q)}
         /\ Distinct(Tail(q))
<1>1. /\ Tail(q) \in Seq(T) /\ Head(q) = q[1] /\ q[1] \in T
      /\ Len(q) \in Nat \ {0}
      /\ Len(Tail(q)) = Len(q) - 1
      /\ \A i \in 1..Len(q) - 1 : Tail(q)[i] = q[i + 1]
  OBVIOUS
<1>2. Head(q) \in Members(q)
  BY <1>1 DEF Members
<1>3. Members(Tail(q)) = Members(q) \ {Head(q)}
  <2>1. ASSUME NEW x \in Members(Tail(q)) PROVE x \in Members(q) \ {Head(q)}
    <3>1. PICK i \in 1..Len(q) - 1 : x = Tail(q)[i]
      BY <1>1 DEF Members
    <3>2. i + 1 \in 1..Len(q) /\ 1 \in 1..Len(q) /\ x = q[i + 1]
      BY <1>1, <3>1
    <3>3. x # q[1]
      BY <3>1, <3>2 DEF Distinct
    <3> QED
      BY <1>1, <3>2, <3>3 DEF Members
  <2>2. ASSUME NEW x \in Members(q) \ {Head(q)} PROVE x \in Members(Tail(q))
    <3>1. PICK i \in 1..Len(q) : x = q[i]
      BY DEF Members
    <3>2. i # 1
      BY <1>1, <3>1
    <3>3. i - 1 \in 1..Len(Tail(q)) /\ x = Tail(q)[i - 1]
      BY <1>1, <3>1, <3>2
    <3> QED
      BY <3>3 DEF Members
  <2> QED
    BY <2>1, <2>2
<1>4. Distinct(Tail(q))
  <2> SUFFICES ASSUME NEW i \in 1..Len(q) - 1, NEW j \in 1..Len(q) - 1, i # j
               PROVE  Tail(q)[i] # Tail(q)[j]
    BY <1>1 DEF Distinct
  <2>1. i + 1 \in 1..Len(q) /\ j + 1 \in 1..Len(q) /\ i + 1 # j + 1
    BY <1>1
  <2> QED
    BY <1>1, <2>1 DEF Distinct
<1> QED
  BY <1>1, <1>2, <1>3, <1>4

LEMMA PlaceOfMember ==
  ASSUME NEW T, NEW q \in Seq(T), Distinct(q), NEW i \in 1..Len(q)
  PROVE  PlaceIn(q, q[i]) = i
<1>1. \A j \in 1..Len(q) : q[j] = q[i] => j = i
  BY DEF Distinct
<1> QED
  BY <1>1 DEF PlaceIn


-----------------------------------------------------------------------------
\* The inductive invariant, action by action.

LEMMA StartIInv == Start => IInv
<1> SUFFICES ASSUME Start PROVE IInv
  OBVIOUS
<1>1. TypeOK
  BY SemaphoreAssumption DEF Start, TypeOK
<1>2. \A s \in Sem : wait_queue[s] = <<>> /\ Members(wait_queue[s]) = {}
  BY DEF Start, Members
<1>3. QueueExact
  BY <1>2, SemaphoreAssumption DEF Start, QueueExact, Distinct
<1> QED
  BY <1>1, <1>3, SemaphoreAssumption DEF Start, IInv, SleepOK, AssertionsHold

LEMMA DownIInv ==
  ASSUME IInv, NEW p \in Thread, NEW s \in Sem, Down(p, s)
  PROVE  IInv'
<1>1. CASE value[s] > 0
  <2>1. value' = [value EXCEPT ![s] = @ - 1] /\ UNCHANGED <<queueVars, procVars, exiting, current, failed>>
    BY <1>1 DEF Down, IInv, TypeOK
  <2>2. TypeOK'
    BY <1>1, <2>1 DEF IInv, TypeOK, queueVars, procVars
  <2>3. QueueExact'
    BY <1>1, <2>1 DEF IInv, TypeOK, QueueExact, queueVars, procVars
  <2> QED
    BY <2>1, <2>2, <2>3 DEF IInv, SleepOK, AssertionsHold, queueVars, procVars
<1>2. CASE ~(value[s] > 0)
  <2>1. /\ wakeup_flags' = [wakeup_flags EXCEPT ![p] = "INTERRUPTED"]
        /\ wait_queue' = [wait_queue EXCEPT ![s] = Append(wait_queue[s], p)]
        /\ on' = [on EXCEPT ![p] = s]
        /\ state' = [state EXCEPT ![p] = "SLEEPING"]
        /\ wait_state' = [wait_state EXCEPT ![p] = "KSEM"]
        /\ current' = Nobody
        /\ UNCHANGED <<value, exiting, failed>>
    BY <1>2 DEF Down, Enqueued
  <2>2. on[p] = NoSem /\ state[p] = "RUNNABLE" /\ current = p
    BY SemaphoreAssumption DEF Down, Runs, IInv, SleepOK
  <2>3. p \notin Members(wait_queue[s]) /\ wait_queue[s] \in Seq(Thread) /\ Distinct(wait_queue[s])
    BY <2>2 DEF IInv, QueueExact, TypeOK
  <2>4. /\ Append(wait_queue[s], p) \in Seq(Thread)
        /\ Members(Append(wait_queue[s], p)) = Members(wait_queue[s]) \cup {p}
        /\ Distinct(Append(wait_queue[s], p))
    BY <2>3, MembersAppend
  <2>5. TypeOK'
    BY <2>1, <2>4 DEF IInv, TypeOK
  <2>6. QueueExact'
    <3> SUFFICES ASSUME NEW t \in Sem
                 PROVE  /\ Distinct(wait_queue'[t])
                        /\ Members(wait_queue'[t]) = {q \in Thread : on'[q] = t /\ state'[q] = "SLEEPING"}
                        /\ value'[t] > 0 => wait_queue'[t] = <<>>
      BY DEF QueueExact, Members, Distinct
    <3>1. CASE t # s
      BY <2>1, <2>2, <3>1, SemaphoreAssumption DEF IInv, TypeOK, QueueExact
    <3>2. CASE t = s
      BY <1>2, <2>1, <2>2, <2>4, <3>2 DEF IInv, TypeOK, QueueExact
    <3> QED
      BY <3>1, <3>2
  <2>7. SleepOK'
    BY <2>1, SemaphoreAssumption DEF IInv, TypeOK, SleepOK
  <2> QED
    BY <2>1, <2>5, <2>6, <2>7 DEF IInv, AssertionsHold
<1> QED
  BY <1>1, <1>2

LEMMA DownReturnsIInv ==
  ASSUME IInv, NEW p \in Thread, DownReturns(p)
  PROVE  IInv'
<1>1. state[p] = "RUNNABLE" /\ on[p] \in Sem /\ wakeup_flags[p] = "KSEM"
  BY SemaphoreAssumption DEF DownReturns, IInv, SleepOK, TypeOK
<1>2. p \notin Members(wait_queue[on[p]])
  BY <1>1 DEF IInv, QueueExact
<1>3. wait_queue' = wait_queue
  BY <1>1, <1>2 DEF DownReturns, Dequeued, IInv, TypeOK
<1>4. /\ wakeup_flags' = [wakeup_flags EXCEPT ![p] = "INTERRUPTED"]
      /\ on' = [on EXCEPT ![p] = NoSem]
      /\ UNCHANGED <<value, procVars, exiting, current, failed>>
  BY <1>1 DEF DownReturns
<1>5. TypeOK'
  BY <1>3, <1>4 DEF IInv, TypeOK, procVars
<1>6. QueueExact'
  BY <1>1, <1>3, <1>4, SemaphoreAssumption DEF IInv, TypeOK, QueueExact, procVars
<1>7. SleepOK'
  BY <1>1, <1>4, SemaphoreAssumption DEF IInv, TypeOK, SleepOK, procVars
<1> QED
  BY <1>4, <1>5, <1>6, <1>7 DEF IInv, AssertionsHold

LEMMA TryDownIInv ==
  ASSUME IInv, NEW p \in Thread, NEW s \in Sem, TryDown(p, s)
  PROVE  IInv'
<1>1. TypeOK'
  BY DEF TryDown, IInv, TypeOK, queueVars, procVars
<1>2. QueueExact'
  BY DEF TryDown, IInv, TypeOK, QueueExact, queueVars, procVars
<1> QED
  BY <1>1, <1>2 DEF TryDown, IInv, SleepOK, AssertionsHold, queueVars, procVars

\* up() with a waiter: who it is, and what changes.
LEMMA HandOver ==
  ASSUME IInv, NEW p \in Thread, NEW s \in Sem, Up(p, s), wait_queue[s] # <<>>,
         NEW first, first = Head(wait_queue[s])
  PROVE  /\ first \in Thread /\ on[first] = s /\ state[first] = "SLEEPING"
         /\ wait_queue' = [wait_queue EXCEPT ![s] = Tail(@)]
         /\ wakeup_flags' = [wakeup_flags EXCEPT ![first] = "KSEM"]
         /\ state' = [state EXCEPT ![first] = "RUNNABLE"]
         /\ wait_state' = [wait_state EXCEPT ![first] = "0"]
         /\ UNCHANGED <<value, on, exiting, current, failed>>
         /\ Tail(wait_queue[s]) \in Seq(Thread) /\ Distinct(Tail(wait_queue[s]))
         /\ Members(Tail(wait_queue[s])) = Members(wait_queue[s]) \ {first}
<1>1. wait_queue[s] \in Seq(Thread) /\ Distinct(wait_queue[s])
  BY DEF IInv, TypeOK, QueueExact
<1>2. /\ first \in Members(wait_queue[s]) /\ first \in Thread
      /\ Tail(wait_queue[s]) \in Seq(Thread) /\ Distinct(Tail(wait_queue[s]))
      /\ Members(Tail(wait_queue[s])) = Members(wait_queue[s]) \ {first}
  BY <1>1, MembersTail
<1>3. on[first] = s /\ state[first] = "SLEEPING" /\ wait_state[first] = "KSEM"
  BY <1>2 DEF IInv, QueueExact, SleepOK
<1>4. /\ wait_queue' = [wait_queue EXCEPT ![s] = Tail(@)]
      /\ wakeup_flags' = [wakeup_flags EXCEPT ![first] = "KSEM"]
      /\ Wakeup({first})
      /\ UNCHANGED <<value, on, exiting, current, failed>>
  BY <1>3 DEF Up
<1> QED
  BY <1>2, <1>3, <1>4 DEF Wakeup, IInv, TypeOK

LEMMA UpIInv ==
  ASSUME IInv, NEW p \in Thread, NEW s \in Sem, Up(p, s)
  PROVE  IInv'
<1>1. CASE wait_queue[s] = <<>>
  <2>1. value' = [value EXCEPT ![s] = @ + 1] /\ UNCHANGED <<queueVars, procVars, exiting, current, failed>>
    BY <1>1 DEF Up
  <2>2. TypeOK'
    BY <2>1 DEF IInv, TypeOK, queueVars, procVars
  <2>3. QueueExact'
    BY <1>1, <2>1 DEF IInv, TypeOK, QueueExact, queueVars, procVars
  <2> QED
    BY <2>1, <2>2, <2>3 DEF IInv, SleepOK, AssertionsHold, queueVars, procVars
<1>2. CASE wait_queue[s] # <<>>
  <2> DEFINE first == Head(wait_queue[s])
  <2>1. /\ first \in Thread /\ on[first] = s /\ state[first] = "SLEEPING"
        /\ wait_queue' = [wait_queue EXCEPT ![s] = Tail(@)]
        /\ wakeup_flags' = [wakeup_flags EXCEPT ![first] = "KSEM"]
        /\ state' = [state EXCEPT ![first] = "RUNNABLE"]
        /\ wait_state' = [wait_state EXCEPT ![first] = "0"]
        /\ UNCHANGED <<value, on, exiting, current, failed>>
        /\ Tail(wait_queue[s]) \in Seq(Thread) /\ Distinct(Tail(wait_queue[s]))
        /\ Members(Tail(wait_queue[s])) = Members(wait_queue[s]) \ {first}
    BY <1>2, HandOver
  <2> HIDE DEF first
  <2>2. TypeOK'
    BY <2>1 DEF IInv, TypeOK
  <2>3. QueueExact'
    <3> SUFFICES ASSUME NEW t \in Sem
                 PROVE  /\ Distinct(wait_queue'[t])
                        /\ Members(wait_queue'[t]) = {q \in Thread : on'[q] = t /\ state'[q] = "SLEEPING"}
                        /\ value'[t] > 0 => wait_queue'[t] = <<>>
      BY DEF QueueExact, Members, Distinct
    <3>1. CASE t # s
      BY <2>1, <3>1 DEF IInv, TypeOK, QueueExact
    <3>2. CASE t = s
      BY <1>2, <2>1, <3>2 DEF IInv, TypeOK, QueueExact
    <3> QED
      BY <3>1, <3>2
  <2>4. SleepOK'
    BY <2>1, SemaphoreAssumption DEF IInv, TypeOK, SleepOK
  <2> QED
    BY <2>1, <2>2, <2>3, <2>4 DEF IInv, AssertionsHold
<1> QED
  BY <1>1, <1>2

\* do_kill, which wakes nobody here, and the CPU changing hands.
LEMMA OtherIInv ==
  ASSUME IInv, NEW p \in Thread,
         (\E target \in Thread : Kill(p, target)) \/ Yield(p) \/ Dispatch(p)
  PROVE  IInv' /\ UNCHANGED <<value, queueVars, procVars>>
<1>1. /\ UNCHANGED <<value, queueVars, procVars, failed>>
      /\ exiting' \subseteq Thread
      /\ current' \in {current, Nobody} \/ (current' = p /\ state[p] = "RUNNABLE")
  <2>1. CASE \E target \in Thread : Kill(p, target)
    <3>1. PICK target \in Thread : Kill(p, target)
      BY <2>1
    <3>2. {q \in {target} : wait_state[q] \in Interruptible} = {}
      BY DEF Interruptible, IInv, TypeOK
    <3>3. UNCHANGED procVars
      BY <3>1, <3>2 DEF Kill, Wakeup, IInv, TypeOK, procVars
    <3> QED
      BY <3>1, <3>3 DEF Kill, IInv, TypeOK
  <2>2. CASE Yield(p) \/ Dispatch(p)
    BY <2>2 DEF Yield, Dispatch, IInv, TypeOK
  <2> QED
    BY <2>1, <2>2
<1>2. TypeOK'
  BY <1>1 DEF IInv, TypeOK, queueVars, procVars
<1>3. QueueExact'
  BY <1>1 DEF IInv, QueueExact, queueVars, procVars
<1>4. SleepOK'
  BY <1>1, SemaphoreAssumption DEF IInv, SleepOK, queueVars, procVars
<1> QED
  BY <1>1, <1>2, <1>3, <1>4 DEF IInv, AssertionsHold

\* The invariant holds in every state, for any processes and semaphores.
THEOREM InductiveInvariant == Spec => []IInv
<1>1. Start => IInv
  BY StartIInv
<1>2. IInv /\ [Next]_vars => IInv'
  <2> SUFFICES ASSUME IInv, [Next]_vars PROVE IInv'
    OBVIOUS
  <2>1. CASE Next
    <3>1. PICK p \in Thread :
            \/ \E s \in Sem : Down(p, s) \/ TryDown(p, s) \/ (value[s] < MaxValue /\ Up(p, s))
            \/ DownReturns(p)
            \/ \E target \in Thread : Kill(p, target)
            \/ Yield(p)
            \/ Dispatch(p)
      BY <2>1 DEF Next
    <3> QED
      BY <3>1, DownIInv, TryDownIInv, UpIInv, DownReturnsIInv, OtherIInv
  <2>2. CASE UNCHANGED vars
    BY <2>2 DEF vars, queueVars, procVars, IInv, TypeOK, QueueExact, SleepOK, AssertionsHold
  <2> QED
    BY <2>1, <2>2
<1> QED
  BY <1>1, <1>2, PTL DEF Spec

\* The variables keep their types; no value is ever negative.
THEOREM TypeCorrect == Spec => []TypeOK
BY InductiveInvariant, PTL DEF IInv

\* The wait queues hold exactly the processes asleep in down(), and nobody
\* sleeps beside a free unit.
THEOREM QueuesExact == Spec => []QueueExact
BY InductiveInvariant, PTL DEF IInv

\* No assertion of __up and down fails, whoever is killed.
THEOREM NoAssertionFails == Spec => []AssertionsHold
BY InductiveInvariant, PTL DEF IInv

-----------------------------------------------------------------------------
(***************************************************************************)
(* The refinement: every step is one of SemaphoreSpec, or changes neither  *)
(* credit nor need.                                                        *)
(***************************************************************************)
Credit == [s \in Sem |-> value[s] - Len(wait_queue[s])]
Needs == [p \in Thread |-> Need(p)]

LEMMA StartRefines == Start => Promise!Init
<1> SUFFICES ASSUME Start PROVE Promise!Init
  OBVIOUS
<1>1. \A s \in Sem : Len(wait_queue[s]) = 0 /\ value[s] = InitialValue[s] /\ value[s] \in Nat
  BY SemaphoreAssumption DEF Start
<1>2. Credit = InitialValue
  BY <1>1, SemaphoreAssumption DEF Credit
<1>3. \A p \in Thread : Need(p) = 0
  BY DEF Start, Need
<1> QED
  BY <1>2, <1>3 DEF Promise!Init, Start, Credit

LEMMA CreditStep ==
  ASSUME IInv, NEW s \in Sem, NEW n \in Int,
         \A t \in Sem \ {s} : value'[t] = value[t] /\ wait_queue'[t] = wait_queue[t],
         value'[s] - Len(wait_queue'[s]) = n
  PROVE  Credit' = [Credit EXCEPT ![s] = n]
<1>1. \A t \in Sem : Credit'[t] = value'[t] - Len(wait_queue'[t])
  BY DEF Credit
<1>2. \A t \in Sem \ {s} : Credit'[t] = Credit[t]
  BY DEF Credit
<1>3. Credit'[s] = n
  BY <1>1
<1>4. Credit' = [t \in Sem |-> Credit'[t]] /\ Credit = [t \in Sem |-> Credit[t]]
  BY DEF Credit
<1> QED
  BY <1>2, <1>3, <1>4

LEMMA NeedInQueue ==
  ASSUME IInv, NEW s \in Sem, NEW i \in 1..Len(wait_queue[s]),
         NEW p, p = wait_queue[s][i]
  PROVE  p \in Thread /\ on[p] = s /\ Need(p) = i
<1>1. wait_queue[s] \in Seq(Thread) /\ Distinct(wait_queue[s])
  BY DEF IInv, TypeOK, QueueExact
<1>2. p \in Members(wait_queue[s]) /\ p \in Thread
  BY <1>1 DEF Members
<1>3. on[p] = s
  BY <1>2 DEF IInv, QueueExact
<1>4. PlaceIn(wait_queue[s], p) = i
  BY <1>1, PlaceOfMember
<1> QED
  BY <1>2, <1>3, <1>4, SemaphoreAssumption DEF Need

LEMMA NeedOutside ==
  ASSUME IInv, NEW p \in Thread, state[p] = "RUNNABLE"
  PROVE  Need(p) = 0
BY DEF IInv, TypeOK, QueueExact, Need

LEMMA DownRefines ==
  ASSUME IInv, IInv', NEW p \in Thread, NEW s \in Sem, Down(p, s)
  PROVE  Promise!Down(p, s)
<1> USE DEF Credit, Needs
<1>1. CASE value[s] > 0
  <2>1. value' = [value EXCEPT ![s] = @ - 1] /\ UNCHANGED <<on, wait_queue>>
    BY <1>1 DEF Down, IInv, TypeOK, queueVars
  <2>2. wait_queue[s] = <<>> /\ Len(wait_queue[s]) = 0
    BY <1>1 DEF IInv, QueueExact
  <2>3. \A t \in Sem : value[t] \in Nat /\ Len(wait_queue[t]) \in Nat
    BY DEF IInv, TypeOK
  <2>4. Credit' = [Credit EXCEPT ![s] = @ - 1] /\ Credit[s] > 0
    <3>1. /\ \A t \in Sem \ {s} : value'[t] = value[t] /\ wait_queue'[t] = wait_queue[t]
          /\ value'[s] = value[s] - 1 /\ wait_queue'[s] = wait_queue[s]
      BY <2>1 DEF IInv, TypeOK
    <3>2. Credit[s] = value[s] /\ value[s] \in Nat
      BY <2>2, <2>3
    <3>3. value'[s] - Len(wait_queue'[s]) = Credit[s] - 1
      BY <2>2, <3>1, <3>2
    <3> HIDE DEF Credit
    <3>4. Credit' = [Credit EXCEPT ![s] = Credit[s] - 1]
      BY <3>1, <3>2, <3>3, CreditStep
    <3> QED
      BY <1>1, <3>2, <3>4
  <2>5. Needs' = Needs
    BY <2>1 DEF Need
  <2> QED
    BY <2>1, <2>4, <2>5 DEF Promise!Down, Down, Runs
<1>2. CASE ~(value[s] > 0)
  <2> DEFINE q == wait_queue[s]
             r == Append(wait_queue[s], p)
  <2>1. /\ wait_queue' = [wait_queue EXCEPT ![s] = r]
        /\ on' = [on EXCEPT ![p] = s]
        /\ UNCHANGED value
        /\ on[p] = NoSem /\ current = p
    BY <1>2 DEF Down, Enqueued, Runs
  <2>2. q \in Seq(Thread) /\ r \in Seq(Thread) /\ Len(q) \in Nat /\ Len(r) = Len(q) + 1
        /\ r[Len(q) + 1] = p /\ \A i \in 1..Len(q) : r[i] = q[i]
    BY DEF IInv, TypeOK
  <2>3. \A t \in Sem : value[t] \in Nat /\ Len(wait_queue[t]) \in Nat
    BY DEF IInv, TypeOK
  <2>4. value[s] = 0
    BY <1>2, <2>3
  <2>5. Credit' = [Credit EXCEPT ![s] = @ - 1] /\ Credit[s] = 0 - Len(q)
    <3>1. /\ \A t \in Sem \ {s} : value'[t] = value[t] /\ wait_queue'[t] = wait_queue[t]
          /\ value'[s] = value[s] /\ wait_queue'[s] = r
      BY <2>1 DEF IInv, TypeOK
    <3>2. Credit[s] = 0 - Len(q)
      BY <2>4
    <3>3. value'[s] - Len(wait_queue'[s]) = Credit[s] - 1 /\ Credit[s] - 1 \in Int
      BY <2>2, <2>4, <3>1, <3>2
    <3> HIDE DEF Credit
    <3>4. Credit' = [Credit EXCEPT ![s] = Credit[s] - 1]
      BY <3>1, <3>3, CreditStep
    <3> QED
      BY <3>2, <3>4
  <2>6. wait_queue'[s] = r /\ on'[p] = s
    BY <2>1 DEF IInv, TypeOK
  <2>7. Distinct(r)
    BY <2>6 DEF IInv, QueueExact
  <2>8. Need(p)' = Len(q) + 1
    <3>1. Len(q) + 1 \in 1..Len(r)
      BY <2>2
    <3>2. PlaceIn(r, p) = Len(q) + 1
      BY <2>2, <2>7, <3>1, PlaceOfMember
    <3>3. p \in Members(r)
      BY <2>2, <3>1 DEF Members
    <3> QED
      BY <2>6, <3>2, <3>3, SemaphoreAssumption DEF Need
  <2>9. ASSUME NEW u \in Thread, u # p PROVE Need(u)' = Need(u)
    <3>1. on'[u] = on[u]
      BY <2>1, <2>9 DEF IInv, TypeOK
    <3>2. CASE on[u] = s /\ u \in Members(q)
      <4>1. PICK i \in 1..Len(q) : u = q[i]
        BY <3>2 DEF Members
      <4>2. Need(u) = i
        BY <4>1, NeedInQueue
      <4>3. i \in 1..Len(r) /\ r[i] = u
        BY <2>2, <4>1
      <4>4. PlaceIn(r, u) = i /\ u \in Members(r)
        BY <2>2, <2>7, <4>3, PlaceOfMember DEF Members
      <4> QED
        BY <2>6, <3>1, <3>2, <4>2, <4>4, SemaphoreAssumption DEF Need
    <3>3. CASE on[u] = s /\ u \notin Members(q)
      <4>1. p \notin Members(q)
        BY <2>1, SemaphoreAssumption DEF IInv, QueueExact
      <4>2. q \in Seq(Thread) /\ Distinct(q)
        BY <2>2 DEF IInv, QueueExact
      <4>3. Members(r) = Members(q) \cup {p}
        BY <4>1, <4>2, MembersAppend
      <4> QED
        BY <2>6, <2>9, <3>1, <3>3, <4>3 DEF Need
    <3>4. CASE on[u] # s
      <4>1. on[u] # NoSem => wait_queue'[on[u]] = wait_queue[on[u]]
        BY <2>1, <3>4 DEF IInv, TypeOK
      <4> QED
        BY <3>1, <4>1 DEF Need
    <3> QED
      BY <3>2, <3>3, <3>4
  <2>10. Needs' = [Needs EXCEPT ![p] = 1 - Credit[s]]
    <3>1. 1 - Credit[s] = Len(q) + 1
      BY <2>2, <2>5
    <3> QED
      BY <2>8, <2>9, <3>1
  <2>11. ~(Credit[s] > 0)
    BY <2>2, <2>5
  <2> QED
    BY <2>1, <2>5, <2>10, <2>11 DEF Promise!Down
<1> QED
  BY <1>1, <1>2

LEMMA ReturnRefines ==
  ASSUME IInv, IInv', NEW p \in Thread, DownReturns(p)
  PROVE  Promise!Return(p)
<1>1. state[p] = "RUNNABLE" /\ on[p] \in Sem
  BY SemaphoreAssumption DEF DownReturns, IInv, SleepOK, TypeOK
<1>2. p \notin Members(wait_queue[on[p]])
  BY <1>1 DEF IInv, QueueExact
<1>3. /\ wait_queue' = wait_queue /\ on' = [on EXCEPT ![p] = NoSem] /\ UNCHANGED value
      /\ on[p] # NoSem
  BY <1>1, <1>2 DEF DownReturns, Dequeued, IInv, TypeOK
<1>4. Need(p) = 0 /\ Need(p)' = 0
  BY <1>1, <1>2, <1>3 DEF Need, IInv, TypeOK
<1>5. \A u \in Thread \ {p} : Need(u)' = Need(u)
  BY <1>3 DEF Need, IInv, TypeOK
<1>6. Needs' = Needs /\ Credit' = Credit
  BY <1>3, <1>4, <1>5 DEF Needs, Credit
<1> QED
  BY <1>3, <1>4, <1>6 DEF Promise!Return, Needs, Credit

LEMMA TryDownRefines ==
  ASSUME IInv, NEW p \in Thread, NEW s \in Sem, TryDown(p, s)
  PROVE  Promise!TryDown(s)
<1>1. value[s] > 0 /\ value' = [value EXCEPT ![s] = @ - 1] /\ UNCHANGED <<on, wait_queue>>
  BY DEF TryDown, queueVars
<1>2. Len(wait_queue[s]) = 0
  BY <1>1 DEF IInv, QueueExact
<1>3. \A t \in Sem : value[t] \in Nat /\ Len(wait_queue[t]) \in Nat
  BY DEF IInv, TypeOK
<1>4. Credit' = [Credit EXCEPT ![s] = @ - 1] /\ Credit[s] > 0
  <2>1. /\ \A t \in Sem \ {s} : value'[t] = value[t] /\ wait_queue'[t] = wait_queue[t]
        /\ value'[s] = value[s] - 1 /\ wait_queue'[s] = wait_queue[s]
    BY <1>1 DEF IInv, TypeOK
  <2>2. Credit[s] = value[s] /\ value[s] \in Nat
    BY <1>2, <1>3 DEF Credit
  <2>3. value'[s] - Len(wait_queue'[s]) = Credit[s] - 1
    BY <1>2, <2>1, <2>2
  <2>4. Credit' = [Credit EXCEPT ![s] = Credit[s] - 1]
    BY <2>1, <2>2, <2>3, CreditStep
  <2> QED
    BY <1>1, <2>2, <2>4
<1>5. Needs' = Needs
  BY <1>1 DEF Needs, Need
<1> QED
  BY <1>1, <1>4, <1>5 DEF Promise!TryDown, Credit, Needs

LEMMA UpRefines ==
  ASSUME IInv, IInv', NEW p \in Thread, NEW s \in Sem, Up(p, s)
  PROVE  Promise!Up(s)
<1> DEFINE Paid(u) == IF on[u] = s /\ Need(u) > 0 THEN Need(u) - 1 ELSE Need(u)
<1>1. \A t \in Sem : value[t] \in Nat /\ Len(wait_queue[t]) \in Nat
  BY DEF IInv, TypeOK
<1>2. on' = on
  BY DEF Up, queueVars
<1>3. Credit' = [Credit EXCEPT ![s] = @ + 1] /\ \A u \in Thread : Need(u)' = Paid(u)
  <2>1. CASE wait_queue[s] = <<>>
    <3>1. value' = [value EXCEPT ![s] = @ + 1] /\ wait_queue' = wait_queue
      BY <2>1 DEF Up, queueVars
    <3>2. Credit' = [Credit EXCEPT ![s] = @ + 1]
      <4>1. /\ \A t \in Sem \ {s} : value'[t] = value[t] /\ wait_queue'[t] = wait_queue[t]
            /\ value'[s] = value[s] + 1 /\ wait_queue'[s] = wait_queue[s]
        BY <3>1 DEF IInv, TypeOK
      <4>2. Credit[s] = value[s] - Len(wait_queue[s])
        BY DEF Credit
      <4>3. value'[s] - Len(wait_queue'[s]) = Credit[s] + 1 /\ Credit[s] + 1 \in Int
        BY <1>1, <4>1, <4>2
      <4>4. Credit' = [Credit EXCEPT ![s] = Credit[s] + 1]
        BY <4>1, <4>3, CreditStep
      <4> QED
        BY <4>4
    <3>3. \A u \in Thread : on[u] = s => Need(u) = 0
      BY <2>1 DEF Need, Members
    <3>4. \A u \in Thread : Need(u)' = Need(u)
      BY <1>2, <3>1 DEF Need
    <3> QED
      BY <3>2, <3>3, <3>4
  <2>2. CASE wait_queue[s] # <<>>
    <3> DEFINE q == wait_queue[s]
    <3>1. /\ wait_queue' = [wait_queue EXCEPT ![s] = Tail(@)] /\ UNCHANGED value
          /\ Members(Tail(q)) = Members(q) \ {Head(q)}
          /\ Tail(q) \in Seq(Thread) /\ Distinct(Tail(q))
      BY <2>2, HandOver
    <3>2. /\ q \in Seq(Thread) /\ Head(q) = q[1] /\ Len(q) \in Nat \ {0}
          /\ Len(Tail(q)) = Len(q) - 1 /\ \A i \in 1..Len(q) - 1 : Tail(q)[i] = q[i + 1]
      BY <2>2 DEF IInv, TypeOK
    <3>3. Credit' = [Credit EXCEPT ![s] = @ + 1]
      <4>1. /\ \A t \in Sem \ {s} : value'[t] = value[t] /\ wait_queue'[t] = wait_queue[t]
            /\ value'[s] = value[s] /\ wait_queue'[s] = Tail(q)
        BY <3>1 DEF IInv, TypeOK
      <4>2. Credit[s] = value[s] - Len(q)
        BY DEF Credit
      <4>3. value'[s] - Len(wait_queue'[s]) = Credit[s] + 1 /\ Credit[s] + 1 \in Int
        BY <1>1, <3>2, <4>1, <4>2
      <4>4. Credit' = [Credit EXCEPT ![s] = Credit[s] + 1]
        BY <4>1, <4>3, CreditStep
      <4> QED
        BY <4>4
    <3>4. wait_queue'[s] = Tail(q)
      BY <3>1 DEF IInv, TypeOK
    <3>5. ASSUME NEW u \in Thread PROVE Need(u)' = Paid(u)
      <4>1. CASE on[u] = s /\ u \in Members(q)
        <5>1. PICK i \in 1..Len(q) : u = q[i]
          BY <4>1 DEF Members
        <5>2. Need(u) = i
          BY <5>1, NeedInQueue
        <5>3. CASE i = 1
          <6>1. u \notin Members(Tail(q))
            BY <3>1, <3>2, <5>1, <5>3
          <6> QED
            BY <1>2, <3>4, <4>1, <5>2, <5>3, <6>1 DEF Need
        <5>4. CASE i # 1
          <6>1. i - 1 \in 1..Len(Tail(q)) /\ Tail(q)[i - 1] = u
            BY <3>2, <5>1, <5>4
          <6>2. PlaceIn(Tail(q), u) = i - 1 /\ u \in Members(Tail(q))
            BY <3>1, <6>1, PlaceOfMember DEF Members
          <6>3. Need(u)' = i - 1
            BY <1>2, <3>4, <4>1, <6>2, SemaphoreAssumption DEF Need
          <6> QED
            BY <3>2, <4>1, <5>2, <6>3
        <5> QED
          BY <5>3, <5>4
      <4>2. CASE on[u] = s /\ u \notin Members(q)
        <5>1. Need(u) = 0
          BY <4>2 DEF Need
        <5>2. Need(u)' = 0
          BY <1>2, <3>1, <3>4, <4>2 DEF Need
        <5> QED
          BY <5>1, <5>2
      <4>3. CASE on[u] # s
        <5>1. on[u] # NoSem => wait_queue'[on[u]] = wait_queue[on[u]]
          BY <3>1, <4>3 DEF IInv, TypeOK
        <5> QED
          BY <1>2, <4>3, <5>1 DEF Need
      <4> QED
        BY <4>1, <4>2, <4>3
    <3> QED
      BY <3>3, <3>5
  <2> QED
    BY <2>1, <2>2
<1> QED
  BY <1>2, <1>3 DEF Promise!Up, Credit

\* Semaphore implements SemaphoreSpec: a down() returns after exactly the calls
\* of up() that pay for it and for all before it.
THEOREM Refines == Spec => InTurn
<1>1. Start => Promise!Init
  BY StartRefines
<1>2. IInv /\ IInv' /\ [Next]_vars => [Promise!Next]_<<Credit, on, Needs>>
  <2> SUFFICES ASSUME IInv, IInv', [Next]_vars
               PROVE  Promise!Next \/ UNCHANGED <<Credit, on, Needs>>
    OBVIOUS
  <2>1. CASE Next
    <3>1. PICK p \in Thread :
            \/ \E s \in Sem : Down(p, s) \/ TryDown(p, s) \/ (value[s] < MaxValue /\ Up(p, s))
            \/ DownReturns(p)
            \/ \E target \in Thread : Kill(p, target)
            \/ Yield(p)
            \/ Dispatch(p)
      BY <2>1 DEF Next
    <3>2. CASE \E s \in Sem : Down(p, s) \/ TryDown(p, s) \/ (value[s] < MaxValue /\ Up(p, s))
      BY <3>2, DownRefines, TryDownRefines, UpRefines DEF Promise!Next
    <3>3. CASE DownReturns(p)
      BY <3>3, ReturnRefines DEF Promise!Next
    <3>4. CASE (\E target \in Thread : Kill(p, target)) \/ Yield(p) \/ Dispatch(p)
      <4>1. UNCHANGED <<value, queueVars>>
        BY <3>4, OtherIInv
      <4> QED
        BY <4>1 DEF queueVars, Credit, Needs, Need
    <3> QED
      BY <3>1, <3>2, <3>3, <3>4
  <2>2. CASE UNCHANGED vars
    BY <2>2 DEF vars, queueVars, Credit, Needs, Need
  <2> QED
    BY <2>1, <2>2
<1>3. Spec => []IInv
  BY InductiveInvariant
<1> QED
  BY <1>1, <1>2, <1>3, PTL DEF Spec, InTurn, Promise!Spec, Credit, Needs

=============================================================================
