---------------------------- MODULE KernelProofs ----------------------------
(***************************************************************************)
(* Proofs about module Kernel, for any number of processes.                *)
(***************************************************************************)
EXTENDS Kernel, FiniteSetTheorems, TLAPS

-----------------------------------------------------------------------------
(***************************************************************************)
(* Sequences without repetition: the run queue as a set.                   *)
(***************************************************************************)

\* Appending an element adds it to the elements (RR_enqueue).
LEMMA ElementsAppend ==
  ASSUME NEW S, NEW q \in Seq(S), NEW x \in S, Distinct(q), x \notin Elements(q)
  PROVE  /\ Append(q, x) \in Seq(S)
         /\ Append(q, x) # <<>>
         /\ Distinct(Append(q, x))
         /\ Elements(Append(q, x)) = Elements(q) \cup {x}
<1> DEFINE r == Append(q, x)
<1>1. r \in Seq(S) /\ Len(r) = Len(q) + 1 /\ Len(q) \in Nat
  OBVIOUS
<1>2. \A i \in 1..Len(q) : r[i] = q[i]
  OBVIOUS
<1>3. r[Len(q) + 1] = x
  OBVIOUS
<1>4. Distinct(r)
  BY <1>1, <1>2, <1>3 DEF Distinct, Elements
<1>5. Elements(r) = Elements(q) \cup {x}
  BY <1>1, <1>2, <1>3 DEF Elements
<1> QED
  BY <1>1, <1>4, <1>5

\* Concatenation unites the elements (several wakeups at one tick or exit).
LEMMA ElementsConcat ==
  ASSUME NEW S, NEW q \in Seq(S), NEW s \in Seq(S), Distinct(q), Distinct(s),
         Elements(q) \cap Elements(s) = {}
  PROVE  /\ q \o s \in Seq(S)
         /\ Distinct(q \o s)
         /\ Elements(q \o s) = Elements(q) \cup Elements(s)
<1> DEFINE r == q \o s
<1>1. r \in Seq(S) /\ Len(r) = Len(q) + Len(s) /\ Len(q) \in Nat /\ Len(s) \in Nat
  OBVIOUS
<1>2. \A i \in 1..Len(q) : r[i] = q[i]
  OBVIOUS
<1>3. \A i \in 1..Len(s) : r[Len(q) + i] = s[i]
  OBVIOUS
<1>4. \A i \in 1..Len(r) : i \in 1..Len(q) \/ (i - Len(q) \in 1..Len(s) /\ r[i] = s[i - Len(q)])
  <2> TAKE i \in 1..Len(r)
  <2>1. CASE i \in 1..Len(q)
    BY <2>1
  <2>2. CASE i \notin 1..Len(q)
    <3>1. i - Len(q) \in 1..Len(s) /\ Len(q) + (i - Len(q)) = i
      BY <1>1, <2>2
    <3> QED
      BY <3>1, <1>3
  <2> QED
    BY <2>1, <2>2
<1>5. Elements(r) = Elements(q) \cup Elements(s)
  <2>1. Elements(r) \subseteq Elements(q) \cup Elements(s)
    BY <1>2, <1>4 DEF Elements
  <2>2. Elements(q) \subseteq Elements(r)
    BY <1>1, <1>2 DEF Elements
  <2>3. Elements(s) \subseteq Elements(r)
    <3> SUFFICES ASSUME NEW x \in Elements(s) PROVE x \in Elements(r)
      OBVIOUS
    <3>1. PICK i \in 1..Len(s) : x = s[i]
      BY DEF Elements
    <3>2. Len(q) + i \in 1..Len(r) /\ r[Len(q) + i] = x
      BY <1>1, <1>3, <3>1
    <3> QED
      BY <3>2 DEF Elements
  <2> QED
    BY <2>1, <2>2, <2>3
<1>6. Distinct(r)
  <2> SUFFICES ASSUME NEW i \in 1..Len(r), NEW j \in 1..Len(r), i # j
               PROVE  r[i] # r[j]
    BY DEF Distinct
  <2>1. CASE i \in 1..Len(q) /\ j \in 1..Len(q)
    BY <1>2, <2>1 DEF Distinct
  <2>2. CASE i \notin 1..Len(q) /\ j \notin 1..Len(q)
    <3>1. i - Len(q) # j - Len(q)
      BY <1>1
    <3> QED
      BY <1>4, <2>2, <3>1 DEF Distinct
  <2>3. CASE i \in 1..Len(q) /\ j \notin 1..Len(q)
    <3>1. r[i] \in Elements(q) /\ r[j] \in Elements(s)
      BY <1>2, <1>4, <2>3 DEF Elements
    <3> QED
      BY <3>1
  <2>4. CASE i \notin 1..Len(q) /\ j \in 1..Len(q)
    <3>1. r[i] \in Elements(s) /\ r[j] \in Elements(q)
      BY <1>2, <1>4, <2>4 DEF Elements
    <3> QED
      BY <3>1
  <2> QED
    BY <2>1, <2>2, <2>3, <2>4
<1> QED
  BY <1>1, <1>5, <1>6

\* Dequeuing takes exactly the head away (RR_pick_next, RR_dequeue).
LEMMA ElementsTail ==
  ASSUME NEW S, NEW q \in Seq(S), Distinct(q), q # <<>>
  PROVE  /\ Head(q) \in S
         /\ Tail(q) \in Seq(S)
         /\ Distinct(Tail(q))
         /\ Head(q) \in Elements(q)
         /\ Elements(Tail(q)) = Elements(q) \ {Head(q)}
<1>1. Tail(q) \in Seq(S) /\ Len(Tail(q)) = Len(q) - 1 /\ Len(q) \in Nat \ {0}
  OBVIOUS
<1>2. \A i \in 1..Len(q) - 1 : Tail(q)[i] = q[i + 1]
  OBVIOUS
<1>3. Head(q) = q[1] /\ 1 \in 1..Len(q)
  BY <1>1
<1>4. Distinct(Tail(q))
  <2> SUFFICES ASSUME NEW i \in 1..Len(q) - 1, NEW j \in 1..Len(q) - 1, i # j
               PROVE  Tail(q)[i] # Tail(q)[j]
    BY <1>1 DEF Distinct
  <2>1. i + 1 \in 1..Len(q) /\ j + 1 \in 1..Len(q) /\ i + 1 # j + 1
    BY <1>1
  <2> QED
    BY <2>1, <1>2 DEF Distinct
<1>5. Elements(Tail(q)) \subseteq Elements(q) \ {Head(q)}
  <2> SUFFICES ASSUME NEW x \in Elements(Tail(q)) PROVE x \in Elements(q) \ {Head(q)}
    OBVIOUS
  <2>1. PICK i \in 1..Len(q) - 1 : x = q[i + 1]
    BY <1>1, <1>2 DEF Elements
  <2>2. i + 1 \in 1..Len(q) /\ i + 1 # 1
    BY <1>1
  <2> QED
    BY <2>1, <2>2, <1>3 DEF Elements, Distinct
<1>6. Elements(q) \ {Head(q)} \subseteq Elements(Tail(q))
  <2> SUFFICES ASSUME NEW x \in Elements(q) \ {Head(q)} PROVE x \in Elements(Tail(q))
    OBVIOUS
  <2>1. PICK i \in 1..Len(q) : x = q[i]
    BY DEF Elements
  <2>2. i # 1 /\ i - 1 \in 1..Len(q) - 1 /\ (i - 1) + 1 = i
    BY <1>1, <1>3, <2>1
  <2>3. x = Tail(q)[i - 1]
    BY <1>2, <2>1, <2>2
  <2> QED
    BY <1>1, <2>2, <2>3 DEF Elements
<1> QED
  BY <1>1, <1>3, <1>4, <1>5, <1>6 DEF Elements

-----------------------------------------------------------------------------
(***************************************************************************)
(* Type correctness.                                                       *)
(***************************************************************************)

LEMMA ProcsFinite == IsFiniteSet(Procs)
<1>1. IsFiniteSet({Idle, Init})
  BY FS_AddElement, FS_EmptySet, {Idle, Init} = ({} \cup {Idle}) \cup {Init}, ZenonT(60)
<1> QED
  BY <1>1, FS_Union, KernelAssumption DEF Procs

\* An order of a set of processes is a sequence of them.
LEMMA OrdersAreSequences ==
  ASSUME NEW S \in SUBSET Procs, NEW s \in Orders(S)
  PROVE  s \in Seq(Procs) /\ Distinct(s) /\ Elements(s) = S
<1>1. IsFiniteSet(S) /\ Cardinality(S) \in Nat
  BY ProcsFinite, FS_Subset, FS_CardinalityType
<1>2. s \in [1..Cardinality(S) -> S]
  BY DEF Orders
<1>3. s \in Seq(Procs)
  BY <1>1, <1>2
<1> QED
  BY <1>3 DEF Orders

WaitStates == {"0", "CHILD", "TIMER"}

\* wakeup_proc keeps the types of what it changes.
LEMMA WakeupTypes ==
  ASSUME TypeOK, NEW st \in [Procs -> States], NEW ws \in [Procs -> WaitStates],
         NEW W \in SUBSET Procs, WakeupProcs(st, ws, W)
  PROVE  /\ state' \in [Procs -> States]
         /\ wait_state' \in [Procs -> WaitStates]
         /\ rq' \in Seq(Procs)
         /\ failed' \subseteq Asserts
<1>1. PICK s \in Orders(Queued(st, W)) : rq' = rq \o s
  BY DEF WakeupProcs
<1>2. s \in Seq(Procs)
  BY OrdersAreSequences DEF Queued
<1>3. rq' \in Seq(Procs)
  BY <1>1, <1>2 DEF TypeOK
<1>4. failed' \subseteq Asserts
  BY DEF WakeupProcs, FailedWakeups, TypeOK, Asserts
<1> QED
  BY <1>3, <1>4 DEF WakeupProcs, States, WaitStates

LEMMA RefillTypes ==
  ASSUME TypeOK, NEW S
  PROVE  RefilledAll(S) \in [Procs -> 0..MaxSlice]
BY KernelAssumption DEF RefilledAll, Refilled, TypeOK

LEMMA StartTypes == Start => TypeOK
<1> SUFFICES ASSUME Start PROVE TypeOK
  OBVIOUS
<1>1. rq \in Seq(Procs)
  BY DEF Start, Procs
<1>2. need_resched \in [Procs -> BOOLEAN]
  BY Zenon DEF Start
<1>3. /\ state \in [Procs -> States]
      /\ wait_state \in [Procs -> {"0", "CHILD", "TIMER"}]
      /\ pc \in [Procs -> Places]
  BY DEF Start, States, Places
<1>4. /\ parent \in [Procs -> Procs \cup {NoProc}]
      /\ waitfor \in [Procs -> User \cup {NoProc}]
      /\ current \in Procs
  BY DEF Start, Procs
<1>5. left \in [Procs -> 0..MaxSleep] /\ time_slice \in [Procs -> 0..MaxSlice]
  BY KernelAssumption DEF Start
<1> QED
  BY <1>1, <1>2, <1>3, <1>4, <1>5 DEF Start, TypeOK, Asserts

LEMMA DoExitTypes ==
  ASSUME TypeOK, NEW p \in Procs, DoExit(p) PROVE TypeOK'
<1> DEFINE st == [state EXCEPT ![p] = "ZOMBIE"]
           W  == WokenByExit(p)
<1>1. st \in [Procs -> States] /\ wait_state \in [Procs -> WaitStates]
  BY DEF TypeOK, States, WaitStates
<1>2. W \in SUBSET Procs /\ WakeupProcs(st, wait_state, W)
  BY DEF WokenByExit, DoExit
<1>3. /\ state' \in [Procs -> States]
      /\ wait_state' \in [Procs -> WaitStates]
      /\ rq' \in Seq(Procs)
      /\ failed' \subseteq Asserts
  <2> HIDE DEF st, W
  <2> QED
    BY <1>1, <1>2, WakeupTypes
<1>4. time_slice' \in [Procs -> 0..MaxSlice]
  BY RefillTypes DEF DoExit
<1>5. parent' \in [Procs -> Procs \cup {NoProc}]
  BY DEF DoExit, Adopted, TypeOK, Procs
<1>6. pc' \in [Procs -> Places]
  BY DEF DoExit, CallSchedule, TypeOK, Places
<1> QED
  BY <1>3, <1>4, <1>5, <1>6 DEF DoExit, CallSchedule, TypeOK, WaitStates

LEMMA DoForkTypes ==
  ASSUME TypeOK, NEW p \in Procs, NEW c \in Procs, DoFork(p, c), pc' \in [Procs -> Places]
  PROVE  TypeOK'
<1> DEFINE ws == [wait_state EXCEPT ![p] = "0"]
<1>1. state \in [Procs -> States] /\ ws \in [Procs -> WaitStates]
  BY DEF TypeOK, WaitStates
<1>2. WakeupProcs(state, ws, {c})
  BY DEF DoFork
<1>3. /\ state' \in [Procs -> States]
      /\ wait_state' \in [Procs -> WaitStates]
      /\ rq' \in Seq(Procs)
      /\ failed' \subseteq Asserts
  <2> HIDE DEF ws
  <2> QED
    BY <1>1, <1>2, WakeupTypes
<1>4. time_slice' \in [Procs -> 0..MaxSlice]
  BY RefillTypes DEF DoFork
<1> QED
  BY <1>3, <1>4 DEF DoFork, TypeOK, WaitStates

LEMMA DoWaitTypes ==
  ASSUME TypeOK, NEW p \in Procs, NEW pid \in User \cup {NoProc}, DoWait(p, pid)
  PROVE  TypeOK'
<1>1. \A ok \in BOOLEAN : ReturnPlace(p, ok) \in Places
  BY DEF ReturnPlace, Places
<1>2. ASSUME NEW c \in Live, Reap(p, c) PROVE TypeOK'
  <2>1. c \in Procs
    BY <1>2 DEF Live
  <2>2. pc' \in [Procs -> Places]
    BY <1>1, <1>2 DEF Reap, TypeOK, Places
  <2>3. in_schedule' \in BOOLEAN
    BY <1>2, Zenon DEF Reap, DoWaitReturns
  <2>4. waitfor' \in [Procs -> User \cup {NoProc}]
    BY <1>2 DEF Reap, DoWaitReturns, TypeOK
  <2>5. time_slice' \in [Procs -> 0..MaxSlice]
    <3>1. 0 \in 0..MaxSlice /\ time_slice' = [time_slice EXCEPT ![c] = 0]
      BY <1>2, KernelAssumption DEF Reap
    <3> QED
      BY <2>1, <3>1 DEF TypeOK
  <2> QED
    BY <1>2, <2>1, <2>2, <2>3, <2>4, <2>5 DEF Reap, TypeOK, States
<1>3. ASSUME SleepForChild(p, pid) PROVE TypeOK'
  BY <1>3 DEF SleepForChild, CallSchedule, schedVars, TypeOK, States, Places
<1>4. ASSUME NoSuchChild(p) PROVE TypeOK'
  <2>1. pc' \in [Procs -> Places]
    BY <1>1, <1>4 DEF NoSuchChild, TypeOK
  <2>2. in_schedule' \in BOOLEAN
    BY <1>4, Zenon DEF NoSuchChild, DoWaitReturns
  <2>3. waitfor' \in [Procs -> User \cup {NoProc}]
    BY <1>4 DEF NoSuchChild, DoWaitReturns, TypeOK
  <2>4. UNCHANGED <<state, wait_state, exiting, parent, schedVars, left, current, failed>>
    BY <1>4 DEF NoSuchChild
  <2> QED
    BY <2>1, <2>2, <2>3, <2>4 DEF schedVars, TypeOK
<1> QED
  BY <1>2, <1>3, <1>4 DEF DoWait, Zombies, Awaited, Children

LEMMA DoSleepTypes ==
  ASSUME TypeOK, NEW p \in Procs, NEW time \in 1..MaxSleep, DoSleep(p, time)
  PROVE  TypeOK'
BY KernelAssumption
DEF DoSleep, CallSchedule, treeVars, schedVars, TypeOK, States, Places

LEMMA ScheduleTypes == ASSUME TypeOK, Schedule PROVE TypeOK'
<1> DEFINE requeue == {p \in {current} \ {Idle} : state[p] = "RUNNABLE"}
           queue   == IF requeue = {} THEN rq ELSE Append(rq, current)
<1>1. queue \in Seq(Procs)
  BY DEF TypeOK
<1>2. queue # <<>> => Head(queue) \in Procs /\ Tail(queue) \in Seq(Procs)
  <2> HIDE DEF queue
  <2> QED
    BY <1>1
<1>3. current' \in Procs /\ rq' \in Seq(Procs)
  <2>1. /\ rq' = IF queue = <<>> THEN queue ELSE Tail(queue)
        /\ current' = IF queue = <<>> THEN Idle ELSE Head(queue)
    BY DEF Schedule
  <2> HIDE DEF queue
  <2> QED
    BY <1>1, <1>2, <2>1 DEF Procs
<1>4. time_slice' \in [Procs -> 0..MaxSlice]
  BY RefillTypes DEF Schedule
<1>5. need_resched' \in [Procs -> BOOLEAN]
  BY Zenon DEF Schedule, TypeOK
<1> QED
  BY <1>3, <1>4, <1>5 DEF Schedule, treeVars, TypeOK, Asserts

LEMMA KernelStepTypes == ASSUME TypeOK, KernelStep PROVE TypeOK'
<1>1. CASE Schedule
  BY <1>1, ScheduleTypes
<1>2. ASSUME NEW p \in User, TrapReturn(p) PROVE TypeOK'
  <2>1. p \in Procs /\ current = p
    BY <1>2 DEF TrapReturn, At, Procs
  <2>2. CASE DoExit(p)
    BY <2>1, <2>2, DoExitTypes
  <2>3. CASE ~DoExit(p)
    BY <1>2, <2>1, <2>3
    DEF TrapReturn, CallSchedule, treeVars, schedVars, TypeOK, Places
  <2> QED
    BY <2>2, <2>3
<1>3. ASSUME NEW p \in User \cup {Init}, Waited(p) PROVE TypeOK'
  BY <1>3, DoExitTypes, DoWaitTypes DEF Waited, TypeOK, Procs
<1>4. ASSUME NEW p \in User \cup KThread, Slept(p) PROVE TypeOK'
  BY <1>4, KernelAssumption DEF Slept, treeVars, schedVars, TypeOK, Places, Procs
<1>5. ASSUME NEW c \in User \cup KThread, InitSpawn(c) PROVE TypeOK'
  <2>1. Init \in Procs /\ c \in Procs
    BY DEF Procs
  <2>2. pc' \in [Procs -> Places]
    BY <1>5, <2>1 DEF InitSpawn, TypeOK, Places
  <2> QED
    BY <1>5, <2>1, <2>2, DoForkTypes DEF InitSpawn
<1>6. CASE InitWait
  BY <1>6, DoWaitTypes DEF InitWait, Procs
<1>7. CASE InitFinish
  BY <1>7 DEF InitFinish, treeVars, schedVars, TypeOK, Places, Asserts
<1>8. CASE CpuIdle
  BY <1>8 DEF CpuIdle, CallSchedule, treeVars, schedVars, TypeOK, Places
<1> QED
  BY <1>1, <1>2, <1>3, <1>4, <1>5, <1>6, <1>7, <1>8 DEF KernelStep

LEMMA UserStepTypes == ASSUME TypeOK, UserStep PROVE TypeOK'
<1> PICK p \in User :
    \/ \E c \in User : SysFork(p, c)
    \/ SysExit(p)
    \/ \E pid \in User \cup {NoProc} : SysWait(p, pid)
    \/ SysYield(p)
    \/ SysReturn(p)
    \/ \E time \in 1..MaxSleep : SysSleep(p, time)
    \/ \E target \in User \cup KThread : SysKill(p, target)
  BY DEF UserStep
<1>a. p \in Procs /\ User \subseteq Procs /\ KThread \subseteq Procs
  BY DEF Procs
<1>1. ASSUME NEW c \in User, SysFork(p, c) PROVE TypeOK'
  <2>1. pc' \in [Procs -> Places]
    BY <1>1, <1>a DEF SysFork, TypeOK, Places
  <2> QED
    BY <1>1, <1>a, <2>1, DoForkTypes DEF SysFork
<1>2. CASE SysExit(p)
  BY <1>2, <1>a, DoExitTypes DEF SysExit
<1>3. ASSUME NEW pid \in User \cup {NoProc}, SysWait(p, pid) PROVE TypeOK'
  BY <1>3, <1>a, DoWaitTypes DEF SysWait
<1>4. CASE SysYield(p)
  BY <1>4 DEF SysYield, treeVars, TypeOK, Places
<1>5. CASE SysReturn(p)
  BY <1>5 DEF SysReturn, treeVars, schedVars, TypeOK, Places
<1>6. ASSUME NEW time \in 1..MaxSleep, SysSleep(p, time) PROVE TypeOK'
  BY <1>6, <1>a, DoSleepTypes DEF SysSleep
<1>7. ASSUME NEW target \in User \cup KThread, SysKill(p, target) PROVE TypeOK'
  <2> DEFINE W == {q \in {target} : wait_state[q] \in Interruptible}
  <2>1. W \in SUBSET Procs /\ WakeupProcs(state, wait_state, W)
    BY <1>7, <1>a DEF SysKill
  <2>2. state \in [Procs -> States] /\ wait_state \in [Procs -> WaitStates]
    BY DEF TypeOK, WaitStates
  <2>3. /\ state' \in [Procs -> States]
        /\ wait_state' \in [Procs -> WaitStates]
        /\ rq' \in Seq(Procs)
        /\ failed' \subseteq Asserts
    <3> HIDE DEF W
    <3> QED
      BY <2>1, <2>2, WakeupTypes
  <2>4. time_slice' \in [Procs -> 0..MaxSlice]
    BY <1>7, RefillTypes DEF SysKill
  <2>5. pc' \in [Procs -> Places]
    BY <1>7 DEF SysKill, TypeOK, Places
  <2> QED
    BY <1>7, <2>3, <2>4, <2>5 DEF SysKill, TypeOK, WaitStates
<1> QED
  BY <1>1, <1>2, <1>3, <1>4, <1>5, <1>6, <1>7

LEMMA TickTypes == ASSUME TypeOK, Tick PROVE TypeOK'
<1> DEFINE due == {p \in Procs : left[p] = 1}
<1>1. due \in SUBSET Procs /\ WakeupProcs(state, wait_state, due)
  BY DEF Tick
<1>2. state \in [Procs -> States] /\ wait_state \in [Procs -> WaitStates]
  BY DEF TypeOK, WaitStates
<1>3. /\ state' \in [Procs -> States]
      /\ wait_state' \in [Procs -> WaitStates]
      /\ rq' \in Seq(Procs)
      /\ failed' \subseteq Asserts
  <2> HIDE DEF due
  <2> QED
    BY <1>1, <1>2, WakeupTypes
<1>4. time_slice' \in [Procs -> 0..MaxSlice]
  <2> DEFINE refilled == RefilledAll(Queued(state, due))
  <2>1. refilled \in [Procs -> 0..MaxSlice]
    BY RefillTypes
  <2>2. Charged(current) \in 0..MaxSlice
    BY KernelAssumption DEF Charged, TypeOK
  <2>3. time_slice' = [refilled EXCEPT ![current] = Charged(current)]
    BY DEF Tick
  <2> HIDE DEF refilled
  <2> QED
    BY <2>1, <2>2, <2>3
<1>5. left' \in [Procs -> 0..MaxSleep]
  BY KernelAssumption DEF Tick, TypeOK
<1>6. need_resched' \in [Procs -> BOOLEAN]
  BY Zenon DEF Tick, TypeOK
<1>7. pc' \in [Procs -> Places]
  BY DEF Tick, TypeOK, Places
<1> QED
  BY <1>3, <1>4, <1>5, <1>6, <1>7 DEF Tick, treeVars, TypeOK, WaitStates

\* The fields of the processes, the run queue and the timers keep their types;
\* in particular no time slice falls below 0 and none exceeds the maximum.
THEOREM TypeCorrect == Spec => []TypeOK
<1>1. TypeOK /\ [Next]_vars => TypeOK'
  <2> SUFFICES ASSUME TypeOK, [Next]_vars PROVE TypeOK'
    OBVIOUS
  <2>1. CASE KernelStep
    BY <2>1, KernelStepTypes
  <2>2. CASE KThreadStep
    <3>1. PICK k \in KThread : KExit(k) \/ \E time \in 1..MaxSleep : KSleep(k, time)
      BY <2>2 DEF KThreadStep
    <3> QED
      BY <3>1, DoExitTypes, DoSleepTypes DEF KExit, KSleep, Procs
  <2>3. CASE UserStep
    BY <2>3, UserStepTypes
  <2>4. CASE Tick
    BY <2>4, TickTypes
  <2>5. CASE Halted \/ UNCHANGED vars
    BY <2>5 DEF Halted, vars, TypeOK
  <2> QED
    BY <2>1, <2>2, <2>3, <2>4, <2>5 DEF Next
<1> QED
  BY <1>1, StartTypes, PTL DEF Spec

-----------------------------------------------------------------------------
(***************************************************************************)
(* The inductive invariant.  The run queue alone is not inductive: that a  *)
(* wakeup finds its target off the queue rests on where each process is.   *)
(***************************************************************************)

\* Where a process is in its code fits its state and what it waits for.
PlaceOf(p) ==
  /\ state[p] = "unused" <=> pc[p] = "unused"
  /\ state[p] = "ZOMBIE" <=> pc[p] = "dead"
  /\ state[p] = "SLEEPING" <=> wait_state[p] # "0"
  /\ wait_state[p] = "CHILD" => pc[p] = "waited"
  /\ wait_state[p] = "TIMER" => pc[p] = "slept"
  /\ left[p] > 0 => pc[p] = "slept"

\* idleproc never blocks, and initproc stays in init_main.
BootOK ==
  /\ pc[Idle] = "idle" /\ state[Idle] = "RUNNABLE"
  /\ pc[Init] \in {"spawn", "do_wait", "waited", "no_child", "halted"}
  /\ waitfor[Init] = NoProc

PlaceOK == BootOK /\ \A p \in Procs : PlaceOf(p)

\* The current process exists, and is RUNNABLE until it calls schedule().
CurrentOK ==
  /\ state[current] # "unused"
  /\ ~in_schedule => state[current] = "RUNNABLE"

\* Only initproc is a child of idleproc, and parents are live processes.
ParentOK ==
  /\ parent[Init] = Idle /\ parent[Idle] = NoProc
  /\ \A c \in Live \ {Idle, Init} :
       parent[c] \in Live \ {Idle} /\ state[parent[c]] # "ZOMBIE"

Grounded == \A S \in SUBSET (Live \ {Idle}) : S # {} => \E c \in S : parent[c] \notin S

InitDone == pc[Init] = "no_child" => Live = {Idle, Init}

IInv ==
  /\ PlaceOK
  /\ CurrentOK
  /\ RunQueueExact
  /\ ParentOK
  /\ Grounded
  /\ InitDone
  /\ NoLostWakeup
  /\ AssertionsHold

LEMMA StartIInv == Start => IInv
<1> SUFFICES ASSUME Start PROVE IInv
  OBVIOUS
<1>1. PlaceOK /\ CurrentOK
  BY KernelAssumption DEF Start, PlaceOK, PlaceOf, BootOK, CurrentOK, Procs
<1>2. RunQueueExact
  <2>1. Len(rq) = 1 /\ rq[1] = Init
    BY DEF Start
  <2>2. Distinct(rq) /\ Elements(rq) = {Init}
    BY <2>1 DEF Distinct, Elements
  <2> QED
    BY <2>2, KernelAssumption DEF Start, RunQueueExact, Procs
<1>3. Live = {Idle, Init}
  BY DEF Start, Live, Procs
<1>4. ParentOK /\ Grounded /\ InitDone
  BY <1>3, KernelAssumption DEF Start, ParentOK, Grounded, InitDone, Procs
<1>5. NoLostWakeup /\ AssertionsHold
  BY DEF Start, NoLostWakeup, AssertionsHold
<1> QED
  BY <1>1, <1>2, <1>4, <1>5 DEF IInv

(***************************************************************************)
(* Steps that neither wake, start, end nor block a process.                *)
(***************************************************************************)

\* The conjuncts that read only the states, the tree and the timers survive a
\* step that leaves these as they are.
LEMMA QuietStep ==
  ASSUME IInv,
         UNCHANGED <<state, wait_state, parent, rq, current, failed>>,
         PlaceOK', CurrentOK',
         \A p \in Procs : state[p] = "SLEEPING" =>
           left'[p] = left[p] /\ waitfor'[p] = waitfor[p],
         pc'[Init] = "no_child" => Live = {Idle, Init}
  PROVE  IInv'
<1>1. Live' = Live /\ RunQueueExact' /\ AssertionsHold'
  BY DEF IInv, Live, RunQueueExact, AssertionsHold
<1>2. ParentOK' /\ Grounded' /\ InitDone'
  BY <1>1 DEF IInv, ParentOK, Grounded, InitDone
<1>3. \A p, pid : /\ Awaited(p, pid)' = Awaited(p, pid)
                  /\ Zombies(Awaited(p, pid))' = Zombies(Awaited(p, pid))
  BY <1>1 DEF Awaited, Children, Zombies
<1>4. NoLostWakeup'
  BY <1>3 DEF IInv, NoLostWakeup
<1> QED
  BY <1>1, <1>2, <1>4 DEF IInv

LEMMA SysYieldReturnIInv ==
  ASSUME TypeOK, IInv, NEW p \in User, SysYield(p) \/ SysReturn(p)
  PROVE  IInv'
<1>1. PlaceOK' /\ CurrentOK' /\ pc'[Init] = pc[Init]
  BY KernelAssumption
  DEF SysYield, SysReturn, At, treeVars, schedVars, IInv, PlaceOK, PlaceOf, BootOK, CurrentOK, TypeOK, Procs
<1> QED
  BY <1>1, QuietStep DEF SysYield, SysReturn, treeVars, schedVars, IInv, InitDone

LEMMA TrapReturnIInv ==
  ASSUME TypeOK, IInv, NEW p \in User, TrapReturn(p), p \notin exiting
  PROVE  IInv'
<1>1. PlaceOK' /\ CurrentOK' /\ pc'[Init] = pc[Init]
  BY KernelAssumption
  DEF TrapReturn, CallSchedule, At, treeVars, schedVars, IInv, PlaceOK, PlaceOf, BootOK, CurrentOK, TypeOK, Procs
<1> QED
  BY <1>1, QuietStep DEF TrapReturn, treeVars, schedVars, IInv, InitDone

LEMMA SleptIInv ==
  ASSUME TypeOK, IInv, NEW p \in User \cup KThread, Slept(p)
  PROVE  IInv'
<1>1. PlaceOK' /\ CurrentOK' /\ pc'[Init] = pc[Init]
  BY KernelAssumption
  DEF Slept, At, treeVars, schedVars, IInv, PlaceOK, PlaceOf, BootOK, CurrentOK, TypeOK, Procs
<1>2. state[p] # "SLEEPING" /\ \A q \in Procs \ {p} : left'[q] = left[q]
  BY DEF Slept, At, IInv, CurrentOK, TypeOK
<1> QED
  BY <1>1, <1>2, QuietStep DEF Slept, treeVars, schedVars, IInv, InitDone

LEMMA CpuIdleIInv == ASSUME TypeOK, IInv, CpuIdle PROVE IInv'
<1>1. PlaceOK' /\ CurrentOK' /\ pc'[Init] = pc[Init]
  BY KernelAssumption
  DEF CpuIdle, CallSchedule, At, treeVars, schedVars, IInv, PlaceOK, PlaceOf, BootOK, CurrentOK, TypeOK, Procs
<1> QED
  BY <1>1, QuietStep DEF CpuIdle, treeVars, schedVars, IInv, InitDone

\* When initproc has no children, nobody but idleproc and it is left: a group
\* of others would have no parent outside it.
LEMMA ChildlessInit ==
  ASSUME IInv, Children(Init) = {} PROVE Live = {Idle, Init}
<1> DEFINE S == Live \ {Idle, Init}
<1>1. Idle \in Live /\ Init \in Live
  BY DEF IInv, PlaceOK, PlaceOf, BootOK, Live, Procs
<1>2. ASSUME S # {} PROVE FALSE
  <2>1. PICK c \in S : parent[c] \notin S
    BY <1>2 DEF IInv, Grounded
  <2>2. parent[c] = Init
    BY <2>1 DEF IInv, ParentOK
  <2> QED
    BY <2>2 DEF Children
<1> QED
  BY <1>1, <1>2

\* A step of one process leaves the places of the others as they are.
LEMMA PlaceOfOne ==
  ASSUME PlaceOK, NEW p \in Procs, PlaceOf(p)', BootOK',
         \A q \in Procs \ {p} : /\ state'[q] = state[q] /\ pc'[q] = pc[q]
                                /\ wait_state'[q] = wait_state[q] /\ left'[q] = left[q]
  PROVE  PlaceOK'
<1> SUFFICES ASSUME NEW q \in Procs PROVE PlaceOf(q)'
  BY DEF PlaceOK
<1>1. CASE q = p
  BY <1>1
<1>2. CASE q # p
  BY <1>2 DEF PlaceOK, PlaceOf
<1> QED
  BY <1>1, <1>2

LEMMA NoSuchChildIInv ==
  ASSUME TypeOK, IInv, NEW p \in User \cup {Init}, current = p, ~in_schedule, pc[p] # "slept",
         NEW pid, p = Init => pid = NoProc,
         Awaited(p, pid) = {}, NoSuchChild(p)
  PROVE  IInv'
<1> DEFINE place == ReturnPlace(p, FALSE)
<1>1. /\ pc' = [pc EXCEPT ![p] = place]
      /\ waitfor' = [waitfor EXCEPT ![p] = NoProc]
      /\ UNCHANGED <<state, wait_state, parent, rq, left, current, failed>>
  BY DEF NoSuchChild, DoWaitReturns, schedVars
<1>0. place \in {"trapret", "no_child"} /\ (p = Init => place = "no_child")
  BY DEF ReturnPlace
<1> HIDE DEF place
<1>2. p \in Procs /\ state[p] = "RUNNABLE"
  BY DEF IInv, CurrentOK, Procs
<1>3. PlaceOK'
  <2>1. pc'[p] \in {"trapret", "no_child"} /\ (p = Init => pc'[p] = "no_child")
    BY <1>0, <1>1, <1>2 DEF TypeOK
  <2>2. pc[p] \notin {"unused", "dead"} /\ wait_state[p] = "0"
    BY <1>2 DEF IInv, PlaceOK, PlaceOf
  <2>3. left[p] = 0
    BY <1>2 DEF IInv, PlaceOK, PlaceOf, TypeOK
  <2>4. PlaceOf(p)'
    BY <1>1, <1>2, <2>1, <2>2, <2>3 DEF PlaceOf
  <2>5. BootOK'
    BY <1>1, <1>2, <2>1, KernelAssumption DEF IInv, PlaceOK, BootOK, TypeOK, Procs
  <2> QED
    BY <1>1, <1>2, <2>4, <2>5, PlaceOfOne DEF IInv, TypeOK
<1>4. CurrentOK'
  BY <1>1, <1>2 DEF CurrentOK
<1>5. pc'[Init] = "no_child" => Live = {Idle, Init}
  <2>1. CASE p = Init
    <3>1. Children(Init) = {}
      BY <2>1 DEF Awaited
    <3> QED
      BY <3>1, ChildlessInit
  <2>2. CASE p # Init
    BY <1>1, <2>2 DEF IInv, InitDone, TypeOK, Procs
  <2> QED
    BY <2>1, <2>2
<1>6. \A q \in Procs : state[q] = "SLEEPING" => waitfor'[q] = waitfor[q]
  BY <1>1, <1>2 DEF TypeOK
<1> QED
  BY <1>1, <1>3, <1>4, <1>5, <1>6, QuietStep

(***************************************************************************)
(* Blocking.                                                               *)
(***************************************************************************)

\* Only the set of zombies and the tree decide what do_wait sees.
LEMMA SameZombies ==
  ASSUME Live' = Live, parent' = parent,
         \A q \in Procs : state'[q] = "ZOMBIE" <=> state[q] = "ZOMBIE"
  PROVE  \A p, pid : /\ Awaited(p, pid)' = Awaited(p, pid)
                     /\ Zombies(Awaited(p, pid))' = Zombies(Awaited(p, pid))
BY DEF Awaited, Children, Zombies, Live

\* The current process falls asleep with a cause to wake it.
LEMMA BlockIInv ==
  ASSUME TypeOK, IInv, NEW p \in Procs \ {Idle}, current = p, ~in_schedule,
         state' = [state EXCEPT ![p] = "SLEEPING"],
         UNCHANGED <<parent, rq, current, failed>>, in_schedule' = TRUE,
         PlaceOK', pc'[Init] # "no_child",
         \A q \in Procs \ {p} : /\ wait_state'[q] = wait_state[q]
                                /\ waitfor'[q] = waitfor[q]
                                /\ left'[q] = left[q],
         \/ /\ wait_state'[p] = "CHILD"
            /\ Awaited(p, waitfor'[p]) # {}
            /\ Zombies(Awaited(p, waitfor'[p])) = {}
         \/ wait_state'[p] = "TIMER" /\ left'[p] > 0
  PROVE  IInv'
<1>1. state[p] = "RUNNABLE"
  BY DEF IInv, CurrentOK
<1>2. \A q \in Procs : /\ state'[q] = "ZOMBIE" <=> state[q] = "ZOMBIE"
                       /\ state'[q] = "unused" <=> state[q] = "unused"
  BY <1>1 DEF TypeOK
<1>3. Live' = Live
  BY <1>2 DEF Live
<1>4. CurrentOK' /\ AssertionsHold' /\ InitDone'
  BY DEF CurrentOK, AssertionsHold, InitDone, IInv, TypeOK
<1>5. RunQueueExact'
  BY <1>1 DEF IInv, RunQueueExact, TypeOK
<1>6. ParentOK' /\ Grounded'
  BY <1>2, <1>3 DEF IInv, ParentOK, Grounded, Live
<1>7. NoLostWakeup'
  <2> SUFFICES ASSUME NEW q \in Procs, state'[q] = "SLEEPING"
               PROVE  \/ /\ wait_state'[q] = "CHILD"
                         /\ Awaited(q, waitfor'[q]) # {}
                         /\ Zombies(Awaited(q, waitfor'[q])) = {}
                      \/ wait_state'[q] = "TIMER" /\ left'[q] > 0
    BY <1>2, <1>3, SameZombies DEF NoLostWakeup
  <2>1. CASE q = p
    BY <2>1
  <2>2. CASE q # p
    BY <2>2 DEF IInv, NoLostWakeup, TypeOK
  <2> QED
    BY <2>1, <2>2
<1> QED
  BY <1>4, <1>5, <1>6, <1>7 DEF IInv

LEMMA SleepForChildIInv ==
  ASSUME TypeOK, IInv, NEW p \in User \cup {Init}, current = p, ~in_schedule, pc[p] # "slept",
         NEW pid, p = Init => pid = NoProc,
         Awaited(p, pid) # {}, Zombies(Awaited(p, pid)) = {}, SleepForChild(p, pid)
  PROVE  IInv'
<1>1. p \in Procs \ {Idle} /\ state[p] = "RUNNABLE"
  BY KernelAssumption DEF IInv, CurrentOK, Procs
<1>2. PlaceOK'
  <2>1. left[p] = 0
    BY <1>1 DEF IInv, PlaceOK, PlaceOf, TypeOK
  <2>2. PlaceOf(p)'
    BY <1>1, <2>1 DEF SleepForChild, CallSchedule, PlaceOf, TypeOK
  <2>3. BootOK'
    BY <1>1 DEF SleepForChild, CallSchedule, IInv, PlaceOK, BootOK, TypeOK, Procs
  <2> QED
    BY <1>1, <2>2, <2>3, PlaceOfOne DEF SleepForChild, CallSchedule, IInv, TypeOK
<1>3. pc'[Init] # "no_child"
  <2>1. CASE p = Init
    BY <2>1, <1>1 DEF SleepForChild, CallSchedule, TypeOK
  <2>2. CASE p # Init
    BY <2>2, <1>1, KernelAssumption
    DEF SleepForChild, CallSchedule, IInv, InitDone, Live, TypeOK
  <2> QED
    BY <2>1, <2>2
<1>4. /\ waitfor'[p] = pid /\ wait_state'[p] = "CHILD"
      /\ \A q \in Procs \ {p} : /\ wait_state'[q] = wait_state[q]
                                /\ waitfor'[q] = waitfor[q]
                                /\ left'[q] = left[q]
  BY <1>1 DEF SleepForChild, TypeOK
<1>5. /\ state' = [state EXCEPT ![p] = "SLEEPING"]
      /\ UNCHANGED <<parent, rq, current, failed>>
      /\ in_schedule' = TRUE
  BY DEF SleepForChild, CallSchedule, schedVars
<1> QED
  BY <1>1, <1>2, <1>3, <1>4, <1>5, BlockIInv

LEMMA DoSleepIInv ==
  ASSUME TypeOK, IInv, NEW p \in User \cup KThread, current = p, ~in_schedule,
         NEW time \in 1..MaxSleep, DoSleep(p, time)
  PROVE  IInv'
<1>1. p \in Procs \ {Idle, Init} /\ state[p] = "RUNNABLE"
  BY KernelAssumption DEF IInv, CurrentOK, Procs
<1>2. PlaceOK'
  <2>1. PlaceOf(p)'
    BY <1>1 DEF DoSleep, CallSchedule, PlaceOf, TypeOK
  <2>2. BootOK'
    BY <1>1 DEF DoSleep, CallSchedule, treeVars, IInv, PlaceOK, BootOK, TypeOK, Procs
  <2> QED
    BY <1>1, <2>1, <2>2, PlaceOfOne DEF DoSleep, CallSchedule, IInv, TypeOK
<1>3. pc'[Init] # "no_child"
  BY <1>1, KernelAssumption
  DEF DoSleep, CallSchedule, IInv, InitDone, Live, TypeOK
<1>4. /\ left'[p] = time /\ time > 0 /\ wait_state'[p] = "TIMER"
      /\ \A q \in Procs \ {p} : /\ wait_state'[q] = wait_state[q]
                                /\ waitfor'[q] = waitfor[q]
                                /\ left'[q] = left[q]
  BY <1>1 DEF DoSleep, treeVars, TypeOK
<1>5. /\ state' = [state EXCEPT ![p] = "SLEEPING"]
      /\ UNCHANGED <<parent, rq, current, failed>>
      /\ in_schedule' = TRUE
  BY DEF DoSleep, CallSchedule, treeVars, schedVars
<1> QED
  BY <1>1, <1>2, <1>3, <1>4, <1>5, BlockIInv

(***************************************************************************)
(* schedule().                                                             *)
(***************************************************************************)

LEMMA ScheduleIInv == ASSUME TypeOK, IInv, Schedule PROVE IInv'
<1> DEFINE requeue == {p \in {current} \ {Idle} : state[p] = "RUNNABLE"}
           queue   == IF requeue = {} THEN rq ELSE Append(rq, current)
           ready   == {p \in Procs \ {Idle} : state[p] = "RUNNABLE"}
<1>1. rq \in Seq(Procs) /\ Distinct(rq) /\ current \notin Elements(rq)
  BY DEF IInv, RunQueueExact, TypeOK
<1>2. queue \in Seq(Procs) /\ Distinct(queue) /\ Elements(queue) = ready
  <2>1. CASE requeue = {}
    BY <1>1, <2>1 DEF IInv, RunQueueExact
  <2>2. CASE requeue # {}
    <3>1. current \in Procs \ {Idle} /\ state[current] = "RUNNABLE" /\ queue = Append(rq, current)
      BY <2>2 DEF TypeOK
    <3>2. /\ Append(rq, current) \in Seq(Procs) /\ Distinct(Append(rq, current))
          /\ Elements(Append(rq, current)) = Elements(rq) \cup {current}
      BY <1>1, <3>1, ElementsAppend
    <3> QED
      BY <3>1, <3>2 DEF IInv, RunQueueExact
  <2> QED
    BY <2>1, <2>2
<1>3. /\ rq' = IF queue = <<>> THEN queue ELSE Tail(queue)
      /\ current' = IF queue = <<>> THEN Idle ELSE Head(queue)
      /\ failed' = failed \cup {"run_link_linked" : p \in requeue \cap Elements(rq)}
      /\ UNCHANGED <<state, wait_state, parent, waitfor, pc, left>>
  BY DEF Schedule, treeVars
<1>4. /\ Distinct(rq') /\ Elements(rq') = ready \ {current'}
      /\ current' \in ready \cup {Idle}
  <2> HIDE DEF queue, ready
  <2>1. CASE queue = <<>>
    <3>1. Elements(queue) = {}
      BY <2>1 DEF Elements
    <3> QED
      BY <1>2, <1>3, <2>1, <3>1
  <2>2. CASE queue # <<>>
    BY <1>2, <1>3, <2>2, ElementsTail
  <2> QED
    BY <2>1, <2>2
<1>5. RunQueueExact'
  BY <1>3, <1>4 DEF RunQueueExact
<1>6. CurrentOK'
  BY <1>3, <1>4 DEF IInv, PlaceOK, BootOK, CurrentOK
<1>7. AssertionsHold'
  BY <1>1, <1>3 DEF IInv, AssertionsHold
<1>8. PlaceOK' /\ Live' = Live
  BY <1>3 DEF IInv, PlaceOK, PlaceOf, BootOK, Live
<1>9. ParentOK' /\ Grounded' /\ InitDone'
  BY <1>3, <1>8 DEF IInv, ParentOK, Grounded, InitDone
<1>10. NoLostWakeup'
  <2>1. \A p, pid : /\ Awaited(p, pid)' = Awaited(p, pid)
                    /\ Zombies(Awaited(p, pid))' = Zombies(Awaited(p, pid))
    BY <1>3, <1>8, SameZombies
  <2> QED
    BY <1>3, <2>1 DEF IInv, NoLostWakeup
<1> QED
  BY <1>5, <1>6, <1>7, <1>8, <1>9, <1>10 DEF IInv

(***************************************************************************)
(* Waking.                                                                 *)
(***************************************************************************)

\* wakeup_proc of processes none of which is a zombie or queued queues those
\* that were not RUNNABLE, and no assertion of it or of RR_enqueue fails.
LEMMA WakeupQueues ==
  ASSUME TypeOK, IInv, NEW st, NEW ws, NEW W \in SUBSET Procs,
         WakeupProcs(st, ws, W),
         \A w \in W : st[w] # "ZOMBIE",
         \A w \in W : st[w] # "RUNNABLE" => w \notin Elements(rq)
  PROVE  /\ Distinct(rq')
         /\ Elements(rq') = Elements(rq) \cup Queued(st, W)
         /\ failed' = failed
<1>1. PICK s \in Orders(Queued(st, W)) : rq' = rq \o s
  BY DEF WakeupProcs
<1>2. s \in Seq(Procs) /\ Distinct(s) /\ Elements(s) = Queued(st, W)
  BY OrdersAreSequences DEF Queued
<1>3. Elements(rq) \cap Elements(s) = {} /\ rq \in Seq(Procs) /\ Distinct(rq)
  BY <1>2 DEF Queued, IInv, RunQueueExact, TypeOK
<1>4. Distinct(rq') /\ Elements(rq') = Elements(rq) \cup Elements(s)
  BY <1>1, <1>2, <1>3, ElementsConcat
<1>5. failed' = failed
  BY DEF WakeupProcs, FailedWakeups
<1> QED
  BY <1>2, <1>4, <1>5

\* A step that only wakes sleepers keeps everything but the timers, for which
\* it is enough that a process that stays asleep keeps its timer.
LEMMA WakeSleepers ==
  ASSUME TypeOK, IInv, NEW W \in SUBSET Procs, WakeupProcs(state, wait_state, W),
         \A w \in W : state[w] \in {"SLEEPING", "RUNNABLE"},
         UNCHANGED <<parent, waitfor, current, in_schedule>>,
         \A p \in Procs : (pc'[p] = pc[p])
                            \/ (pc[p] = "user" /\ pc'[p] = "trapret"),
         \A p \in Procs : left'[p] > 0 => left[p] > 0,
         \A p \in Procs \ W : wait_state[p] = "TIMER" => left'[p] > 0
  PROVE  IInv'
<1>1. /\ Distinct(rq') /\ failed' = failed
      /\ Elements(rq') = Elements(rq) \cup Queued(state, W)
  <2>1. \A w \in W : state[w] # "RUNNABLE" => w \notin Elements(rq)
    BY DEF IInv, RunQueueExact
  <2> QED
    BY <2>1, WakeupQueues
<1>2. /\ \A p \in Procs : state'[p] = IF p \in W THEN "RUNNABLE" ELSE state[p]
      /\ \A p \in Procs : wait_state'[p] = IF p \in W /\ state[p] # "RUNNABLE"
                                           THEN "0" ELSE wait_state[p]
  BY DEF WakeupProcs
<1>3. \A p \in Procs : /\ state'[p] = "ZOMBIE" <=> state[p] = "ZOMBIE"
                       /\ state'[p] = "unused" <=> state[p] = "unused"
  BY <1>2
<1>4. Live' = Live
  BY <1>3 DEF Live
<1>5. PlaceOK'
  <2>1. BootOK'
    BY <1>2 DEF IInv, PlaceOK, BootOK, Procs
  <2>2. ASSUME NEW p \in Procs PROVE PlaceOf(p)'
    <3>1. PlaceOf(p)
      BY DEF IInv, PlaceOK
    <3>2. CASE p \in W
      BY <1>2, <3>1, <3>2 DEF PlaceOf
    <3>3. CASE p \notin W
      BY <1>2, <3>1, <3>3 DEF PlaceOf
    <3> QED
      BY <3>2, <3>3
  <2> QED
    BY <2>1, <2>2 DEF PlaceOK
<1>6. CurrentOK'
  BY <1>2 DEF IInv, CurrentOK, TypeOK
<1>7. RunQueueExact'
  <2>1. Elements(rq) = {p \in Procs \ {Idle, current} : state[p] = "RUNNABLE"}
    BY DEF IInv, RunQueueExact
  <2>2. Queued(state, W) = {p \in W \ {current} : state[p] # "RUNNABLE"}
    BY DEF Queued
  <2>3. state[Idle] = "RUNNABLE"
    BY DEF IInv, PlaceOK, BootOK
  <2>4. Elements(rq') = {p \in Procs \ {Idle, current} : state'[p] = "RUNNABLE"}
    BY <1>1, <1>2, <2>1, <2>2, <2>3
  <2> QED
    BY <1>1, <2>4 DEF RunQueueExact
<1>8. ParentOK' /\ Grounded' /\ AssertionsHold'
  BY <1>1, <1>3, <1>4 DEF IInv, ParentOK, Grounded, AssertionsHold, Live
<1>9. InitDone'
  BY <1>4 DEF IInv, InitDone, Procs
<1>10. NoLostWakeup'
  <2>1. \A p, pid : /\ Awaited(p, pid)' = Awaited(p, pid)
                    /\ Zombies(Awaited(p, pid))' = Zombies(Awaited(p, pid))
    BY <1>3, <1>4, SameZombies
  <2>2. ASSUME NEW p \in Procs, state'[p] = "SLEEPING"
        PROVE  p \notin W /\ state[p] = "SLEEPING" /\ wait_state'[p] = wait_state[p]
    BY <1>2, <2>2
  <2> QED
    BY <2>1, <2>2 DEF IInv, NoLostWakeup
<1> QED
  BY <1>5, <1>6, <1>7, <1>8, <1>9, <1>10 DEF IInv

\* What the places say of a process with a timer.
LEMMA TimerPlace ==
  ASSUME TypeOK, IInv, NEW p \in Procs
  PROVE  /\ wait_state[p] = "TIMER" => state[p] = "SLEEPING" /\ left[p] > 0
         /\ left[p] > 0 => pc[p] = "slept" /\ state[p] \in {"SLEEPING", "RUNNABLE"}
<1>1. PlaceOf(p)
  BY DEF IInv, PlaceOK
<1>2. wait_state[p] = "TIMER" => state[p] = "SLEEPING"
  BY <1>1 DEF PlaceOf
<1>3. state[p] = "SLEEPING" /\ wait_state[p] = "TIMER" => left[p] > 0
  BY DEF IInv, NoLostWakeup
<1>4. left[p] > 0 => pc[p] = "slept"
  BY <1>1 DEF PlaceOf
<1>5. pc[p] = "slept" => state[p] # "unused" /\ state[p] # "ZOMBIE"
  BY <1>1 DEF PlaceOf
<1>6. state[p] \in {"unused", "RUNNABLE", "SLEEPING", "ZOMBIE"}
  BY DEF TypeOK, States
<1> QED
  BY <1>2, <1>3, <1>4, <1>5, <1>6

LEMMA SysKillIInv ==
  ASSUME TypeOK, IInv, NEW p \in User, NEW target \in User \cup KThread,
         SysKill(p, target)
  PROVE  IInv'
<1> DEFINE W == {q \in {target} : wait_state[q] \in Interruptible}
<1>1. W \in SUBSET Procs /\ \A w \in W : state[w] = "SLEEPING"
  BY DEF Interruptible, IInv, PlaceOK, PlaceOf, Procs
<1>2. /\ WakeupProcs(state, wait_state, W)
      /\ UNCHANGED <<parent, waitfor, left, current, in_schedule>>
      /\ pc' = [pc EXCEPT ![p] = "trapret"] /\ pc[p] = "user"
  BY DEF SysKill, At
<1>3. \A q \in Procs \ W : wait_state[q] = "TIMER" => left'[q] > 0
  BY <1>2, TimerPlace
<1>4. \A q \in Procs : pc'[q] = pc[q] \/ (pc[q] = "user" /\ pc'[q] = "trapret")
  BY <1>2 DEF TypeOK
<1> HIDE DEF W
<1> QED
  BY <1>1, <1>2, <1>3, <1>4, WakeSleepers

LEMMA TickIInv == ASSUME TypeOK, IInv, Tick PROVE IInv'
<1> DEFINE due == {p \in Procs : left[p] = 1}
<1>1. due \in SUBSET Procs /\ \A w \in due : state[w] \in {"SLEEPING", "RUNNABLE"}
  BY TimerPlace
<1>2. /\ WakeupProcs(state, wait_state, due)
      /\ UNCHANGED <<parent, waitfor, current, in_schedule>>
      /\ pc' = [pc EXCEPT ![current] = IF @ = "user" THEN "trapret" ELSE @]
      /\ left' = [p \in Procs |-> IF left[p] > 0 THEN left[p] - 1 ELSE 0]
  BY DEF Tick, treeVars
<1>3. \A p \in Procs : left'[p] > 0 => left[p] > 0
  BY <1>2 DEF TypeOK
<1>4. \A p \in Procs \ due : wait_state[p] = "TIMER" => left'[p] > 0
  <2> SUFFICES ASSUME NEW p \in Procs \ due, wait_state[p] = "TIMER" PROVE left'[p] > 0
    OBVIOUS
  <2>1. left[p] > 0 /\ left[p] # 1 /\ left[p] \in Nat
    BY TimerPlace DEF TypeOK
  <2> QED
    BY <1>2, <2>1
<1>5. \A q \in Procs : pc'[q] = pc[q] \/ (pc[q] = "user" /\ pc'[q] = "trapret")
  BY <1>2 DEF TypeOK
<1> HIDE DEF due
<1> QED
  BY <1>1, <1>2, <1>3, <1>4, <1>5, WakeSleepers

(***************************************************************************)
(* do_fork, do_exit and the reaping end of do_wait.                        *)
(***************************************************************************)

\* What NoLostWakeup says of a sleeping process.
SleepEnds(q) ==
  \/ /\ wait_state[q] = "CHILD"
     /\ Awaited(q, waitfor[q]) # {}
     /\ Zombies(Awaited(q, waitfor[q])) = {}
  \/ wait_state[q] = "TIMER" /\ left[q] > 0

LEMMA DoForkIInv ==
  ASSUME TypeOK, IInv, NEW p \in User \cup {Init}, current = p, ~in_schedule, pc[p] # "slept",
         NEW c \in User \cup KThread, DoFork(p, c),
         NEW place \in {"user", "kernel"}, NEW next \in {"trapret", "spawn", "do_wait"},
         p = Init => next # "trapret",
         pc' = [pc EXCEPT ![c] = place, ![p] = next]
  PROVE  IInv'
<1>1. /\ p \in Procs /\ c \in Procs /\ state[p] = "RUNNABLE" /\ state[c] = "unused"
      /\ c # p /\ c # Idle /\ c # Init /\ p # Idle
  BY KernelAssumption DEF DoFork, IInv, CurrentOK, Procs
<1>2. /\ Distinct(rq') /\ failed' = failed
      /\ Elements(rq') = Elements(rq) \cup {c}
  <2>1. WakeupProcs(state, [wait_state EXCEPT ![p] = "0"], {c})
    BY DEF DoFork
  <2>2. Queued(state, {c}) = {c}
    BY <1>1 DEF Queued
  <2>3. c \notin Elements(rq)
    BY <1>1 DEF IInv, RunQueueExact
  <2> QED
    BY <1>1, <2>1, <2>2, <2>3, WakeupQueues
<1>3. /\ state' = [state EXCEPT ![c] = "RUNNABLE"]
      /\ \A q \in Procs : wait_state'[q] = IF q \in {c, p} /\ wait_state[q] # "0"
                                           THEN "0" ELSE wait_state[q]
      /\ parent' = [parent EXCEPT ![c] = p]
      /\ UNCHANGED <<waitfor, left, current, in_schedule>>
  BY <1>1 DEF DoFork, WakeupProcs, TypeOK
<1>4. Live' = Live \cup {c} /\ p \in Live /\ c \notin Live
  BY <1>1, <1>3 DEF Live, TypeOK
<1>5. PlaceOK'
  <2>1. PlaceOf(p)'
    <3>1. PlaceOf(p)
      BY <1>1 DEF IInv, PlaceOK
    <3>2. left[p] = 0
      BY <1>1, <3>1 DEF PlaceOf, TypeOK
    <3>3. pc'[p] = next /\ state'[p] = "RUNNABLE" /\ wait_state'[p] = "0"
      BY <1>1, <1>3 DEF TypeOK
    <3> QED
      BY <1>3, <3>2, <3>3 DEF PlaceOf
  <2>2. PlaceOf(c)'
    <3>1. PlaceOf(c)
      BY <1>1 DEF IInv, PlaceOK
    <3>2. left[c] = 0
      BY <1>1, <3>1 DEF PlaceOf, TypeOK
    <3>3. pc'[c] = place /\ state'[c] = "RUNNABLE" /\ wait_state'[c] = "0"
      BY <1>1, <1>3 DEF TypeOK
    <3> QED
      BY <1>3, <3>2, <3>3 DEF PlaceOf
  <2>3. ASSUME NEW q \in Procs \ {c, p} PROVE PlaceOf(q)'
    <3>1. PlaceOf(q)
      BY DEF IInv, PlaceOK
    <3>2. /\ state'[q] = state[q] /\ pc'[q] = pc[q]
          /\ wait_state'[q] = wait_state[q] /\ left'[q] = left[q]
      BY <1>3 DEF TypeOK
    <3> QED
      BY <3>1, <3>2 DEF PlaceOf
  <2>4. BootOK'
    BY <1>1, <1>3 DEF IInv, PlaceOK, BootOK, TypeOK, Procs
  <2> QED
    BY <2>1, <2>2, <2>3, <2>4 DEF PlaceOK
<1>6. CurrentOK'
  BY <1>1, <1>3 DEF CurrentOK, TypeOK
<1>7. RunQueueExact'
  BY <1>1, <1>2, <1>3 DEF IInv, RunQueueExact, TypeOK
<1>8. \A q \in Live \ {Idle} : parent[q] \in Live /\ parent[q] # c /\ parent'[q] = parent[q]
  <2>1. Idle \in Live
    BY DEF IInv, PlaceOK, BootOK, Live, Procs
  <2> QED
    BY <1>1, <1>3, <1>4, <2>1 DEF IInv, ParentOK, TypeOK, Live
<1>9. ParentOK'
  <2>1. parent'[Init] = Idle /\ parent'[Idle] = NoProc
    BY <1>1, <1>3 DEF IInv, ParentOK, TypeOK, Procs
  <2>2. ASSUME NEW q \in Live' \ {Idle, Init}
        PROVE  parent'[q] \in Live' \ {Idle} /\ state'[parent'[q]] # "ZOMBIE"
    <3>1. CASE q = c
      BY <1>1, <1>3, <1>4, <3>1 DEF TypeOK
    <3>2. CASE q # c
      BY <1>3, <1>4, <1>8, <3>2 DEF IInv, ParentOK, TypeOK, Live
    <3> QED
      BY <3>1, <3>2
  <2> QED
    BY <2>1, <2>2 DEF ParentOK
<1>10. Grounded'
  <2> SUFFICES ASSUME NEW S \in SUBSET (Live' \ {Idle}), S # {}
               PROVE  \E q \in S : parent'[q] \notin S
    BY DEF Grounded
  <2>1. CASE S \ {c} = {}
    BY <1>1, <1>3, <2>1 DEF TypeOK
  <2>2. CASE S \ {c} # {}
    <3>1. S \ {c} \in SUBSET (Live \ {Idle})
      BY <1>4
    <3>2. PICK q \in S \ {c} : parent[q] \notin S \ {c}
      BY <2>2, <3>1 DEF IInv, Grounded
    <3> QED
      BY <1>8, <3>1, <3>2
  <2> QED
    BY <2>1, <2>2
<1>11. InitDone'
  <2>1. p # Init => pc[Init] # "no_child"
    BY <1>1, <1>4 DEF IInv, InitDone
  <2> QED
    BY <1>1, <2>1 DEF InitDone, TypeOK, Procs
<1>12. NoLostWakeup'
  <2> SUFFICES ASSUME NEW q \in Procs, state'[q] = "SLEEPING"
               PROVE  SleepEnds(q)'
    BY DEF NoLostWakeup, SleepEnds
  <2>1. q # c /\ q # p /\ state[q] = "SLEEPING" /\ wait_state'[q] = wait_state[q]
    BY <1>1, <1>3 DEF TypeOK
  <2>2. Children(q)' = Children(q)
    BY <1>3, <1>4, <2>1 DEF Children, TypeOK, Live
  <2>3. Awaited(q, waitfor[q])' = Awaited(q, waitfor[q])
    BY <1>3, <2>2 DEF Awaited
  <2>4. Zombies(Awaited(q, waitfor[q]))' = Zombies(Awaited(q, waitfor[q]))
    BY <1>1, <1>3, <2>3 DEF Zombies, Awaited, Children, Live, TypeOK
  <2> QED
    BY <1>3, <2>1, <2>3, <2>4 DEF IInv, NoLostWakeup, SleepEnds
<1> QED
  BY <1>2, <1>5, <1>6, <1>7, <1>9, <1>10, <1>11, <1>12 DEF IInv, AssertionsHold

LEMMA ReapIInv ==
  ASSUME TypeOK, IInv, NEW p \in User \cup {Init}, current = p, ~in_schedule, pc[p] # "slept",
         NEW pid, p = Init => pid = NoProc,
         NEW c \in Zombies(Awaited(p, pid)), Reap(p, c)
  PROVE  IInv'
<1> DEFINE place == ReturnPlace(p, TRUE)
<1>1. /\ p \in Procs /\ c \in Procs /\ state[p] = "RUNNABLE" /\ state[c] = "ZOMBIE"
      /\ parent[c] = p /\ c \in Live /\ p \in Live /\ p # Idle
  BY KernelAssumption DEF Zombies, Awaited, Children, Live, IInv, CurrentOK, Procs
<1>2. c # p /\ c # Idle /\ c # Init
  BY <1>1 DEF IInv, PlaceOK, PlaceOf, BootOK
<1>3. /\ state' = [state EXCEPT ![c] = "unused"]
      /\ parent' = [parent EXCEPT ![c] = NoProc]
      /\ pc' = [pc EXCEPT ![c] = "unused", ![p] = place]
      /\ waitfor' = [waitfor EXCEPT ![p] = NoProc]
      /\ UNCHANGED <<wait_state, left, rq, current, failed>>
  BY DEF Reap, DoWaitReturns
<1>4. place \in {"trapret", "do_wait"} /\ (p = Init => place = "do_wait")
  BY DEF ReturnPlace
<1> HIDE DEF place
<1>5. Live' = Live \ {c}
  BY <1>1, <1>3 DEF Live, TypeOK
<1>6. PlaceOK'
  <2>1. PlaceOf(p)'
    <3>1. PlaceOf(p)
      BY <1>1 DEF IInv, PlaceOK
    <3>2. left[p] = 0 /\ wait_state[p] = "0"
      BY <1>1, <3>1 DEF PlaceOf, TypeOK
    <3>3. pc'[p] = place /\ state'[p] = "RUNNABLE"
      BY <1>1, <1>2, <1>3 DEF TypeOK
    <3> QED
      BY <1>3, <1>4, <3>2, <3>3 DEF PlaceOf
  <2>2. PlaceOf(c)'
    <3>1. PlaceOf(c)
      BY <1>1 DEF IInv, PlaceOK
    <3>2. left[c] = 0 /\ wait_state[c] = "0"
      BY <1>1, <3>1 DEF PlaceOf, TypeOK
    <3>3. pc'[c] = "unused" /\ state'[c] = "unused"
      BY <1>1, <1>2, <1>3 DEF TypeOK
    <3> QED
      BY <1>3, <3>2, <3>3 DEF PlaceOf
  <2>3. ASSUME NEW q \in Procs \ {c, p} PROVE PlaceOf(q)'
    <3>1. PlaceOf(q)
      BY DEF IInv, PlaceOK
    <3>2. /\ state'[q] = state[q] /\ pc'[q] = pc[q]
          /\ wait_state'[q] = wait_state[q] /\ left'[q] = left[q]
      BY <1>3 DEF TypeOK
    <3> QED
      BY <3>1, <3>2 DEF PlaceOf
  <2>4. BootOK'
    BY <1>1, <1>2, <1>3, <1>4 DEF IInv, PlaceOK, BootOK, TypeOK, Procs
  <2> QED
    BY <2>1, <2>2, <2>3, <2>4 DEF PlaceOK
<1>7. CurrentOK' /\ AssertionsHold'
  BY <1>1, <1>2, <1>3 DEF IInv, CurrentOK, AssertionsHold, TypeOK
<1>8. RunQueueExact'
  BY <1>1, <1>3 DEF IInv, RunQueueExact, TypeOK
<1>9. ParentOK'
  BY <1>1, <1>2, <1>3, <1>5 DEF IInv, ParentOK, TypeOK, Live, Procs
<1>10. Grounded'
  <2> SUFFICES ASSUME NEW S \in SUBSET (Live' \ {Idle}), S # {}
               PROVE  \E q \in S : parent'[q] \notin S
    BY DEF Grounded
  <2>1. S \in SUBSET (Live \ {Idle}) /\ \A q \in S : parent'[q] = parent[q]
    BY <1>3, <1>5 DEF TypeOK, Live
  <2> QED
    BY <2>1 DEF IInv, Grounded
<1>11. InitDone'
  <2>1. p # Init => pc[Init] # "no_child"
    BY <1>1 DEF IInv, InitDone
  <2> QED
    BY <1>1, <1>2, <1>3, <1>4, <2>1 DEF InitDone, TypeOK, Procs
<1>12. NoLostWakeup'
  <2> SUFFICES ASSUME NEW q \in Procs, state'[q] = "SLEEPING"
               PROVE  SleepEnds(q)'
    BY DEF NoLostWakeup, SleepEnds
  <2>1. q # c /\ q # p /\ state[q] = "SLEEPING" /\ waitfor'[q] = waitfor[q]
    BY <1>1, <1>3 DEF TypeOK
  <2>2. Children(q)' = Children(q)
    BY <1>1, <1>3, <1>5, <2>1, KernelAssumption DEF Children, TypeOK, Live
  <2>3. Awaited(q, waitfor[q])' = Awaited(q, waitfor[q])
    BY <2>1, <2>2 DEF Awaited
  <2>4. Zombies(Awaited(q, waitfor[q]))' = Zombies(Awaited(q, waitfor[q]))
    BY <1>1, <1>3, <2>1, <2>3 DEF Zombies, Awaited, Children, Live, TypeOK
  <2> QED
    BY <1>3, <2>1, <2>3, <2>4 DEF IInv, NoLostWakeup, SleepEnds
<1> QED
  BY <1>6, <1>7, <1>8, <1>9, <1>10, <1>11, <1>12 DEF IInv

LEMMA DoExitIInv ==
  ASSUME TypeOK, IInv, NEW p \in User \cup KThread, current = p, ~in_schedule, pc[p] # "slept",
         DoExit(p)
  PROVE  IInv'
<1> DEFINE st == [state EXCEPT ![p] = "ZOMBIE"]
           W  == WokenByExit(p)
<1>1. /\ p \in Procs /\ state[p] = "RUNNABLE" /\ p \in Live
      /\ p # Idle /\ p # Init
  BY KernelAssumption DEF IInv, CurrentOK, Procs, Live
<1>2. W \in SUBSET Procs /\ \A w \in W : state[w] = "SLEEPING" /\ wait_state[w] = "CHILD" /\ w # p
  BY <1>1 DEF WokenByExit, IInv, PlaceOK, PlaceOf
<1>3. /\ WakeupProcs(st, wait_state, W)
      /\ parent' = [c \in Procs |-> IF c \in Children(p) THEN Init ELSE parent[c]]
      /\ waitfor' = [waitfor EXCEPT ![p] = NoProc]
      /\ pc' = [pc EXCEPT ![p] = "dead"]
      /\ in_schedule' = TRUE
      /\ UNCHANGED <<left, current>>
  BY DEF DoExit, Adopted, CallSchedule
<1>4. parent[p] # p
  <2>1. {p} \in SUBSET (Live \ {Idle})
    BY <1>1
  <2> QED
    BY <2>1 DEF IInv, Grounded
<1>5. /\ \A q \in W : q = parent[p] \/ q = Init
      /\ \A q \in Procs \ W : wait_state[q] = "CHILD" =>
           q # parent[p] /\ (q = Init => Zombies(Children(p)) = {})
  BY DEF WokenByExit
<1> HIDE DEF W
<1>6. /\ \A q \in Procs : state'[q] = IF q \in W THEN "RUNNABLE"
                                      ELSE IF q = p THEN "ZOMBIE" ELSE state[q]
      /\ \A q \in Procs : wait_state'[q] = IF q \in W THEN "0" ELSE wait_state[q]
  BY <1>2, <1>3 DEF WakeupProcs, TypeOK
<1>7. /\ Distinct(rq') /\ failed' = failed
      /\ Elements(rq') = Elements(rq) \cup W
  <2>1. \A w \in W : st[w] = "SLEEPING"
    BY <1>2 DEF TypeOK
  <2>2. Queued(st, W) = W
    BY <1>2, <2>1 DEF Queued
  <2>3. \A w \in W : w \notin Elements(rq)
    BY <1>2 DEF IInv, RunQueueExact
  <2> HIDE DEF st
  <2> QED
    BY <1>2, <1>3, <2>1, <2>2, <2>3, WakeupQueues
<1>8. Live' = Live
  BY <1>1, <1>2, <1>6 DEF Live
<1>9. PlaceOK'
  <2>1. PlaceOf(p)'
    <3>1. PlaceOf(p)
      BY <1>1 DEF IInv, PlaceOK
    <3>2. left[p] = 0 /\ wait_state[p] = "0"
      BY <1>1, <3>1 DEF PlaceOf, TypeOK
    <3>3. pc'[p] = "dead" /\ state'[p] = "ZOMBIE" /\ wait_state'[p] = "0"
      BY <1>1, <1>2, <1>3, <1>6, <3>2 DEF TypeOK
    <3> QED
      BY <1>3, <3>2, <3>3 DEF PlaceOf
  <2>2. ASSUME NEW q \in Procs \ {p} PROVE PlaceOf(q)'
    <3>1. PlaceOf(q)
      BY DEF IInv, PlaceOK
    <3>2. pc'[q] = pc[q] /\ left'[q] = left[q]
      BY <1>3 DEF TypeOK
    <3>3. CASE q \in W
      BY <1>2, <1>6, <3>1, <3>2, <3>3 DEF PlaceOf
    <3>4. CASE q \notin W
      BY <1>6, <3>1, <3>2, <3>4 DEF PlaceOf
    <3> QED
      BY <3>3, <3>4
  <2>3. BootOK'
    BY <1>1, <1>2, <1>3, <1>6 DEF IInv, PlaceOK, BootOK, TypeOK, Procs
  <2> QED
    BY <2>1, <2>2, <2>3 DEF PlaceOK
<1>10. CurrentOK' /\ AssertionsHold'
  BY <1>1, <1>2, <1>3, <1>6, <1>7 DEF IInv, CurrentOK, AssertionsHold
<1>11. RunQueueExact'
  <2>1. Idle \notin W
    BY <1>2 DEF IInv, PlaceOK, BootOK
  <2> QED
    BY <1>1, <1>2, <1>3, <1>6, <1>7, <2>1 DEF IInv, RunQueueExact
<1>12. ParentOK'
  <2>1. parent'[Init] = Idle /\ parent'[Idle] = NoProc
    BY <1>1, <1>3, KernelAssumption DEF IInv, ParentOK, Children, Procs
  <2>2. state'[Init] # "ZOMBIE" /\ Init \in Live' \ {Idle}
    <3>1. state[Init] # "ZOMBIE" /\ Init \in Live
      BY DEF IInv, PlaceOK, PlaceOf, BootOK, Live, Procs
    <3> QED
      BY <1>1, <1>6, <1>8, <3>1, KernelAssumption DEF Procs
  <2>3. ASSUME NEW c \in Live' \ {Idle, Init}
        PROVE  parent'[c] \in Live' \ {Idle} /\ state'[parent'[c]] # "ZOMBIE"
    <3>0. c \in Procs /\ c \in Live
      BY <1>8 DEF Live
    <3>1. CASE c \in Children(p)
      BY <1>3, <2>2, <3>0, <3>1
    <3>2. CASE c \notin Children(p)
      <4>1. parent'[c] = parent[c] /\ parent[c] # p
        BY <1>3, <3>0, <3>2 DEF Children
      <4>2. parent[c] \in Live \ {Idle} /\ state[parent[c]] # "ZOMBIE" /\ parent[c] \in Procs
        BY <3>0 DEF IInv, ParentOK, Live
      <4> QED
        BY <1>6, <1>8, <4>1, <4>2
    <3> QED
      BY <3>1, <3>2
  <2> QED
    BY <2>1, <2>3 DEF ParentOK
<1>13. Grounded'
  <2> SUFFICES ASSUME NEW S \in SUBSET (Live \ {Idle}), S # {}
               PROVE  \E c \in S : parent'[c] \notin S
    BY <1>8 DEF Grounded
  <2>1. CASE Init \in S
    BY <1>12, <2>1 DEF ParentOK
  <2>2. CASE Init \notin S
    <3>1. PICK c \in S : parent[c] \notin S
      BY DEF IInv, Grounded
    <3> QED
      BY <1>3, <2>2, <3>1 DEF Live
  <2> QED
    BY <2>1, <2>2
<1>14. InitDone'
  <2>1. pc[Init] # "no_child"
    BY <1>1 DEF IInv, InitDone
  <2> QED
    BY <1>1, <1>3, <2>1 DEF InitDone, TypeOK, Procs
<1>15. NoLostWakeup'
  <2> SUFFICES ASSUME NEW q \in Procs, state'[q] = "SLEEPING"
               PROVE  SleepEnds(q)'
    BY DEF NoLostWakeup, SleepEnds
  <2>1. /\ q # p /\ q \notin W /\ state[q] = "SLEEPING"
        /\ wait_state'[q] = wait_state[q] /\ waitfor'[q] = waitfor[q] /\ left'[q] = left[q]
    BY <1>3, <1>6 DEF TypeOK
  <2>2. SleepEnds(q)
    BY <2>1 DEF IInv, NoLostWakeup, SleepEnds
  <2>3. CASE wait_state[q] = "TIMER"
    BY <2>1, <2>2, <2>3 DEF SleepEnds
  <2>4. CASE wait_state[q] = "CHILD"
    <3>1. p \notin Children(q) /\ Awaited(q, waitfor[q]) # {} /\ Zombies(Awaited(q, waitfor[q])) = {}
      BY <1>5, <2>1, <2>2, <2>4 DEF SleepEnds, Children
    <3>2. CASE q # Init
      <4>1. Children(q)' = Children(q)
        BY <1>3, <1>8, <2>1, <3>2 DEF Children, Live
      <4>2. Awaited(q, waitfor[q])' = Awaited(q, waitfor[q])
        BY <2>1, <4>1 DEF Awaited
      <4>3. \A c \in Children(q) : c # p /\ c \in Procs
        BY <3>1 DEF Children, Live
      <4>4. Zombies(Awaited(q, waitfor[q]))' = {}
        BY <1>6, <3>1, <4>2, <4>3 DEF Zombies, Awaited
      <4> QED
        BY <2>1, <2>4, <3>1, <4>2, <4>4 DEF SleepEnds
    <3>3. CASE q = Init
      <4>1. waitfor[q] = NoProc /\ waitfor'[q] = NoProc
        BY <2>1, <3>3 DEF IInv, PlaceOK, BootOK
      <4>2. Children(q)' = Children(q) \cup Children(p)
        BY <1>3, <1>8, <2>1, <3>3 DEF Children, Live
      <4>3. /\ Awaited(q, waitfor[q])' = Children(q) \cup Children(p)
            /\ Awaited(q, waitfor[q]) = Children(q)
        BY <4>1, <4>2 DEF Awaited
      <4>4. Zombies(Children(p)) = {} /\ Zombies(Children(q)) = {}
        BY <1>5, <2>1, <2>4, <3>1, <3>3, <4>3
      <4>5. \A c \in Children(q) \cup Children(p) : c # p /\ c \in Procs
        BY <1>4, <3>1 DEF Children, Live
      <4>6. Zombies(Awaited(q, waitfor[q]))' = {}
        BY <1>6, <4>3, <4>4, <4>5 DEF Zombies
      <4> QED
        BY <2>1, <2>4, <3>1, <4>3, <4>6 DEF SleepEnds
    <3> QED
      BY <3>2, <3>3
  <2> QED
    BY <2>2, <2>3, <2>4 DEF SleepEnds
<1> QED
  BY <1>9, <1>10, <1>11, <1>12, <1>13, <1>14, <1>15 DEF IInv

LEMMA DoWaitIInv ==
  ASSUME TypeOK, IInv, NEW p \in User \cup {Init}, current = p, ~in_schedule, pc[p] # "slept",
         NEW pid, p = Init => pid = NoProc, DoWait(p, pid)
  PROVE  IInv'
BY ReapIInv, SleepForChildIInv, NoSuchChildIInv DEF DoWait

LEMMA InitFinishIInv == ASSUME TypeOK, IInv, InitFinish PROVE IInv'
<1>1. Live = {Idle, Init}
  BY DEF InitFinish, At, IInv, InitDone
<1>2. failed' = failed
  BY <1>1 DEF InitFinish
<1>3. current = Init /\ state[Init] = "RUNNABLE" /\ pc' = [pc EXCEPT ![Init] = "halted"]
      /\ UNCHANGED <<state, wait_state, parent, waitfor, left, rq, current, in_schedule>>
  BY DEF InitFinish, At, treeVars, schedVars, IInv, CurrentOK
<1>4. PlaceOK'
  BY <1>3, KernelAssumption DEF InitFinish, At, IInv, PlaceOK, PlaceOf, BootOK, TypeOK, Procs
<1>5. CurrentOK' /\ pc'[Init] = "halted"
  BY <1>3 DEF IInv, CurrentOK, TypeOK, Procs
<1> QED
  BY <1>2, <1>3, <1>4, <1>5, QuietStep

LEMMA InitSpawnIInv ==
  ASSUME TypeOK, IInv, NEW c \in User \cup KThread, InitSpawn(c) PROVE IInv'
<1> DEFINE place == IF c \in User THEN "user" ELSE "kernel"
           next  == IF ToSpawn \subseteq {c} THEN "do_wait" ELSE "spawn"
<1>1. /\ At(Init, "spawn") /\ DoFork(Init, c)
      /\ pc' = [pc EXCEPT ![c] = place, ![Init] = next]
  BY DEF InitSpawn
<1>2. place \in {"user", "kernel"} /\ next \in {"spawn", "do_wait"}
  OBVIOUS
<1> HIDE DEF place, next
<1> QED
  BY <1>1, <1>2, DoForkIInv DEF At

LEMMA SysForkIInv ==
  ASSUME TypeOK, IInv, NEW p \in User, NEW c \in User, SysFork(p, c) PROVE IInv'
<1>1. p # Init
  BY KernelAssumption
<1> QED
  BY <1>1, DoForkIInv DEF SysFork, At

-----------------------------------------------------------------------------
LEMMA KernelStepIInv == ASSUME TypeOK, IInv, KernelStep PROVE IInv'
<1>1. CASE Schedule
  BY <1>1, ScheduleIInv
<1>2. ASSUME NEW p \in User, TrapReturn(p) PROVE IInv'
  <2>1. CASE p \in exiting /\ DoExit(p)
    BY <1>2, <2>1, DoExitIInv DEF TrapReturn, At
  <2>2. CASE p \notin exiting
    BY <1>2, <2>2, TrapReturnIInv
  <2> QED
    BY <1>2, <2>1, <2>2 DEF TrapReturn
<1>3. ASSUME NEW p \in User \cup {Init}, Waited(p) PROVE IInv'
  <2>1. CASE p \in exiting /\ DoExit(p)
    <3>1. p \in User \cup KThread
      BY <2>1 DEF TypeOK
    <3> QED
      BY <1>3, <2>1, <3>1, DoExitIInv DEF Waited, At
  <2>2. CASE DoWait(p, waitfor[p])
    <3>1. p = Init => waitfor[p] = NoProc
      BY DEF IInv, PlaceOK, BootOK
    <3> QED
      BY <1>3, <2>2, <3>1, DoWaitIInv DEF Waited, At
  <2> QED
    BY <1>3, <2>1, <2>2 DEF Waited
<1>4. ASSUME NEW p \in User \cup KThread, Slept(p) PROVE IInv'
  BY <1>4, SleptIInv
<1>5. ASSUME NEW c \in User \cup KThread, InitSpawn(c) PROVE IInv'
  BY <1>5, InitSpawnIInv
<1>6. CASE InitWait
  BY <1>6, DoWaitIInv DEF InitWait, At
<1>7. CASE InitFinish
  BY <1>7, InitFinishIInv
<1>8. CASE CpuIdle
  BY <1>8, CpuIdleIInv
<1> QED
  BY <1>1, <1>2, <1>3, <1>4, <1>5, <1>6, <1>7, <1>8 DEF KernelStep

LEMMA KThreadStepIInv == ASSUME TypeOK, IInv, KThreadStep PROVE IInv'
<1>1. PICK k \in KThread : KExit(k) \/ \E time \in 1..MaxSleep : KSleep(k, time)
  BY DEF KThreadStep
<1>2. CASE KExit(k)
  BY <1>2, DoExitIInv DEF KExit, At
<1>3. ASSUME NEW time \in 1..MaxSleep, KSleep(k, time) PROVE IInv'
  BY <1>3, DoSleepIInv DEF KSleep, At
<1> QED
  BY <1>1, <1>2, <1>3

LEMMA UserStepIInv == ASSUME TypeOK, IInv, UserStep PROVE IInv'
<1>1. PICK p \in User :
         \/ \E c \in User : SysFork(p, c)
         \/ SysExit(p)
         \/ \E pid \in User \cup {NoProc} : SysWait(p, pid)
         \/ SysYield(p)
         \/ SysReturn(p)
         \/ \E time \in 1..MaxSleep : SysSleep(p, time)
         \/ \E target \in User \cup KThread : SysKill(p, target)
  BY DEF UserStep
<1>2. ASSUME NEW c \in User, SysFork(p, c) PROVE IInv'
  BY <1>2, SysForkIInv
<1>3. CASE SysExit(p)
  BY <1>3, DoExitIInv DEF SysExit, At
<1>4. ASSUME NEW pid \in User \cup {NoProc}, SysWait(p, pid) PROVE IInv'
  BY <1>4, DoWaitIInv, KernelAssumption DEF SysWait, At
<1>5. CASE SysYield(p) \/ SysReturn(p)
  BY <1>5, SysYieldReturnIInv
<1>6. ASSUME NEW time \in 1..MaxSleep, SysSleep(p, time) PROVE IInv'
  BY <1>6, DoSleepIInv DEF SysSleep, At
<1>7. ASSUME NEW target \in User \cup KThread, SysKill(p, target) PROVE IInv'
  BY <1>7, SysKillIInv
<1> QED
  BY <1>1, <1>2, <1>3, <1>4, <1>5, <1>6, <1>7

LEMMA StutterIInv == ASSUME IInv, UNCHANGED vars PROVE IInv'
BY DEF vars, treeVars, IInv, PlaceOK, PlaceOf, BootOK, CurrentOK, RunQueueExact, ParentOK, Grounded,
       InitDone, NoLostWakeup, AssertionsHold, Awaited, Children, Zombies, Live

\* The inductive invariant holds in every run, for any number of processes.
THEOREM InductiveInvariant == Spec => []IInv
<1>1. TypeOK /\ IInv /\ [Next]_vars => IInv'
  <2> SUFFICES ASSUME TypeOK, IInv, [Next]_vars PROVE IInv'
    OBVIOUS
  <2>1. CASE Halted \/ UNCHANGED vars
    BY <2>1, StutterIInv DEF Halted
  <2> QED
    BY <2>1, KernelStepIInv, KThreadStepIInv, UserStepIInv, TickIInv DEF Next
<1> QED
  BY <1>1, StartIInv, TypeCorrect, PTL DEF Spec

\* The run queue is exact whatever wakes, exits or is killed in between: no
\* process is queued twice, none that is RUNNABLE is forgotten.
THEOREM RunQueue == Spec => []RunQueueExact
<1>1. IInv => RunQueueExact
  BY DEF IInv
<1> QED
  BY <1>1, InductiveInvariant, PTL

\* No wakeup is lost: what do_wait and do_sleep sleep for is still to come.
THEOREM WakeupsKept == Spec => []NoLostWakeup
<1>1. IInv => NoLostWakeup
  BY DEF IInv
<1> QED
  BY <1>1, InductiveInvariant, PTL

\* do_exit hands every child to initproc, so every process keeps a living
\* parent and the tree stays rooted in idleproc.
THEOREM TreeRooted == Spec => []ProcessTree
<1>1. IInv => ProcessTree
  <2> SUFFICES ASSUME IInv PROVE ProcessTree
    OBVIOUS
  <2>1. Idle \in Live /\ state[Idle] # "ZOMBIE"
    BY DEF IInv, PlaceOK, BootOK, Live, Procs
  <2>2. \A c \in Live \ {Idle} : parent[c] \in Live /\ state[parent[c]] # "ZOMBIE"
    BY <2>1 DEF IInv, ParentOK
  <2> QED
    BY <2>2 DEF IInv, Grounded, ProcessTree
<1> QED
  BY <1>1, InductiveInvariant, PTL

\* A timer on a kernel stack never outlives the call of do_sleep it lies in.
THEOREM TimersOwned == Spec => []TimerOwned
<1>1. TypeOK /\ IInv => TimerOwned
  BY TimerPlace DEF TimerOwned
<1> QED
  BY <1>1, TypeCorrect, InductiveInvariant, PTL

\* wakeup_proc, RR_enqueue and init_main never fail one of their assertions.
THEOREM NoAssertionFails == Spec => []AssertionsHold
<1>1. IInv => AssertionsHold
  BY DEF IInv
<1> QED
  BY <1>1, InductiveInvariant, PTL

-----------------------------------------------------------------------------
(***************************************************************************)
(* What a step may do to the states of the processes.                      *)
(***************************************************************************)

ForksOne  == \E c \in Procs : state[c] = "unused" /\ state' = [state EXCEPT ![c] = "RUNNABLE"]
BlocksOne == ~in_schedule /\ state' = [state EXCEPT ![current] = "SLEEPING"]
ReapsOne  == \E c \in Zombies(Children(current)) : state' = [state EXCEPT ![c] = "unused"]
ExitsOne  == current \in User \cup KThread /\ ~in_schedule /\ DoExit(current)
KillsOne  == \E p \in User, target \in User \cup KThread : SysKill(p, target)

LEMMA DoForkChange ==
  ASSUME TypeOK, NEW p, NEW c \in Procs, DoFork(p, c) PROVE ForksOne
BY DEF DoFork, WakeupProcs, ForksOne, TypeOK

LEMMA DoWaitChange ==
  ASSUME NEW p, NEW pid, current = p, ~in_schedule, DoWait(p, pid)
  PROVE  ReapsOne \/ BlocksOne \/ state' = state
BY DEF DoWait, Reap, SleepForChild, NoSuchChild, ReapsOne, BlocksOne, Zombies, Awaited

LEMMA StateChange ==
  ASSUME TypeOK, [Next]_vars
  PROVE  state' = state \/ ForksOne \/ BlocksOne \/ ReapsOne \/ ExitsOne \/ KillsOne \/ Tick
<1> DEFINE Goal == state' = state \/ ForksOne \/ BlocksOne \/ ReapsOne \/ ExitsOne \/ KillsOne \/ Tick
<1>1. CASE Schedule \/ InitFinish \/ CpuIdle \/ Halted \/ UNCHANGED vars \/ Tick
  BY <1>1 DEF Schedule, InitFinish, CpuIdle, Halted, vars
<1>2. ASSUME NEW p \in User, TrapReturn(p) PROVE Goal
  BY <1>2 DEF TrapReturn, At, ExitsOne
<1>3. ASSUME NEW p \in User \cup {Init}, Waited(p) PROVE Goal
  BY <1>3, DoWaitChange DEF Waited, At, ExitsOne, TypeOK
<1>4. ASSUME NEW p \in User \cup KThread, Slept(p) PROVE Goal
  BY <1>4 DEF Slept
<1>5. ASSUME NEW c \in User \cup KThread, InitSpawn(c) PROVE Goal
  BY <1>5, DoForkChange DEF InitSpawn, Procs
<1>6. CASE InitWait
  BY <1>6, DoWaitChange DEF InitWait, At
<1>7. CASE KernelStep
  BY <1>1, <1>2, <1>3, <1>4, <1>5, <1>6, <1>7 DEF KernelStep
<1>8. CASE KThreadStep
  BY <1>8 DEF KThreadStep, KExit, KSleep, DoSleep, At, ExitsOne, BlocksOne
<1>9. CASE UserStep
  <2>1. PICK p \in User :
           \/ \E c \in User : SysFork(p, c)
           \/ SysExit(p)
           \/ \E pid \in User \cup {NoProc} : SysWait(p, pid)
           \/ SysYield(p)
           \/ SysReturn(p)
           \/ \E time \in 1..MaxSleep : SysSleep(p, time)
           \/ \E target \in User \cup KThread : SysKill(p, target)
    BY <1>9 DEF UserStep
  <2>2. ASSUME NEW c \in User, SysFork(p, c) PROVE Goal
    BY <2>2, DoForkChange DEF SysFork, Procs
  <2>3. CASE SysExit(p)
    BY <2>3 DEF SysExit, At, ExitsOne
  <2>4. ASSUME NEW pid \in User \cup {NoProc}, SysWait(p, pid) PROVE Goal
    BY <2>4, DoWaitChange DEF SysWait, At
  <2>5. CASE SysYield(p) \/ SysReturn(p)
    BY <2>5 DEF SysYield, SysReturn
  <2>6. ASSUME NEW time \in 1..MaxSleep, SysSleep(p, time) PROVE Goal
    BY <2>6 DEF SysSleep, DoSleep, At, BlocksOne
  <2>7. ASSUME NEW target \in User \cup KThread, SysKill(p, target) PROVE Goal
    BY <2>7 DEF KillsOne
  <2> QED
    BY <2>1, <2>2, <2>3, <2>4, <2>5, <2>6, <2>7
<1> QED
  BY <1>1, <1>7, <1>8, <1>9 DEF Next

\* Whom an exit, a kill and the clock may wake.
LEMMA ExitWakes ==
  ASSUME TypeOK, IInv, ExitsOne, NEW q \in Procs, q # current, state'[q] # state[q]
  PROVE  /\ state[q] = "SLEEPING" /\ wait_state[q] = "CHILD"
         /\ Zombies(Children(q))' # {}
<1> DEFINE p == current
<1>1. /\ p \in Procs /\ p \in Live \ {Idle}
  BY KernelAssumption DEF ExitsOne, IInv, CurrentOK, TypeOK, Live
<1>2. parent[p] # p
  <2>1. {p} \in SUBSET (Live \ {Idle})
    BY <1>1
  <2> QED
    BY <2>1 DEF IInv, Grounded
<1>3. /\ \A r \in Procs : state'[r] = IF r \in WokenByExit(p) THEN "RUNNABLE"
                                      ELSE IF r = p THEN "ZOMBIE" ELSE state[r]
      /\ parent' = [c \in Procs |-> IF c \in Children(p) THEN Init ELSE parent[c]]
  BY <1>1 DEF ExitsOne, DoExit, Adopted, WakeupProcs, TypeOK
<1>4. \A r \in WokenByExit(p) : state[r] = "SLEEPING" /\ wait_state[r] = "CHILD"
  BY DEF WokenByExit, IInv, PlaceOK, PlaceOf
<1>5. q \in WokenByExit(p) /\ p \notin WokenByExit(p) /\ state'[p] = "ZOMBIE"
  BY <1>1, <1>3, <1>4 DEF ExitsOne, IInv, CurrentOK
<1>6. CASE q = parent[p]
  <2>1. parent'[p] = q /\ p \in Live'
    BY <1>1, <1>2, <1>3, <1>5, <1>6 DEF Children, Live
  <2> QED
    BY <1>4, <1>5, <2>1 DEF Zombies, Children
<1>7. CASE q = Init /\ Zombies(Children(p)) # {}
  <2>1. PICK c \in Zombies(Children(p)) : TRUE
    BY <1>7
  <2>2. c \in Procs /\ c \in Children(p) /\ state[c] = "ZOMBIE"
    BY <2>1 DEF Zombies, Children, Live
  <2>3. parent'[c] = Init /\ state'[c] = "ZOMBIE"
    BY <1>3, <1>4, <2>2
  <2> QED
    BY <1>4, <1>5, <1>7, <2>2, <2>3 DEF Zombies, Children, Live
<1> QED
  BY <1>5, <1>6, <1>7 DEF WokenByExit

LEMMA KillWakes ==
  ASSUME TypeOK, IInv, KillsOne, NEW q \in Procs, state'[q] # state[q]
  PROVE  state[q] = "SLEEPING" /\ q \in exiting' \ exiting
<1>1. PICK p \in User, target \in User \cup KThread : SysKill(p, target)
  BY DEF KillsOne
<1>2. q = target /\ wait_state[q] \in Interruptible
  BY <1>1 DEF SysKill, WakeupProcs
<1>3. state[q] = "SLEEPING"
  BY <1>2 DEF Interruptible, IInv, PlaceOK, PlaceOf
<1> QED
  BY <1>1, <1>2, <1>3 DEF SysKill

LEMMA TickWakes ==
  ASSUME TypeOK, IInv, Tick, NEW q \in Procs, state'[q] # state[q]
  PROVE  state[q] = "SLEEPING" /\ wait_state[q] = "TIMER" /\ left[q] = 1 /\ left'[q] = 0
<1>1. left[q] = 1 /\ left'[q] = 0 /\ state'[q] = "RUNNABLE"
  BY DEF Tick, WakeupProcs
<1>2. state[q] = "SLEEPING" /\ pc[q] = "slept"
  BY <1>1, TimerPlace
<1>3. wait_state[q] = "TIMER"
  BY <1>2 DEF IInv, PlaceOK, PlaceOf, TypeOK
<1> QED
  BY <1>1, <1>2, <1>3

\* A zombie leaves only through do_wait of its parent, and has no children.
THEOREM ZombiesReaped == Spec => ZombieReapedByParent
<1> DEFINE Reaped(c) == state[c] = "ZOMBIE" /\ state'[c] # "ZOMBIE" =>
                          state'[c] = "unused" /\ current = parent[c] /\ Children(c) = {}
<1>1. ASSUME TypeOK, IInv, [Next]_vars, NEW c \in Procs,
             state[c] = "ZOMBIE", state'[c] # "ZOMBIE"
      PROVE  state'[c] = "unused" /\ current = parent[c] /\ Children(c) = {}
  <2>1. ReapsOne
    <3>1. ~ForksOne /\ ~BlocksOne
      BY <1>1 DEF ForksOne, BlocksOne, IInv, CurrentOK, TypeOK
    <3>2. ~ExitsOne
      BY <1>1, ExitWakes DEF ExitsOne, IInv, CurrentOK
    <3>3. ~KillsOne /\ ~Tick
      BY <1>1, KillWakes, TickWakes
    <3> QED
      BY <1>1, <3>1, <3>2, <3>3, StateChange
  <2>2. state'[c] = "unused" /\ c \in Children(current)
    BY <1>1, <2>1 DEF ReapsOne, Zombies, TypeOK
  <2>3. Children(c) = {}
    <3>1. c # Idle
      BY <1>1 DEF IInv, PlaceOK, BootOK
    <3> QED
      BY <1>1, <3>1, KernelAssumption DEF IInv, ParentOK, Children, PlaceOK, PlaceOf, BootOK
  <2> QED
    BY <2>2, <2>3 DEF Children
<1>2. TypeOK /\ IInv /\ [Next]_vars => [\A c \in Procs : Reaped(c)]_vars
  BY <1>1
<1> QED
  BY <1>2, TypeCorrect, InductiveInvariant, PTL DEF Spec, ZombieReapedByParent

\* Nothing wakes a sleeper but its timer, the exit of a child, or do_kill.
THEOREM WakeupsCaused == Spec => WakeupHasCause
<1>1. ASSUME TypeOK, IInv, [Next]_vars, NEW p \in Procs,
             state[p] = "SLEEPING", state'[p] # "SLEEPING"
      PROVE  \/ p \in exiting' \ exiting
             \/ wait_state[p] = "TIMER" /\ left[p] = 1 /\ left'[p] = 0
             \/ wait_state[p] = "CHILD" /\ Zombies(Children(p))' # {}
  <2>1. ~ForksOne /\ ~BlocksOne /\ ~ReapsOne
    BY <1>1 DEF ForksOne, BlocksOne, ReapsOne, Zombies, TypeOK
  <2>2. ExitsOne => p # current
    BY <1>1 DEF ExitsOne, IInv, CurrentOK
  <2>3. ExitsOne \/ KillsOne \/ Tick
    BY <1>1, <2>1, StateChange
  <2> QED
    BY <1>1, <2>2, <2>3, ExitWakes, KillWakes, TickWakes
<1>2. TypeOK /\ IInv /\ [Next]_vars =>
        [\A p \in Procs : state[p] = "SLEEPING" /\ state'[p] # "SLEEPING" =>
            \/ p \in exiting' \ exiting
            \/ wait_state[p] = "TIMER" /\ left[p] = 1 /\ left'[p] = 0
            \/ wait_state[p] = "CHILD" /\ Zombies(Children(p))' # {}]_vars
  BY <1>1
<1> QED
  BY <1>2, TypeCorrect, InductiveInvariant, PTL DEF Spec, WakeupHasCause

=============================================================================
