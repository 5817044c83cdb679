-------------------------- MODULE PhilosopherProofs --------------------------
(***************************************************************************)
(* The monitor and its philosophers, for any number of them: the monitor   *)
(* has one owner, a signal hands it over with the table as it was, and     *)
(* neighbours never eat together.                                          *)
(***************************************************************************)
EXTENDS Philosophers, FiniteSetTheorems, TLAPS

Place(i) == Head(pc[i])

Plain == {"think", "take", "hungry", "tested", "cond_wait", "cond_waited", "taken",
          "eat", "put", "full", "test_right", "leave", "quit"}
Back == {"test_right", "leave"}
Pcs == {<<a>> : a \in Plain} \union {<<b, r>> : b \in {"signal", "signalled"}, r \in Back}

-----------------------------------------------------------------------------
\* The semaphores: a queue holds who sleeps in down(), and no unit waits beside it;
\* who sleeps elsewhere sleeps in do_sleep; the running process is RUNNABLE.
SemOK ==
  /\ value \in [Sems -> Nat] /\ wait_queue \in [Sems -> Seq(Phil)]
  /\ on \in [Phil -> Sems \union {<<>>}]
  /\ state \in [Phil -> {"RUNNABLE", "SLEEPING", "ZOMBIE"}]
  /\ wait_state \in [Phil -> {"0", "KSEM", "TIMER"}]
  /\ current \in Phil \union {Nobody}
  /\ \A s \in Sems :
       /\ S!Distinct(wait_queue[s])
       /\ S!Members(wait_queue[s]) = {i \in Phil : on[i] = s /\ state[i] = "SLEEPING"}
       /\ value[s] > 0 => wait_queue[s] = <<>>
  /\ \A i \in Phil :
       /\ wait_state[i] = "TIMER" <=> state[i] = "SLEEPING" /\ on[i] = <<>>
       /\ state[i] = "ZOMBIE" => on[i] = <<>>
  /\ current # Nobody => state[current] = "RUNNABLE"

\* Where a philosopher is while it sleeps, or is about to.
WhereOK ==
  \A i \in Phil :
    /\ on[i] # <<>> => \/ on[i] = mutex /\ Place(i) \in {"hungry", "full"}
                       \/ on[i] = next /\ Place(i) = "signalled"
                       \/ on[i] = cv(i) /\ Place(i) = "cond_waited"
    /\ state[i] = "SLEEPING" /\ on[i] = <<>> => Place(i) \in {"take", "put"}
    /\ state[i] = "ZOMBIE" => Place(i) = "quit"
    /\ Place(i) \in {"signal", "cond_wait"} => current = i

\* The counters of the monitor are what they count, and next and the conditions
\* never have a unit nobody waits for.
Signallers == {i \in Phil : Place(i) \in {"signal", "signalled"}}
CountsOK ==
  /\ value[next] = 0 /\ \A i \in Phil : value[cv(i)] = 0
  /\ count \in [Phil -> {0, 1}]
  /\ \A i \in Phil : count[i] = 1 <=> Place(i) \in {"cond_wait", "cond_waited"}
  /\ next_count = Cardinality(Signallers)

\* MonitorHeld, without the cardinality.
Inside == {"hungry", "tested", "cond_waited", "taken", "full", "test_right", "leave", "signalled"}
Owner(i) == state[i] = "RUNNABLE" /\ Place(i) \in Inside
Held == \/ value[mutex] = 1 /\ \A i \in Phil : ~Owner(i)
        \/ value[mutex] = 0 /\ \E o \in Phil : \A i \in Phil : Owner(i) <=> i = o

\* Whom the table lets eat, from the signal on.
TableOK ==
  /\ state_condvar \in [Phil -> {"THINKING", "HUNGRY", "EATING"}]
  /\ \A i \in Phil :
       /\ Place(i) \in {"taken", "eat", "put", "full"} => state_condvar[i] = "EATING"
       /\ Place(i) = "cond_waited" /\ state[i] = "RUNNABLE" => state_condvar[i] = "EATING"
       /\ Place(i) = "tested" => state_condvar[i] \in {"HUNGRY", "EATING"}
       /\ state_condvar[i] = "EATING" => state_condvar[RIGHT(i)] # "EATING"

IInv == SemOK /\ pc \in [Phil -> Pcs] /\ WhereOK /\ CountsOK /\ Held /\ TableOK

-----------------------------------------------------------------------------
\* The semaphores of the monitor are different ones.
LEMMA SemFacts ==
  /\ mutex \in Sems /\ next \in Sems /\ mutex # next /\ <<>> \notin Sems
  /\ \A i \in Phil : cv(i) \in Sems /\ cv(i) # mutex /\ cv(i) # next
  /\ \A i, j \in Phil : cv(i) = cv(j) => i = j
  /\ \A s \in Sems : s = mutex \/ s = next \/ \E i \in Phil : s = cv(i)
  BY DEF mutex, next, cv, Sems

\* The places in the code, and what follows them.
LEMMA PcFacts ==
  /\ \A a \in Plain : <<a>> \in Pcs /\ Head(<<a>>) = a
  /\ \A b \in {"signal", "signalled"}, r \in Back :
       <<b, r>> \in Pcs /\ Head(<<b, r>>) = b /\ Tail(<<b, r>>) = <<r>> /\ <<b, r>>[2] = r
  BY DEF Pcs, Back

\* A philosopher in cond_signal knows where that call returns to.
LEMMA PcHeads ==
  ASSUME NEW x \in Pcs
  PROVE  /\ Head(x) \in Plain \union {"signal", "signalled"}
         /\ Head(x) = "signal" => \E r \in Back : x = <<"signal", r>>
         /\ Head(x) = "signalled" => \E r \in Back : x = <<"signalled", r>>
<1>1. CASE x \in {<<a>> : a \in Plain}
  BY <1>1, PcFacts DEF Plain
<1>2. CASE x \in {<<b, r>> : b \in {"signal", "signalled"}, r \in Back}
  BY <1>2, PcFacts
<1> QED
  BY <1>1, <1>2 DEF Pcs

\* Seats around the table.
LEMMA Seats ==
  /\ \A i \in Phil : /\ LEFT(i) \in Phil /\ RIGHT(i) \in Phil /\ RIGHT(i) # i
                     /\ LEFT(RIGHT(i)) = i /\ RIGHT(LEFT(i)) = i
  /\ IsFiniteSet(Phil) /\ Nobody \notin Phil
<1>1. \A i \in Phil : RIGHT(i) = IF i = N - 1 THEN 0 ELSE i + 1
  BY PhilosophersAssumption DEF Phil, RIGHT
<1>2. \A i \in Phil : LEFT(i) = IF i = 0 THEN N - 1 ELSE i - 1
  BY PhilosophersAssumption DEF Phil, LEFT
<1>3. \A i \in Phil : LEFT(i) \in Phil /\ RIGHT(i) \in Phil /\ RIGHT(i) # i
  BY <1>1, <1>2, PhilosophersAssumption DEF Phil
<1>4. \A i \in Phil : LEFT(RIGHT(i)) = i /\ RIGHT(LEFT(i)) = i
  <2> SUFFICES ASSUME NEW i \in Phil PROVE LEFT(RIGHT(i)) = i /\ RIGHT(LEFT(i)) = i
    OBVIOUS
  <2>1. LEFT(RIGHT(i)) = IF RIGHT(i) = 0 THEN N - 1 ELSE RIGHT(i) - 1
    BY <1>2, <1>3
  <2>2. RIGHT(LEFT(i)) = IF LEFT(i) = N - 1 THEN 0 ELSE LEFT(i) + 1
    BY <1>1, <1>3
  <2> QED
    BY <1>1, <1>2, <2>1, <2>2, PhilosophersAssumption DEF Phil
<1>5. IsFiniteSet(Phil)
  BY PhilosophersAssumption, FS_Interval DEF Phil
<1> QED
  BY <1>3, <1>4, <1>5, PhilosophersAssumption DEF Phil

\* A step of the philosopher i to x moves nobody else.
LEMMA GotoStep ==
  ASSUME pc \in [Phil -> Pcs], NEW i \in Phil, NEW x \in Pcs, Goto(i, x)
  PROVE  /\ pc' \in [Phil -> Pcs] /\ Place(i)' = Head(x)
         /\ \A j \in Phil \ {i} : Place(j)' = Place(j)
  BY DEF Goto, Place

-----------------------------------------------------------------------------
\* The lemmas on queues of SemaphoreProofs, for the semaphores of the monitor.
Q == INSTANCE SemaphoreProofs WITH
  Thread <- Phil, Sem <- Sems, InitialValue <- SemInit, NoSem <- <<>>, MaxValue <- 1

\* The monitor's semaphores meet what SemaphoreProofs assumes of any.
LEMMA SemAssumption == Q!SemaphoreAssumption
<1>1. SemInit \in [Sems -> Nat]
  BY DEF SemInit
<1> QED
  BY <1>1, SemFacts, Seats DEF Q!SemaphoreAssumption

\* wait_queue_add puts one more philosopher in a queue of distinct ones.
LEMMA MembersAppend ==
  ASSUME NEW q \in Seq(Phil), NEW p \in Phil, p \notin S!Members(q), S!Distinct(q)
  PROVE  /\ Append(q, p) \in Seq(Phil)
         /\ S!Members(Append(q, p)) = S!Members(q) \union {p}
         /\ S!Distinct(Append(q, p))
<1>1. p \notin Q!Members(q) /\ Q!Distinct(q)
  BY DEF S!Members, S!Distinct, Q!Members, Q!Distinct
<1>2. /\ Append(q, p) \in Seq(Phil)
      /\ Q!Members(Append(q, p)) = Q!Members(q) \union {p}
      /\ Q!Distinct(Append(q, p))
  BY <1>1, SemAssumption, Q!MembersAppend, Zenon
<1> QED
  BY <1>2 DEF S!Members, S!Distinct, Q!Members, Q!Distinct

\* Taking the first of a queue leaves the others, distinct still.
LEMMA MembersTail ==
  ASSUME NEW q \in Seq(Phil), q # <<>>, S!Distinct(q)
  PROVE  /\ Tail(q) \in Seq(Phil) /\ Head(q) \in S!Members(q)
         /\ S!Members(Tail(q)) = S!Members(q) \ {Head(q)}
         /\ S!Distinct(Tail(q))
<1>1. Q!Distinct(q)
  BY DEF S!Distinct, Q!Distinct
<1>2. /\ Tail(q) \in Seq(Phil) /\ Head(q) \in Q!Members(q)
      /\ Q!Members(Tail(q)) = Q!Members(q) \ {Head(q)}
      /\ Q!Distinct(Tail(q))
  BY <1>1, SemAssumption, Q!MembersTail, Zenon
<1> QED
  BY <1>2 DEF S!Members, S!Distinct, Q!Members, Q!Distinct

\* Nobody is in an empty queue.
LEMMA EmptyQueue == S!Members(<<>>) = {}
  BY DEF S!Members

\* down(): a unit is taken, or the philosopher sleeps.
LEMMA DownStep ==
  ASSUME SemOK, NEW i \in Phil, NEW s \in Sems, S!Down(i, s)
  PROVE  /\ SemOK' /\ current = i /\ on[i] = <<>> /\ state[i] = "RUNNABLE"
         /\ \/ /\ value[s] > 0 /\ value' = [value EXCEPT ![s] = @ - 1]
               /\ UNCHANGED <<on, state, current>>
            \/ /\ value[s] = 0 /\ value' = value
               /\ on' = [on EXCEPT ![i] = s] /\ state' = [state EXCEPT ![i] = "SLEEPING"]
               /\ current' = Nobody
<1>1. current = i /\ on[i] = <<>> /\ state[i] = "RUNNABLE"
  BY Seats DEF S!Down, S!Runs, SemOK
<1>2. CASE value[s] > 0
  <2>1. /\ value' = [value EXCEPT ![s] = @ - 1]
        /\ UNCHANGED <<wait_queue, on, state, wait_state, current>>
    BY <1>2 DEF S!Down, S!queueVars, S!procVars, SemOK
  <2>2. SemOK'
    BY <1>2, <2>1 DEF SemOK
  <2> QED
    BY <1>1, <1>2, <2>1, <2>2
<1>3. CASE ~(value[s] > 0)
  <2>1. /\ value' = value /\ wait_queue' = [wait_queue EXCEPT ![s] = Append(wait_queue[s], i)]
        /\ on' = [on EXCEPT ![i] = s] /\ state' = [state EXCEPT ![i] = "SLEEPING"]
        /\ wait_state' = [wait_state EXCEPT ![i] = "KSEM"] /\ current' = Nobody
    BY <1>3 DEF S!Down, S!Enqueued
  <2>2. wait_queue[s] \in Seq(Phil) /\ S!Distinct(wait_queue[s]) /\ i \notin S!Members(wait_queue[s])
    BY <1>1 DEF SemOK
  <2>3. /\ Append(wait_queue[s], i) \in Seq(Phil)
        /\ S!Members(Append(wait_queue[s], i)) = S!Members(wait_queue[s]) \union {i}
        /\ S!Distinct(Append(wait_queue[s], i))
    BY <2>2, MembersAppend
  <2>4. SemOK'
    <3>1. /\ value' \in [Sems -> Nat] /\ wait_queue' \in [Sems -> Seq(Phil)]
          /\ on' \in [Phil -> Sems \union {<<>>}]
          /\ state' \in [Phil -> {"RUNNABLE", "SLEEPING", "ZOMBIE"}]
          /\ wait_state' \in [Phil -> {"0", "KSEM", "TIMER"}]
          /\ current' \in Phil \union {Nobody}
      BY <2>1, <2>3 DEF SemOK
    <3>2. ASSUME NEW t \in Sems
          PROVE  /\ S!Distinct(wait_queue'[t])
                 /\ S!Members(wait_queue'[t]) = {j \in Phil : on'[j] = t /\ state'[j] = "SLEEPING"}
                 /\ value'[t] > 0 => wait_queue'[t] = <<>>
      <4>1. CASE t = s
        BY <1>1, <1>3, <2>1, <2>3, <4>1 DEF SemOK
      <4>2. CASE t # s
        BY <1>1, <2>1, <4>2, SemFacts DEF SemOK
      <4> QED
        BY <4>1, <4>2
    <3>3. ASSUME NEW j \in Phil
          PROVE  /\ wait_state'[j] = "TIMER" <=> state'[j] = "SLEEPING" /\ on'[j] = <<>>
                 /\ state'[j] = "ZOMBIE" => on'[j] = <<>>
      BY <1>1, <2>1, SemFacts DEF SemOK
    <3> QED
      BY <2>1, <3>1, <3>2, <3>3 DEF SemOK, S!Distinct, S!Members
  <2> QED
    BY <1>1, <1>3, <2>1, <2>4 DEF SemOK
<1> QED
  BY <1>2, <1>3

\* up(): nobody waits and the unit is counted, or it is handed to one who sleeps there.
LEMMA UpStep ==
  ASSUME SemOK, NEW i \in Phil, NEW s \in Sems, S!Up(i, s)
  PROVE  /\ SemOK' /\ current = i /\ on[i] = <<>> /\ state[i] = "RUNNABLE"
         /\ UNCHANGED <<on, current>>
         /\ \/ /\ \A j \in Phil : ~(on[j] = s /\ state[j] = "SLEEPING")
               /\ value' = [value EXCEPT ![s] = @ + 1] /\ state' = state
            \/ /\ value' = value
               /\ \E f \in Phil : /\ on[f] = s /\ state[f] = "SLEEPING"
                                  /\ state' = [state EXCEPT ![f] = "RUNNABLE"]
<1>1. current = i /\ on[i] = <<>> /\ state[i] = "RUNNABLE" /\ UNCHANGED <<on, current>>
  BY Seats DEF S!Up, S!Runs, SemOK, S!queueVars
<1>2. CASE wait_queue[s] = <<>>
  <2>1. /\ value' = [value EXCEPT ![s] = @ + 1]
        /\ UNCHANGED <<wait_queue, state, wait_state>>
    BY <1>2 DEF S!Up, S!queueVars, S!procVars
  <2>2. \A j \in Phil : ~(on[j] = s /\ state[j] = "SLEEPING")
    BY <1>2, EmptyQueue DEF SemOK
  <2>3. SemOK'
    BY <1>1, <1>2, <2>1 DEF SemOK
  <2> QED
    BY <1>1, <2>1, <2>2, <2>3
<1>3. CASE wait_queue[s] # <<>>
  <2> DEFINE f == Head(wait_queue[s])
  <2>1. /\ wait_queue[s] \in Seq(Phil) /\ S!Distinct(wait_queue[s])
        /\ Tail(wait_queue[s]) \in Seq(Phil) /\ f \in S!Members(wait_queue[s])
        /\ S!Members(Tail(wait_queue[s])) = S!Members(wait_queue[s]) \ {f}
        /\ S!Distinct(Tail(wait_queue[s]))
    BY <1>3, MembersTail DEF SemOK
  <2>2. f \in Phil /\ on[f] = s /\ state[f] = "SLEEPING"
    BY <2>1 DEF SemOK
  <2>3. /\ value' = value /\ wait_queue' = [wait_queue EXCEPT ![s] = Tail(@)]
        /\ state' = [j \in Phil |-> IF j \in {f} THEN "RUNNABLE" ELSE state[j]]
        /\ wait_state' = [j \in Phil |-> IF j \in {f} THEN "0" ELSE wait_state[j]]
    BY <1>3 DEF S!Up, S!Wakeup
  <2> HIDE DEF f
  <2>4. state' = [state EXCEPT ![f] = "RUNNABLE"] /\ wait_state' = [wait_state EXCEPT ![f] = "0"]
    BY <2>2, <2>3 DEF SemOK
  <2>5. SemOK'
    <3>1. /\ value' \in [Sems -> Nat] /\ wait_queue' \in [Sems -> Seq(Phil)]
          /\ on' \in [Phil -> Sems \union {<<>>}]
          /\ state' \in [Phil -> {"RUNNABLE", "SLEEPING", "ZOMBIE"}]
          /\ wait_state' \in [Phil -> {"0", "KSEM", "TIMER"}]
          /\ current' \in Phil \union {Nobody}
      BY <1>1, <2>1, <2>3, <2>4 DEF SemOK
    <3>2. ASSUME NEW t \in Sems
          PROVE  /\ S!Distinct(wait_queue'[t])
                 /\ S!Members(wait_queue'[t]) = {j \in Phil : on'[j] = t /\ state'[j] = "SLEEPING"}
                 /\ value'[t] > 0 => wait_queue'[t] = <<>>
      <4>1. CASE t = s
        <5>1. wait_queue'[t] = Tail(wait_queue[s])
          BY <2>3, <4>1 DEF SemOK
        <5>2. {j \in Phil : on'[j] = t /\ state'[j] = "SLEEPING"}
              = {j \in Phil : on[j] = s /\ state[j] = "SLEEPING"} \ {f}
          BY <1>1, <2>2, <2>4, <4>1 DEF SemOK
        <5>3. ~(value'[t] > 0)
          BY <1>3, <2>3, <4>1 DEF SemOK
        <5> QED
          BY <2>1, <4>1, <5>1, <5>2, <5>3 DEF SemOK
      <4>2. CASE t # s
        BY <1>1, <2>2, <2>3, <2>4, <4>2, SemFacts DEF SemOK
      <4> QED
        BY <4>1, <4>2
    <3>3. ASSUME NEW j \in Phil
          PROVE  /\ wait_state'[j] = "TIMER" <=> state'[j] = "SLEEPING" /\ on'[j] = <<>>
                 /\ state'[j] = "ZOMBIE" => on'[j] = <<>>
      BY <1>1, <2>2, <2>4, SemFacts DEF SemOK
    <3>4. current' # Nobody => state'[current'] = "RUNNABLE"
      BY <1>1, <2>2, <2>4 DEF SemOK
    <3> QED
      BY <3>1, <3>2, <3>3, <3>4 DEF SemOK, S!Distinct, S!Members
  <2> QED
    BY <1>1, <2>2, <2>3, <2>4, <2>5
<1> QED
  BY <1>2, <1>3

\* The philosopher comes back from down(): it is in no queue any more.
LEMMA ReturnStep ==
  ASSUME SemOK, NEW i \in Phil, S!DownReturns(i)
  PROVE  SemOK' /\ on[i] # <<>> /\ state[i] = "RUNNABLE" /\ on' = [on EXCEPT ![i] = <<>>]
         /\ UNCHANGED <<value, state, current>>
<1>1. on[i] \in Sems /\ state[i] = "RUNNABLE"
  BY Seats DEF S!DownReturns, SemOK
<1>2. i \notin S!Members(wait_queue[on[i]])
  BY <1>1 DEF SemOK
<1>3. wait_queue' = wait_queue
  BY <1>1, <1>2 DEF S!DownReturns, S!Dequeued, SemOK
<1>4. on' = [on EXCEPT ![i] = <<>>] /\ UNCHANGED <<value, state, wait_state, current>>
  BY DEF S!DownReturns, S!procVars
<1>5. SemOK'
  BY <1>1, <1>3, <1>4, SemFacts DEF SemOK
<1> QED
  BY <1>1, <1>4, <1>5, SemFacts

\* do_sleep and the end of a philosopher.
LEMMA SleepStep ==
  ASSUME SemOK, NEW i \in Phil, current = i, on[i] = <<>>, Sleep(i)
  PROVE  SemOK' /\ state' = [state EXCEPT ![i] = "SLEEPING"] /\ UNCHANGED <<value, on>> /\ current' = Nobody
<1>1. /\ state' = [state EXCEPT ![i] = "SLEEPING"] /\ wait_state' = [wait_state EXCEPT ![i] = "TIMER"]
      /\ UNCHANGED <<value, on, wait_queue>> /\ current' = Nobody
  BY DEF Sleep
<1>2. SemOK'
  BY <1>1, SemFacts DEF SemOK
<1> QED
  BY <1>1, <1>2

\* The timer of do_sleep wakes who sleeps in it.
LEMMA TimerStep ==
  ASSUME SemOK, NEW i \in Phil, wait_state[i] = "TIMER", S!Wakeup({i}),
         UNCHANGED <<value, wait_queue, on, current>>
  PROVE  SemOK' /\ state[i] = "SLEEPING" /\ on[i] = <<>> /\ state' = [state EXCEPT ![i] = "RUNNABLE"]
<1>1. state[i] = "SLEEPING" /\ on[i] = <<>>
  BY DEF SemOK
<1>2. state' = [state EXCEPT ![i] = "RUNNABLE"] /\ wait_state' = [wait_state EXCEPT ![i] = "0"]
  BY DEF S!Wakeup, SemOK
<1>3. SemOK'
  BY <1>1, <1>2, SemFacts DEF SemOK
<1> QED
  BY <1>1, <1>2, <1>3

-----------------------------------------------------------------------------
\* At the start all philosophers think and the monitor is free.
LEMMA StartInv == Start => IInv
<1> SUFFICES ASSUME Start PROVE IInv
  OBVIOUS
<1>1. \A i \in Phil : pc[i] = <<"think">> /\ Place(i) = "think"
  BY PcFacts DEF Start, Place, Plain
<1>2. SemOK
  <2>1. SemInit \in [Sems -> Nat]
    BY DEF SemInit
  <2>2. \A s \in Sems : wait_queue[s] = <<>> /\ S!Distinct(wait_queue[s])
    BY DEF Start, S!Start, S!Distinct
  <2> QED
    BY <2>1, <2>2, EmptyQueue, SemFacts, Seats DEF Start, S!Start, SemOK
<1>3. pc \in [Phil -> Pcs]
  BY PcFacts DEF Start, Plain
<1>4. WhereOK
  BY <1>1, SemFacts DEF Start, S!Start, WhereOK
<1>5. CountsOK
  <2>1. Signallers = {}
    BY <1>1 DEF Signallers
  <2>2. value[next] = 0 /\ \A i \in Phil : value[cv(i)] = 0
    BY SemFacts DEF Start, S!Start, SemInit
  <2> QED
    BY <1>1, <2>1, <2>2, FS_EmptySet DEF Start, CountsOK
<1>6. Held
  BY <1>1, SemFacts DEF Start, S!Start, SemInit, Held, Owner, Inside
<1>7. TableOK
  BY <1>1, Seats DEF Start, TableOK
<1> QED
  BY <1>2, <1>3, <1>4, <1>5, <1>6, <1>7 DEF IInv

\* What the counts say: a philosopher in cond_signal makes next_count positive.
LEMMA SignalCount ==
  ASSUME IInv
  PROVE  /\ IsFiniteSet(Signallers) /\ next_count \in Nat
         /\ next_count > 0 <=> Signallers # {}
<1>1. IsFiniteSet(Signallers)
  <2>1. Signallers \in SUBSET Phil
    BY DEF Signallers
  <2> QED
    BY <2>1, Seats, FS_Subset
<1> QED
  BY <1>1, FS_CardinalityType, FS_EmptySet DEF IInv, CountsOK

\* The same places, counters and semaphores of conditions.
LEMMA CountsStay ==
  ASSUME IInv, \A j \in Phil : Place(j)' \in {"signal", "signalled"} <=> Place(j) \in {"signal", "signalled"},
         next_count' = next_count
  PROVE  next_count' = Cardinality(Signallers)'
<1>1. Signallers' = Signallers
  BY DEF Signallers
<1> QED
  BY <1>1 DEF IInv, CountsOK

\* The philosopher that runs is where At says, awake and out of down().
LEMMA AtFacts ==
  ASSUME IInv, NEW i \in Phil, NEW a, At(i, a)
  PROVE  current = i /\ on[i] = <<>> /\ state[i] = "RUNNABLE" /\ Place(i) = a
  BY Seats DEF At, S!Runs, Place, IInv, SemOK

\* An owner is the only one, and the lock has no unit.
LEMMA OwnerAlone ==
  ASSUME IInv, NEW i \in Phil, Owner(i)
  PROVE  value[mutex] = 0 /\ \A j \in Phil : Owner(j) => j = i
  BY DEF IInv, Held

-----------------------------------------------------------------------------
\* The inductive invariant, action by action.

\* A philosopher thinks or eats: it sleeps outside of the monitor.
LEMMA ThinkEatInv == ASSUME IInv, NEW i \in Phil, Think(i) \/ Eat(i) PROVE IInv'
<1>1. PICK a \in {"think", "eat"} :
        At(i, a) /\ Sleep(i) /\ Goto(i, IF a = "think" THEN <<"take">> ELSE <<"put">>)
  BY DEF Think, Eat
<1> DEFINE b == IF a = "think" THEN "take" ELSE "put"
<1>2. /\ current = i /\ on[i] = <<>> /\ state[i] = "RUNNABLE" /\ Place(i) = a
      /\ UNCHANGED <<state_condvar, count, next_count>>
  BY <1>1, AtFacts DEF Think, Eat, monVars
<1>3. /\ SemOK' /\ state' = [state EXCEPT ![i] = "SLEEPING"] /\ UNCHANGED <<value, on>>
  BY <1>1, <1>2, SleepStep DEF IInv
<1>4. pc' \in [Phil -> Pcs] /\ Place(i)' = b /\ \A j \in Phil \ {i} : Place(j)' = Place(j)
  <2>1. Goto(i, <<b>>) /\ <<b>> \in Pcs /\ Head(<<b>>) = b
    BY <1>1, PcFacts DEF Plain
  <2> HIDE DEF b
  <2> QED
    BY <2>1, GotoStep DEF IInv
<1>5. b \in {"take", "put"} /\ (b = "put" => a = "eat")
  BY <1>1
<1> HIDE DEF b
<1>6. \A j \in Phil \ {i} : state'[j] = state[j] /\ state'[i] = "SLEEPING"
  BY <1>2, <1>3 DEF IInv, SemOK
<1>7. WhereOK'
  BY <1>2, <1>3, <1>4, <1>5, <1>6 DEF IInv, WhereOK
<1>8. CountsOK'
  <2>1. next_count' = Cardinality(Signallers)'
    BY <1>2, <1>4, <1>5, CountsStay
  <2> QED
    BY <1>2, <1>3, <1>4, <1>5, <2>1 DEF IInv, CountsOK
<1>9. \A j \in Phil : Owner(j)' <=> Owner(j)
  BY <1>2, <1>4, <1>5, <1>6 DEF Owner, Inside
<1>10. Held'
  BY <1>3, <1>9 DEF IInv, Held
<1>11. TableOK'
  BY <1>2, <1>4, <1>5, <1>6 DEF IInv, TableOK
<1> QED
  BY <1>3, <1>4, <1>7, <1>8, <1>10, <1>11 DEF IInv

\* The philosopher has eaten often enough.
LEMMA QuitInv == ASSUME IInv, NEW i \in Phil, Quit(i) PROVE IInv'
<1>1. At(i, "think") /\ Goto(i, <<"quit">>)
  BY DEF Quit
<1>2. /\ current = i /\ on[i] = <<>> /\ state[i] = "RUNNABLE" /\ Place(i) = "think"
      /\ UNCHANGED <<state_condvar, count, next_count>>
  BY <1>1, AtFacts DEF Quit, monVars
<1>3. /\ state' = [state EXCEPT ![i] = "ZOMBIE"] /\ current' = Nobody
      /\ UNCHANGED <<value, on, wait_queue, wait_state>>
  BY DEF Quit
<1>4. SemOK'
  BY <1>2, <1>3 DEF IInv, SemOK
<1>5. pc' \in [Phil -> Pcs] /\ Place(i)' = "quit" /\ \A j \in Phil \ {i} : Place(j)' = Place(j)
  <2>1. <<"quit">> \in Pcs /\ Head(<<"quit">>) = "quit"
    BY PcFacts DEF Plain
  <2> QED
    BY <1>1, <2>1, GotoStep DEF IInv
<1>6. \A j \in Phil \ {i} : state'[j] = state[j] /\ state'[i] = "ZOMBIE"
  BY <1>2, <1>3 DEF IInv, SemOK
<1>7. WhereOK'
  BY <1>2, <1>3, <1>5, <1>6 DEF IInv, WhereOK
<1>8. CountsOK'
  <2>1. next_count' = Cardinality(Signallers)'
    BY <1>2, <1>5, CountsStay
  <2> QED
    BY <1>2, <1>3, <1>5, <2>1 DEF IInv, CountsOK
<1>9. \A j \in Phil : Owner(j)' <=> Owner(j)
  BY <1>2, <1>5, <1>6 DEF Owner, Inside
<1>10. Held'
  BY <1>3, <1>9 DEF IInv, Held
<1>11. TableOK'
  BY <1>2, <1>5, <1>6 DEF IInv, TableOK
<1> QED
  BY <1>4, <1>5, <1>7, <1>8, <1>10, <1>11 DEF IInv

\* The way into the monitor: the lock is taken, and its taker is the owner, or the
\* philosopher sleeps before the door.
LEMMA EnterInv == ASSUME IInv, NEW i \in Phil, Take(i) \/ Put(i) PROVE IInv'
<1>1. PICK a \in {"take", "put"} :
        At(i, a) /\ S!Down(i, mutex) /\ Goto(i, IF a = "take" THEN <<"hungry">> ELSE <<"full">>)
  BY DEF Take, Put
<1> DEFINE b == IF a = "take" THEN "hungry" ELSE "full"
<1>2. /\ current = i /\ on[i] = <<>> /\ state[i] = "RUNNABLE" /\ Place(i) = a
      /\ UNCHANGED <<state_condvar, count, next_count>>
  BY <1>1, AtFacts DEF Take, Put, monVars
<1>3. /\ SemOK'
      /\ \/ /\ value[mutex] > 0 /\ value' = [value EXCEPT ![mutex] = @ - 1]
            /\ UNCHANGED <<on, state, current>>
         \/ /\ value[mutex] = 0 /\ value' = value
            /\ on' = [on EXCEPT ![i] = mutex] /\ state' = [state EXCEPT ![i] = "SLEEPING"]
            /\ current' = Nobody
  BY <1>1, SemFacts, DownStep DEF IInv
<1>4. pc' \in [Phil -> Pcs] /\ Place(i)' = b /\ \A j \in Phil \ {i} : Place(j)' = Place(j)
  <2>1. Goto(i, <<b>>) /\ <<b>> \in Pcs /\ Head(<<b>>) = b
    BY <1>1, PcFacts DEF Plain
  <2> HIDE DEF b
  <2> QED
    BY <2>1, GotoStep DEF IInv
<1>5. b \in {"hungry", "full"} /\ (b = "full" => a = "put")
  BY <1>1
<1> HIDE DEF b
<1>6. /\ value'[next] = value[next] /\ \A j \in Phil : value'[cv(j)] = value[cv(j)]
      /\ \A j \in Phil \ {i} : state'[j] = state[j] /\ on'[j] = on[j]
      /\ on'[i] \in {<<>>, mutex} /\ state'[i] \in {"RUNNABLE", "SLEEPING"}
      /\ state'[i] = "SLEEPING" => on'[i] = mutex
  BY <1>2, <1>3, SemFacts DEF IInv, SemOK
<1>7. WhereOK'
  <2> SUFFICES ASSUME NEW j \in Phil
               PROVE  /\ on'[j] # <<>> => \/ on'[j] = mutex /\ Place(j)' \in {"hungry", "full"}
                                          \/ on'[j] = next /\ Place(j)' = "signalled"
                                          \/ on'[j] = cv(j) /\ Place(j)' = "cond_waited"
                      /\ state'[j] = "SLEEPING" /\ on'[j] = <<>> => Place(j)' \in {"take", "put"}
                      /\ state'[j] = "ZOMBIE" => Place(j)' = "quit"
                      /\ Place(j)' \in {"signal", "cond_wait"} => current' = j
    BY DEF WhereOK
  <2>1. CASE j = i
    BY <2>1, <1>4, <1>5, <1>6, SemFacts
  <2>2. CASE j # i
    BY <2>2, <1>2, <1>4, <1>6 DEF IInv, WhereOK
  <2> QED
    BY <2>1, <2>2
<1>8. CountsOK'
  <2>1. next_count' = Cardinality(Signallers)'
    BY <1>2, <1>4, <1>5, CountsStay
  <2> QED
    BY <1>2, <1>4, <1>5, <1>6, <2>1 DEF IInv, CountsOK
<1>9. Held'
  <2>1. \A j \in Phil \ {i} : Owner(j)' <=> Owner(j)
    BY <1>4, <1>6 DEF Owner
  <2>2. ~Owner(i) /\ (Owner(i)' <=> state'[i] = "RUNNABLE")
    BY <1>2, <1>4, <1>5 DEF Owner, Inside
  <2>3. CASE value[mutex] > 0
    <3>1. value[mutex] = 1 /\ \A j \in Phil : ~Owner(j)
      BY <2>3 DEF IInv, Held
    <3>2. value'[mutex] = 0 /\ state'[i] = "RUNNABLE"
      BY <1>2, <1>3, <3>1, SemFacts DEF IInv, SemOK
    <3> QED
      BY <2>1, <2>2, <3>1, <3>2 DEF Held
  <2>4. CASE ~(value[mutex] > 0)
    <3>1. value' = value /\ state'[i] = "SLEEPING"
      BY <1>2, <1>3, <2>4 DEF IInv, SemOK
    <3> QED
      BY <2>1, <2>2, <3>1 DEF IInv, Held
  <2> QED
    BY <2>3, <2>4
<1>10. TableOK'
  BY <1>2, <1>4, <1>5, <1>6 DEF IInv, TableOK
<1> QED
  BY <1>3, <1>4, <1>7, <1>8, <1>9, <1>10 DEF IInv

\* The owner gives the monitor to a process that has signalled, if there is one: it
\* sleeps in next's queue.  Else to the first of those at the door, or back.
LEMMA LeaveStep ==
  ASSUME IInv, NEW i \in Phil, current = i, Owner(i), Place(i) # "signalled", Leave(i)
  PROVE  /\ SemOK' /\ UNCHANGED <<on, current>>
         /\ value'[next] = value[next] /\ \A j \in Phil : value'[cv(j)] = value[cv(j)]
         /\ \/ value'[mutex] = 1 /\ state' = state
            \/ /\ value'[mutex] = 0
               /\ \E f \in Phil : /\ state[f] = "SLEEPING" /\ on[f] \in {mutex, next}
                                  /\ state' = [state EXCEPT ![f] = "RUNNABLE"]
<1> DEFINE s == IF next_count > 0 THEN next ELSE mutex
<1>1. S!Up(i, s) /\ s \in {mutex, next} /\ s \in Sems
  BY SemFacts DEF Leave
<1>2. value[mutex] = 0 /\ \A j \in Phil : Owner(j) => j = i
  BY OwnerAlone
<1>3. ASSUME s = next PROVE \E j \in Phil : on[j] = next /\ state[j] = "SLEEPING"
  <2>1. next_count > 0
    BY <1>3, SemFacts
  <2>2. PICK j \in Phil : Place(j) \in {"signal", "signalled"}
    BY <2>1, SignalCount DEF Signallers
  <2>3. Place(j) = "signalled"
    BY <2>2 DEF IInv, WhereOK, Owner, Inside
  <2>4. state[j] = "SLEEPING"
    BY <1>2, <2>3 DEF IInv, WhereOK, SemOK, Owner, Inside
  <2>5. on[j] = next
    BY <2>3, <2>4 DEF IInv, WhereOK
  <2> QED
    BY <2>4, <2>5
<1> HIDE DEF s
<1>4. /\ SemOK' /\ UNCHANGED <<on, current>>
      /\ \/ /\ \A j \in Phil : ~(on[j] = s /\ state[j] = "SLEEPING")
            /\ value' = [value EXCEPT ![s] = @ + 1] /\ state' = state
         \/ /\ value' = value
            /\ \E f \in Phil : /\ on[f] = s /\ state[f] = "SLEEPING"
                               /\ state' = [state EXCEPT ![f] = "RUNNABLE"]
  BY <1>1, UpStep DEF IInv
<1>5. CASE \A j \in Phil : ~(on[j] = s /\ state[j] = "SLEEPING")
  <2>1. s = mutex
    BY <1>1, <1>3, <1>5
  <2>2. value' = [value EXCEPT ![mutex] = @ + 1] /\ state' = state
    BY <1>4, <1>5, <2>1
  <2>3. /\ value'[mutex] = 1 /\ value'[next] = value[next]
        /\ \A j \in Phil : value'[cv(j)] = value[cv(j)]
    BY <1>2, <2>2, SemFacts DEF IInv, SemOK
  <2> QED
    BY <1>4, <2>2, <2>3
<1>6. CASE ~(\A j \in Phil : ~(on[j] = s /\ state[j] = "SLEEPING"))
  BY <1>1, <1>2, <1>4, <1>6
<1> QED
  BY <1>5, <1>6

\* After Leave the leaver is no owner, and the one it has woken is.
LEMMA LeaveHeld ==
  ASSUME IInv, NEW i \in Phil, current = i, Owner(i), Place(i) # "signalled", Leave(i),
         Place(i)' \notin Inside, \A j \in Phil \ {i} : Place(j)' = Place(j)
  PROVE  Held'
<1>1. \A j \in Phil : Owner(j) => j = i
  BY OwnerAlone
<1>2. ~Owner(i)'
  BY DEF Owner
<1>3. CASE value'[mutex] = 1 /\ state' = state
  BY <1>1, <1>2, <1>3 DEF Held, Owner
<1>4. CASE /\ value'[mutex] = 0
           /\ \E f \in Phil : /\ state[f] = "SLEEPING" /\ on[f] \in {mutex, next}
                              /\ state' = [state EXCEPT ![f] = "RUNNABLE"]
  <2>1. PICK f \in Phil : /\ state[f] = "SLEEPING" /\ on[f] \in {mutex, next}
                          /\ state' = [state EXCEPT ![f] = "RUNNABLE"]
    BY <1>4
  <2>2. f # i /\ Place(f) \in Inside
    BY <2>1, SemFacts DEF Owner, IInv, WhereOK, Inside
  <2>3. Owner(f)' /\ \A j \in Phil \ {i, f} : Owner(j)' <=> Owner(j)
    BY <2>1, <2>2 DEF Owner, IInv, SemOK
  <2> QED
    BY <1>1, <1>2, <1>4, <2>2, <2>3 DEF Held
<1> QED
  BY <1>3, <1>4, LeaveStep

\* The owner leaves the monitor, or starts to wait for its condition.
LEMMA LeavesInv == ASSUME IInv, NEW i \in Phil, CondWait(i) \/ Taken(i) \/ LeavePut(i) PROVE IInv'
<1>1. PICK b \in {"cond_wait", "eat", "think"} :
        /\ Leave(i) /\ Goto(i, <<b>>) /\ current = i /\ Place(i) \in {"tested", "taken", "leave"}
        /\ state[i] = "RUNNABLE" /\ on[i] = <<>> /\ UNCHANGED <<state_condvar, next_count>>
        /\ b = "eat" => state_condvar[i] = "EATING"
        /\ count' = IF b = "cond_wait" THEN [count EXCEPT ![i] = @ + 1] ELSE count
  <2>1. CASE CondWait(i)
    BY <2>1, AtFacts DEF CondWait
  <2>2. CASE Taken(i)
    BY <2>2, AtFacts DEF Taken, monVars, IInv, TableOK
  <2>3. CASE LeavePut(i)
    BY <2>3, AtFacts DEF LeavePut, monVars
  <2> QED
    BY <2>1, <2>2, <2>3
<1>2. Owner(i) /\ Place(i) # "signalled"
  BY <1>1 DEF Owner, Inside
<1>3. pc' \in [Phil -> Pcs] /\ Place(i)' = b /\ \A j \in Phil \ {i} : Place(j)' = Place(j)
  <2>1. <<b>> \in Pcs /\ Head(<<b>>) = b
    BY PcFacts DEF Plain
  <2> QED
    BY <1>1, <2>1, GotoStep DEF IInv
<1>4. Held'
  BY <1>1, <1>2, <1>3, LeaveHeld DEF Inside
<1>5. /\ SemOK' /\ UNCHANGED <<on, current>>
      /\ value'[next] = value[next] /\ \A j \in Phil : value'[cv(j)] = value[cv(j)]
      /\ \A j \in Phil : \/ state'[j] = state[j]
                         \/ state[j] = "SLEEPING" /\ state'[j] = "RUNNABLE" /\ on[j] \in {mutex, next}
  <2>1. \A f \in Phil : state' = [state EXCEPT ![f] = "RUNNABLE"]
          => state'[f] = "RUNNABLE" /\ \A j \in Phil \ {f} : state'[j] = state[j]
    BY DEF IInv, SemOK
  <2> QED
    BY <1>1, <1>2, <2>1, LeaveStep
<1>6. state'[i] = state[i]
  BY <1>1, <1>5
<1>7. WhereOK'
  BY <1>1, <1>3, <1>5, <1>6, SemFacts DEF IInv, WhereOK
<1>8. CountsOK'
  <2>1. next_count' = Cardinality(Signallers)'
    BY <1>1, <1>3, CountsStay
  <2>2. count[i] = 0
    BY <1>1 DEF IInv, CountsOK
  <2>3. count' \in [Phil -> {0, 1}] /\ \A j \in Phil : count'[j] = 1 <=> Place(j)' \in {"cond_wait", "cond_waited"}
    BY <1>1, <1>3, <2>2 DEF IInv, CountsOK
  <2> QED
    BY <1>5, <2>1, <2>3 DEF IInv, CountsOK
<1>9. TableOK'
  <2> SUFFICES ASSUME NEW j \in Phil
               PROVE  /\ Place(j)' \in {"taken", "eat", "put", "full"} => state_condvar[j] = "EATING"
                      /\ Place(j)' = "cond_waited" /\ state'[j] = "RUNNABLE" => state_condvar[j] = "EATING"
                      /\ Place(j)' = "tested" => state_condvar[j] \in {"HUNGRY", "EATING"}
    BY <1>1 DEF IInv, TableOK
  <2>1. CASE j = i
    BY <1>1, <1>3, <2>1
  <2>2. CASE j # i
    <3>1. Place(j) = "cond_waited" => on[j] \notin {mutex, next}
      BY SemFacts DEF IInv, WhereOK
    <3> QED
      BY <2>2, <3>1, <1>3, <1>5 DEF IInv, TableOK
  <2> QED
    BY <2>1, <2>2
<1> QED
  BY <1>3, <1>4, <1>5, <1>7, <1>8, <1>9 DEF IInv

\* The philosopher, who has given the monitor away, sleeps in its condition's queue,
\* or in next's: no unit waits there.
LEMMA SleepsInv == ASSUME IInv, NEW i \in Phil, CondSleeps(i) \/ SignalSleeps(i) PROVE IInv'
<1>1. PICK s \in {cv(i), next} :
        /\ S!Down(i, s) /\ UNCHANGED <<state_condvar, count, next_count>>
        /\ IF s = next THEN At(i, "signal") ELSE At(i, "cond_wait")
        /\ Goto(i, IF s = next THEN <<"signalled", pc[i][2]>> ELSE <<"cond_waited">>)
  BY SemFacts DEF CondSleeps, SignalSleeps, monVars
<1> DEFINE b == IF s = next THEN "signalled" ELSE "cond_waited"
           x == IF s = next THEN <<"signalled", pc[i][2]>> ELSE <<"cond_waited">>
<1>2. /\ current = i /\ on[i] = <<>> /\ state[i] = "RUNNABLE"
      /\ Place(i) = IF s = next THEN "signal" ELSE "cond_wait"
  BY <1>1, AtFacts
<1>3. s \in Sems /\ value[s] = 0
  BY <1>1, SemFacts DEF IInv, CountsOK
<1>4. /\ SemOK' /\ value' = value
      /\ on' = [on EXCEPT ![i] = s] /\ state' = [state EXCEPT ![i] = "SLEEPING"]
      /\ current' = Nobody
  BY <1>1, <1>3, DownStep DEF IInv
<1>5. pc' \in [Phil -> Pcs] /\ Place(i)' = b /\ \A j \in Phil \ {i} : Place(j)' = Place(j)
  <2>1. x \in Pcs /\ Head(x) = b
    <3>1. CASE s = next
      <4>1. PICK r \in Back : pc[i] = <<"signal", r>>
        BY <1>2, <3>1, PcHeads DEF Place, IInv
      <4>2. pc[i][2] = r
        BY <4>1, PcFacts
      <4> QED
        BY <3>1, <4>2, PcFacts
    <3>2. CASE s # next
      BY <3>2, PcFacts DEF Plain
    <3> QED
      BY <3>1, <3>2
  <2>2. Goto(i, x)
    BY <1>1
  <2> HIDE DEF x, b
  <2> QED
    BY <2>1, <2>2, GotoStep DEF IInv
<1>6. /\ b \in {"signalled", "cond_waited"}
      /\ b = "signalled" <=> Place(i) = "signal"
      /\ s = IF b = "signalled" THEN next ELSE cv(i)
  BY <1>1, <1>2
<1> HIDE DEF b, x
<1>7. \A j \in Phil \ {i} : state'[j] = state[j] /\ on'[j] = on[j] /\ on'[i] = s /\ state'[i] = "SLEEPING"
  BY <1>2, <1>4 DEF IInv, SemOK
<1>8. on'[i] = s /\ state'[i] = "SLEEPING"
  BY <1>2, <1>4 DEF IInv, SemOK
<1>9. WhereOK'
  <2> SUFFICES ASSUME NEW j \in Phil
               PROVE  /\ on'[j] # <<>> => \/ on'[j] = mutex /\ Place(j)' \in {"hungry", "full"}
                                          \/ on'[j] = next /\ Place(j)' = "signalled"
                                          \/ on'[j] = cv(j) /\ Place(j)' = "cond_waited"
                      /\ state'[j] = "SLEEPING" /\ on'[j] = <<>> => Place(j)' \in {"take", "put"}
                      /\ state'[j] = "ZOMBIE" => Place(j)' = "quit"
                      /\ Place(j)' \in {"signal", "cond_wait"} => current' = j
    BY DEF WhereOK
  <2>1. CASE j = i
    BY <2>1, <1>5, <1>6, <1>8, SemFacts
  <2>2. CASE j # i
    BY <2>2, <1>2, <1>5, <1>7 DEF IInv, WhereOK
  <2> QED
    BY <2>1, <2>2
<1>10. CountsOK'
  <2>1. next_count' = Cardinality(Signallers)'
    BY <1>1, <1>2, <1>5, <1>6, CountsStay
  <2> QED
    BY <1>1, <1>2, <1>4, <1>5, <1>6, <2>1 DEF IInv, CountsOK
<1>11. \A j \in Phil : Owner(j)' <=> Owner(j)
  BY <1>2, <1>5, <1>7, <1>8 DEF Owner, Inside
<1>12. Held'
  BY <1>4, <1>11 DEF IInv, Held
<1>13. TableOK'
  BY <1>1, <1>5, <1>6, <1>7, <1>8 DEF IInv, TableOK
<1> QED
  BY <1>4, <1>5, <1>9, <1>10, <1>12, <1>13 DEF IInv

\* The philosopher is back from cond_wait, with the monitor.
LEMMA CondReturnsInv == ASSUME IInv, NEW i \in Phil, CondReturns(i) PROVE IInv'
<1>1. /\ At(i, "cond_waited") /\ Goto(i, <<"taken">>) /\ count' = [count EXCEPT ![i] = @ - 1]
      /\ UNCHANGED <<semVars, state_condvar, next_count>>
  BY DEF CondReturns
<1>2. current = i /\ on[i] = <<>> /\ state[i] = "RUNNABLE" /\ Place(i) = "cond_waited"
  BY <1>1, AtFacts
<1>3. pc' \in [Phil -> Pcs] /\ Place(i)' = "taken" /\ \A j \in Phil \ {i} : Place(j)' = Place(j)
  <2>1. <<"taken">> \in Pcs /\ Head(<<"taken">>) = "taken"
    BY PcFacts DEF Plain
  <2> QED
    BY <1>1, <2>1, GotoStep DEF IInv
<1>4. UNCHANGED <<value, on, state, current, wait_queue, wait_state>>
  BY <1>1 DEF semVars
<1>5. SemOK'
  BY <1>4 DEF IInv, SemOK
<1>6. WhereOK'
  BY <1>2, <1>3, <1>4 DEF IInv, WhereOK
<1>7. CountsOK'
  <2>1. next_count' = Cardinality(Signallers)'
    BY <1>1, <1>2, <1>3, CountsStay
  <2>2. count[i] = 1
    BY <1>2 DEF IInv, CountsOK
  <2>3. count' \in [Phil -> {0, 1}] /\ \A j \in Phil : count'[j] = 1 <=> Place(j)' \in {"cond_wait", "cond_waited"}
    BY <1>1, <1>3, <2>2 DEF IInv, CountsOK
  <2> QED
    BY <1>4, <2>1, <2>3 DEF IInv, CountsOK
<1>8. \A j \in Phil : Owner(j)' <=> Owner(j)
  BY <1>2, <1>3, <1>4 DEF Owner, Inside
<1>9. Held'
  BY <1>4, <1>8 DEF IInv, Held
<1>10. TableOK'
  BY <1>1, <1>2, <1>3, <1>4 DEF IInv, TableOK
<1> QED
  BY <1>3, <1>5, <1>6, <1>7, <1>9, <1>10 DEF IInv

\* The signaller is back from next's queue, with the monitor.
LEMMA SignalReturnsInv == ASSUME IInv, NEW i \in Phil, SignalReturns(i) PROVE IInv'
<1>1. /\ At(i, "signalled") /\ Goto(i, Tail(pc[i])) /\ next_count' = next_count - 1
      /\ UNCHANGED <<semVars, state_condvar, count>>
  BY DEF SignalReturns
<1>2. current = i /\ on[i] = <<>> /\ state[i] = "RUNNABLE" /\ Place(i) = "signalled"
  BY <1>1, AtFacts
<1>3. PICK b \in Back : Tail(pc[i]) = <<b>>
  <2>1. PICK r \in Back : pc[i] = <<"signalled", r>>
    BY <1>2, PcHeads DEF Place, IInv
  <2> QED
    BY <2>1, PcFacts
<1>4. pc' \in [Phil -> Pcs] /\ Place(i)' = b /\ \A j \in Phil \ {i} : Place(j)' = Place(j)
  <2>1. <<b>> \in Pcs /\ Head(<<b>>) = b /\ Goto(i, <<b>>)
    BY <1>1, <1>3, PcFacts DEF Plain, Back
  <2> QED
    BY <2>1, GotoStep DEF IInv
<1>5. UNCHANGED <<value, on, state, current, wait_queue, wait_state>>
  BY <1>1 DEF semVars
<1>6. SemOK'
  BY <1>5 DEF IInv, SemOK
<1>7. WhereOK'
  BY <1>2, <1>4, <1>5 DEF IInv, WhereOK, Back
<1>8. CountsOK'
  <2>1. i \in Signallers /\ Signallers' = Signallers \ {i}
    BY <1>2, <1>4 DEF Signallers, Back
  <2>2. Cardinality(Signallers \ {i}) = Cardinality(Signallers) - 1
    BY <2>1, SignalCount, FS_RemoveElement
  <2>3. next_count' = Cardinality(Signallers)'
    BY <1>1, <2>1, <2>2 DEF IInv, CountsOK
  <2> QED
    BY <1>1, <1>2, <1>4, <1>5, <2>3 DEF IInv, CountsOK, Back
<1>9. \A j \in Phil : Owner(j)' <=> Owner(j)
  BY <1>2, <1>4, <1>5 DEF Owner, Inside, Back
<1>10. Held'
  BY <1>5, <1>9 DEF IInv, Held
<1>11. TableOK'
  BY <1>1, <1>2, <1>4, <1>5 DEF IInv, TableOK, Back
<1> QED
  BY <1>4, <1>6, <1>7, <1>8, <1>10, <1>11 DEF IInv

\* down() returns, the CPU goes to another, a timer ends, or nothing happens: nobody
\* moves in its code.
LEMMA OtherInv ==
  ASSUME IInv, NEW i \in Phil, SemStep(i) \/ TimerEnds(i) \/ UNCHANGED vars
  PROVE  IInv'
<1>1. UNCHANGED <<value, pc, state_condvar, count, next_count>>
  BY DEF SemStep, TimerEnds, vars, semVars, dinVars, monVars, S!DownReturns, S!Dispatch
<1>2. /\ SemOK'
      /\ \A j \in Phil : \/ on'[j] = on[j]
                         \/ on'[j] = <<>> /\ state[j] = "RUNNABLE"
      /\ \A j \in Phil : \/ state'[j] = state[j]
                         \/ state'[j] = "RUNNABLE" /\ state[j] = "SLEEPING" /\ on[j] = <<>>
      /\ current # Nobody => current' = current
  <2>1. CASE S!DownReturns(i) /\ UNCHANGED dinVars
    <3>1. /\ SemOK' /\ on[i] # <<>> /\ state[i] = "RUNNABLE" /\ on' = [on EXCEPT ![i] = <<>>]
          /\ UNCHANGED <<value, state, current>>
      BY <2>1, ReturnStep DEF IInv
    <3> QED
      BY <3>1 DEF IInv, SemOK
  <2>2. CASE S!Dispatch(i) /\ UNCHANGED dinVars
    <3>1. /\ current = Nobody /\ state[i] = "RUNNABLE" /\ current' = i
          /\ UNCHANGED <<value, wait_queue, on, state, wait_state>>
      BY <2>2 DEF S!Dispatch, S!queueVars, S!procVars
    <3>2. SemOK'
      BY <3>1 DEF IInv, SemOK
    <3> QED
      BY <3>1, <3>2
  <2>3. CASE TimerEnds(i)
    <3>1. /\ wait_state[i] = "TIMER" /\ S!Wakeup({i})
          /\ UNCHANGED <<value, wait_queue, on, current>>
      BY <2>3 DEF TimerEnds
    <3>2. SemOK' /\ state[i] = "SLEEPING" /\ on[i] = <<>> /\ state' = [state EXCEPT ![i] = "RUNNABLE"]
      BY <3>1, TimerStep DEF IInv
    <3> QED
      BY <3>1, <3>2 DEF IInv, SemOK
  <2>4. CASE UNCHANGED vars
    <3>1. UNCHANGED <<value, wait_queue, on, state, wait_state, current>>
      BY <2>4 DEF vars, semVars
    <3>2. SemOK'
      BY <3>1 DEF IInv, SemOK
    <3> QED
      BY <3>1, <3>2
  <2> QED
    BY <2>1, <2>2, <2>3, <2>4 DEF SemStep
<1>3. \A j \in Phil : Place(j)' = Place(j)
  BY <1>1 DEF Place
<1>4. WhereOK'
  BY <1>2, <1>3, Seats DEF IInv, WhereOK
<1>5. CountsOK'
  <2>1. next_count' = Cardinality(Signallers)'
    BY <1>1, <1>3, CountsStay
  <2> QED
    BY <1>1, <1>3, <2>1 DEF IInv, CountsOK
<1>6. \A j \in Phil : state[j] = "SLEEPING" /\ on[j] = <<>> => Place(j) \in {"take", "put"}
  BY DEF IInv, WhereOK
<1>7. \A j \in Phil : Owner(j)' <=> Owner(j)
  BY <1>2, <1>3, <1>6 DEF Owner, Inside
<1>8. Held'
  BY <1>1, <1>7 DEF IInv, Held
<1>9. TableOK'
  BY <1>1, <1>2, <1>3, <1>6 DEF IInv, TableOK
<1> QED
  BY <1>1, <1>2, <1>4, <1>5, <1>8, <1>9 DEF IInv

-----------------------------------------------------------------------------
\* phi_test_condvar: the table it leaves.
LEMMA Seated ==
  ASSUME TableOK, NEW i \in Phil, NEW j \in Phil, NEW st,
         st \in [Phil -> {"THINKING", "HUNGRY", "EATING"}],
         \A k \in Phil \ {i} : st[k] = state_condvar[k],
         st[i] \in {"HUNGRY", "THINKING", state_condvar[i]},
         \/ MayEat(j, st) /\ state_condvar' = [st EXCEPT ![j] = "EATING"]
         \/ state_condvar' = st
  PROVE  /\ state_condvar' \in [Phil -> {"THINKING", "HUNGRY", "EATING"}]
         /\ \A k \in Phil : state_condvar'[k] = "EATING" => state_condvar'[RIGHT(k)] # "EATING"
         /\ \A k \in Phil \ {i} : \/ state_condvar'[k] = state_condvar[k]
                                  \/ state_condvar'[k] = "EATING"
<1>1. \A k \in Phil : st[k] = "EATING" => state_condvar[k] = "EATING"
  OBVIOUS
<1>2. \A k \in Phil : st[k] = "EATING" => st[RIGHT(k)] # "EATING"
  BY <1>1, Seats DEF TableOK
<1>3. CASE state_condvar' = st
  BY <1>2, <1>3
<1>4. CASE MayEat(j, st) /\ state_condvar' = [st EXCEPT ![j] = "EATING"]
  <2>1. /\ st[LEFT(j)] # "EATING" /\ st[RIGHT(j)] # "EATING"
        /\ state_condvar'[j] = "EATING" /\ \A k \in Phil \ {j} : state_condvar'[k] = st[k]
    BY <1>4 DEF MayEat
  <2>2. ASSUME NEW k \in Phil, state_condvar'[k] = "EATING" PROVE state_condvar'[RIGHT(k)] # "EATING"
    <3>1. CASE k = j
      BY <2>1, <3>1, Seats
    <3>2. CASE RIGHT(k) = j
      <4>1. LEFT(j) = k /\ k # j
        BY <3>2, Seats
      <4> QED
        BY <2>1, <2>2, <4>1
    <3>3. CASE k # j /\ RIGHT(k) # j
      BY <1>2, <2>1, <2>2, <3>3, Seats
    <3> QED
      BY <3>1, <3>2, <3>3
  <2> QED
    BY <1>4, <2>1, <2>2
<1> QED
  BY <1>3, <1>4

\* cond_signal: without a waiter nothing; else the waiter, asleep, gets the monitor.
LEMMA SignalStep ==
  ASSUME IInv, NEW i \in Phil, NEW c \in Phil, NEW place,
         CondSignal(i, c, place), Owner(i), Place(i) \notin {"cond_waited"}
  PROVE  \/ /\ c # i /\ state[c] = "SLEEPING" /\ Place(c) = "cond_waited"
            /\ state' = [state EXCEPT ![c] = "RUNNABLE"] /\ next_count' = next_count + 1
            /\ SemOK' /\ UNCHANGED <<value, on, current, count>>
            /\ Goto(i, <<"signal", place>>)
         \/ Goto(i, <<place>>) /\ UNCHANGED <<semVars, count, next_count>>
<1>1. CASE count[c] = 0
  BY <1>1 DEF CondSignal, monVars, IInv, CountsOK
<1>2. CASE count[c] # 0
  <2>1. /\ count[c] = 1 /\ next_count' = next_count + 1 /\ S!Up(i, cv(c))
        /\ Goto(i, <<"signal", place>>) /\ count' = count
    BY <1>2 DEF CondSignal, IInv, CountsOK
  <2>2. Place(c) \in {"cond_wait", "cond_waited"}
    BY <2>1 DEF IInv, CountsOK
  <2>3. /\ SemOK' /\ current = i /\ UNCHANGED <<on, current>>
        /\ \/ /\ \A j \in Phil : ~(on[j] = cv(c) /\ state[j] = "SLEEPING")
              /\ value' = [value EXCEPT ![cv(c)] = @ + 1] /\ state' = state
           \/ /\ value' = value
              /\ \E f \in Phil : /\ on[f] = cv(c) /\ state[f] = "SLEEPING"
                                 /\ state' = [state EXCEPT ![f] = "RUNNABLE"]
    BY <2>1, SemFacts, UpStep DEF IInv
  <2>4. Place(c) = "cond_waited" /\ c # i
    BY <2>2, <2>3 DEF IInv, WhereOK, Owner, Inside
  <2>5. state[c] = "SLEEPING"
    <3>1. ~Owner(c)
      BY <2>4, OwnerAlone
    <3> QED
      BY <2>4, <3>1 DEF Owner, Inside, IInv, WhereOK, SemOK
  <2>6. on[c] = cv(c)
    BY <2>4, <2>5 DEF IInv, WhereOK
  <2>7. \A f \in Phil : on[f] = cv(c) => f = c
    BY SemFacts DEF IInv, WhereOK
  <2> QED
    BY <2>1, <2>3, <2>4, <2>5, <2>6, <2>7
<1> QED
  BY <1>1, <1>2

\* The steps in which a philosopher looks at the table.
LEMMA TestInv ==
  ASSUME IInv, NEW i \in Phil, NEW j \in Phil, NEW a, NEW st, NEW place,
         At(i, a), a \in {"hungry", "full", "test_right"}, Test(i, j, st, place),
         \/ j = i /\ a = "hungry" /\ place = "tested" /\ st = [state_condvar EXCEPT ![i] = "HUNGRY"]
         \/ place \in Back /\ a # "hungry" /\ st \in {state_condvar, [state_condvar EXCEPT ![i] = "THINKING"]}
  PROVE  IInv'
<1>1. current = i /\ on[i] = <<>> /\ state[i] = "RUNNABLE" /\ Place(i) = a
  BY AtFacts
<1>2. Owner(i) /\ Place(i) # "cond_waited" /\ \A k \in Phil : Owner(k) => k = i
  BY <1>1, OwnerAlone DEF Owner, Inside
<1>3. /\ st \in [Phil -> {"THINKING", "HUNGRY", "EATING"}]
      /\ \A k \in Phil \ {i} : st[k] = state_condvar[k]
      /\ st[i] \in {"HUNGRY", "THINKING", state_condvar[i]}
      /\ place = "tested" => st[i] = "HUNGRY"
  BY DEF IInv, TableOK, Back
<1>4. \/ MayEat(j, st) /\ state_condvar' = [st EXCEPT ![j] = "EATING"] /\ CondSignal(i, j, place)
      \/ state_condvar' = st /\ Goto(i, <<place>>) /\ UNCHANGED <<semVars, count, next_count>>
  BY DEF Test, monVars
<1>5. /\ state_condvar' \in [Phil -> {"THINKING", "HUNGRY", "EATING"}]
      /\ \A k \in Phil : state_condvar'[k] = "EATING" => state_condvar'[RIGHT(k)] # "EATING"
      /\ \A k \in Phil \ {i} : \/ state_condvar'[k] = state_condvar[k]
                               \/ state_condvar'[k] = "EATING"
  BY <1>3, <1>4, Seated DEF IInv
<1>6. place = "tested" => state_condvar'[i] \in {"HUNGRY", "EATING"}
  BY <1>3, <1>4
<1>7. CASE Goto(i, <<place>>) /\ UNCHANGED <<semVars, count, next_count>>
  <2>1. UNCHANGED <<value, on, state, current, wait_queue, wait_state>>
    BY <1>7 DEF semVars
  <2>2. pc' \in [Phil -> Pcs] /\ Place(i)' = place /\ \A k \in Phil \ {i} : Place(k)' = Place(k)
    <3>1. <<place>> \in Pcs /\ Head(<<place>>) = place
      BY PcFacts DEF Plain, Back
    <3> QED
      BY <1>7, <3>1, GotoStep DEF IInv
  <2>3. place \in {"tested", "test_right", "leave"}
    BY DEF Back
  <2>4. SemOK'
    BY <2>1 DEF IInv, SemOK
  <2>5. WhereOK'
    BY <1>1, <2>1, <2>2, <2>3 DEF IInv, WhereOK
  <2>6. CountsOK'
    <3>1. next_count' = Cardinality(Signallers)'
      BY <1>1, <1>7, <2>2, <2>3, CountsStay
    <3> QED
      BY <1>1, <1>7, <2>1, <2>2, <2>3, <3>1 DEF IInv, CountsOK
  <2>7. \A k \in Phil : Owner(k)' <=> Owner(k)
    BY <1>1, <2>1, <2>2, <2>3 DEF Owner, Inside
  <2>8. Held'
    BY <2>1, <2>7 DEF IInv, Held
  <2>9. TableOK'
    BY <1>5, <1>6, <2>1, <2>2, <2>3 DEF IInv, TableOK
  <2> QED
    BY <2>2, <2>4, <2>5, <2>6, <2>8, <2>9 DEF IInv
<1>8. CASE /\ MayEat(j, st) /\ state_condvar' = [st EXCEPT ![j] = "EATING"]
           /\ j # i /\ state[j] = "SLEEPING" /\ Place(j) = "cond_waited"
           /\ state' = [state EXCEPT ![j] = "RUNNABLE"] /\ next_count' = next_count + 1
           /\ SemOK' /\ UNCHANGED <<value, on, current, count>>
           /\ Goto(i, <<"signal", place>>)
  <2>1. place \in Back
    BY <1>8
  <2>2. pc' \in [Phil -> Pcs] /\ Place(i)' = "signal" /\ \A k \in Phil \ {i} : Place(k)' = Place(k)
    <3>1. <<"signal", place>> \in Pcs /\ Head(<<"signal", place>>) = "signal"
      BY <2>1, PcFacts
    <3> QED
      BY <1>8, <3>1, GotoStep DEF IInv
  <2>3. state'[j] = "RUNNABLE" /\ \A k \in Phil \ {j} : state'[k] = state[k]
    BY <1>8 DEF IInv, SemOK
  <2>4. state_condvar'[j] = "EATING"
    BY <1>3, <1>8
  <2>5. WhereOK'
    BY <1>1, <1>8, <2>2, <2>3 DEF IInv, WhereOK
  <2>6. CountsOK'
    <3>1. i \notin Signallers /\ Signallers' = Signallers \union {i}
      BY <1>1, <2>2 DEF Signallers
    <3>2. Cardinality(Signallers \union {i}) = Cardinality(Signallers) + 1
      BY <3>1, SignalCount, FS_AddElement
    <3>3. next_count' = Cardinality(Signallers)'
      BY <1>8, <3>1, <3>2 DEF IInv, CountsOK
    <3> QED
      BY <1>1, <1>8, <2>2, <3>3 DEF IInv, CountsOK
  <2>7. ~Owner(i)' /\ Owner(j)' /\ \A k \in Phil \ {i, j} : Owner(k)' <=> Owner(k)
    BY <1>8, <2>2, <2>3 DEF Owner, Inside
  <2>8. Held'
    BY <1>2, <1>8, <2>7, OwnerAlone DEF Held
  <2>9. TableOK'
    BY <1>5, <2>2, <2>3, <2>4 DEF IInv, TableOK
  <2> QED
    BY <1>8, <2>2, <2>5, <2>6, <2>8, <2>9 DEF IInv
<1> QED
  BY <1>2, <1>4, <1>7, <1>8, SignalStep

\* phi_test_condvar leaves the table and the monitor in order, called from all three places.
LEMMA LooksInv == ASSUME IInv, NEW i \in Phil, Hungry(i) \/ TestLeft(i) \/ TestRight(i) PROVE IInv'
<1>1. CASE Hungry(i)
  <2>1. At(i, "hungry") /\ Test(i, i, [state_condvar EXCEPT ![i] = "HUNGRY"], "tested")
    BY <1>1 DEF Hungry
  <2> QED
    BY <2>1, TestInv
<1>2. CASE TestLeft(i)
  <2>1. At(i, "full") /\ Test(i, LEFT(i), [state_condvar EXCEPT ![i] = "THINKING"], "test_right")
    BY <1>2 DEF TestLeft
  <2>2. LEFT(i) \in Phil /\ "test_right" \in Back
    BY Seats DEF Back
  <2> QED
    BY <2>1, <2>2, TestInv
<1>3. CASE TestRight(i)
  <2>1. At(i, "test_right") /\ Test(i, RIGHT(i), state_condvar, "leave")
    BY <1>3 DEF TestRight
  <2>2. RIGHT(i) \in Phil /\ "leave" \in Back
    BY Seats DEF Back
  <2> QED
    BY <2>1, <2>2, TestInv
<1> QED
  BY <1>1, <1>2, <1>3

\* Every step of every philosopher keeps the invariant.
LEMMA NextInv == ASSUME IInv, [Next]_vars PROVE IInv'
<1>1. CASE UNCHANGED vars
  <2>1. 0 \in Phil
    BY PhilosophersAssumption DEF Phil
  <2> QED
    BY <1>1, <2>1, OtherInv
<1>2. ASSUME NEW i \in Phil, Step(i) PROVE IInv'
  BY <1>2, ThinkEatInv, QuitInv, EnterInv, LooksInv, LeavesInv, SleepsInv, CondReturnsInv,
     SignalReturnsInv, OtherInv DEF Step
<1> QED
  BY <1>1, <1>2 DEF Next

\* The strengthened invariant of monitor.c and check_sync.c, for every number of philosophers.
THEOREM Inductive == Spec => []IInv
<1>1. Start => IInv
  BY StartInv
<1>2. IInv /\ [Next]_vars => IInv'
  BY NextInv
<1> QED
  BY <1>1, <1>2, PTL DEF Spec

\* phi_test_condvar never lets a philosopher eat beside one who eats, and what it
\* decided still holds when the one it signalled comes to run.
THEOREM Apart == Spec => []NeighboursApart
<1>1. IInv => NeighboursApart
  BY DEF IInv, TableOK, NeighboursApart, Place
<1> QED
  BY <1>1, Inductive, PTL

\* The mutex of monitor_t is free, or one thread alone is inside the monitor: cond_signal
\* and cond_wait pass it on through next and the conditions without letting a second in.
THEOREM OneOwner == Spec => []MonitorHeld
<1>1. IInv => MonitorHeld
  <2> SUFFICES ASSUME IInv PROVE MonitorHeld
    OBVIOUS
  <2>1. Owners = {i \in Phil : Owner(i)}
    BY DEF Owners, Owner, Inside, Place
  <2>2. CASE value[mutex] = 1 /\ \A i \in Phil : ~Owner(i)
    BY <2>1, <2>2, FS_EmptySet DEF MonitorHeld
  <2>3. CASE value[mutex] = 0 /\ \E o \in Phil : \A i \in Phil : Owner(i) <=> i = o
    <3>1. PICK o \in Phil : \A i \in Phil : Owner(i) <=> i = o
      BY <2>3
    <3>2. Owners = {o}
      BY <2>1, <3>1
    <3> QED
      BY <2>3, <3>2, FS_Singleton DEF MonitorHeld
  <2> QED
    BY <2>2, <2>3 DEF IInv, Held
<1> QED
  BY <1>1, Inductive, PTL

\* cond_signal finds the table on its return as the signalled philosopher left it, and
\* that one ran at once: nobody else changes state_condvar in between.
THEOREM HandsOver == Spec => SignalHandsOver
<1>1. ASSUME IInv, [Next]_vars, NEW i \in Phil, Head(pc[i]) = "cond_waited", state[i] = "RUNNABLE"
      PROVE  state_condvar' = state_condvar
  <2>1. Owner(i)
    BY <1>1 DEF Owner, Inside, Place
  <2>2. ASSUME NEW j \in Phil, Hungry(j) \/ TestLeft(j) \/ TestRight(j) PROVE FALSE
    <3>1. state[j] = "RUNNABLE" /\ Place(j) \in {"hungry", "full", "test_right"}
      BY <1>1, <2>2, AtFacts DEF Hungry, TestLeft, TestRight
    <3>2. Owner(j) /\ j # i
      BY <1>1, <3>1 DEF Owner, Inside, Place
    <3> QED
      BY <1>1, <2>1, <3>2, OwnerAlone
  <2>3. ASSUME NEW j \in Phil, Step(j) PROVE state_condvar' = state_condvar
    BY <2>2, <2>3 DEF Step, Think, Quit, Take, CondWait, CondSleeps, CondReturns, Taken, Eat, Put,
       LeavePut, SignalSleeps, SignalReturns, SemStep, TimerEnds, dinVars
  <2> QED
    BY <1>1, <2>3 DEF Next, vars, dinVars
<1>2. IInv /\ [Next]_vars
        => [\A i \in Phil : Head(pc[i]) = "cond_waited" /\ state[i] = "RUNNABLE"
                              => state_condvar' = state_condvar]_vars
  BY <1>1
<1> QED
  BY <1>2, Inductive, PTL DEF Spec, SignalHandsOver

=============================================================================
