---------------------------- MODULE SemaphoreSpec ----------------------------
(***************************************************************************)
(* What the semaphores of ucore promise.  The credit of a semaphore is its *)
(* first value plus the calls of up() less those of down(); a down() that  *)
(* finds no credit needs as many more calls of up() as it takes to pay for *)
(* it and all before it, and returns after exactly these.                  *)
(***************************************************************************)
EXTENDS Integers

CONSTANTS
  Thread,       \* the processes that call down and up
  Sem,          \* the semaphores
  InitialValue, \* the value sem_init gives each
  NoSem         \* not a semaphore

VARIABLES
  credit,       \* first value + calls of up() - calls of down()
  on,           \* the semaphore whose down() the thread is asleep in, or NoSem
  need          \* the calls of up() that down() still needs

Down(p, s) ==
  /\ on[p] = NoSem
  /\ credit' = [credit EXCEPT ![s] = @ - 1]
  /\ IF credit[s] > 0
     THEN UNCHANGED <<on, need>>
     ELSE on' = [on EXCEPT ![p] = s] /\ need' = [need EXCEPT ![p] = 1 - credit[s]]

TryDown(s) ==
  /\ credit[s] > 0
  /\ credit' = [credit EXCEPT ![s] = @ - 1]
  /\ UNCHANGED <<on, need>>

Up(s) ==
  /\ credit' = [credit EXCEPT ![s] = @ + 1]
  /\ need' = [p \in Thread |-> IF on[p] = s /\ need[p] > 0 THEN need[p] - 1 ELSE need[p]]
  /\ UNCHANGED on

Return(p) ==
  /\ on[p] # NoSem /\ need[p] = 0
  /\ on' = [on EXCEPT ![p] = NoSem]
  /\ UNCHANGED <<credit, need>>

Init ==
  /\ credit = InitialValue
  /\ on = [p \in Thread |-> NoSem]
  /\ need = [p \in Thread |-> 0]

Next ==
  \/ \E p \in Thread : Return(p) \/ \E s \in Sem : Down(p, s)
  \/ \E s \in Sem : TryDown(s) \/ Up(s)

Spec == Init /\ [][Next]_<<credit, on, need>>

=============================================================================
