---------------------------- MODULE MCSemaphore ----------------------------
EXTENDS Semaphore, TLC

CONSTANTS
  Mutex, Slots  \* a semaphore used as a lock and one that counts

MCInitialValue == (Mutex :> 1) @@ (Slots :> 0)

MCSem == {Mutex, Slots}

Sym == Permutations(Thread)
=============================================================================
