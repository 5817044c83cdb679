--------------------------- MODULE OpenFilesProofs ---------------------------
(***************************************************************************)
(* The keyboard, the assertions on open files and the counts of the        *)
(* inodes, for any number of processes, descriptors and characters.        *)
(***************************************************************************)
EXTENDS OpenFiles, FiniteSetTheorems, WellFoundedInduction, TLAPS

States == {"none", "ready", "asleep", "woken", "leaving", "zombie"}
Slot == [status : {"none", "opened", "closed"}, node : Node \union {"none"}, count : Nat]
Calling == {r \in [fd : Fd, want : Nat, got : Nat] : r.got <= r.want}

TypeOK ==
  /\ state \in [Proc -> States]
  /\ fds \in [Proc -> [Fd -> Slot]]
  /\ ref \in [Node -> Int] /\ opens \in [Node -> Int]
  /\ killed \in [Proc -> BOOLEAN]
  /\ queue \in SUBSET Proc
  /\ flag \in [Proc -> {"none", "interrupted", "key"}]
  /\ reading \in [Proc -> Calling]
  /\ ring \in [0 .. BUFSIZE - 1 -> Nat]
  /\ rpos \in Nat /\ wpos \in Nat /\ typed \in Nat
  /\ lost \in [Node -> [refs : Int, opens : Int]]

Reading(p) == state[p] \in {"asleep", "woken"}

\* Who is in the queue of stdin is in a read, and the buffer is empty for who sleeps.
KeyOK ==
  /\ NoKeyMissed
  /\ \A p \in queue : Reading(p)

\* The buffer, and its last character the last one typed while none was lost.
RingOK == KeysInOrder /\ (~overrun => wpos = typed)

\* A file is counted once, and once more while its process is in a read of it.
Clean(f) == f = Unused \/ (f.status = "opened" /\ f.count = 1)
Busy(f) == f.status = "opened" /\ f.node = "stdin" /\ f.count = 2
TableOK ==
  \A p \in Proc, d \in Fd :
    IF Reading(p) /\ d = reading[p].fd THEN Busy(fds[p][d]) ELSE Clean(fds[p][d])

\* What refers to an inode and does not have it open: the kernel, and the working
\* directories.
Users == {p \in Proc : Alive(p)}
SpareOK ==
  /\ panic \in {"none", "vop_create", "vop_truncate", "vop_read", "vop_tryseek"}
  /\ \A n \in Node : ref[n] - opens[n] >= Cwd(n) * Cardinality(Users)

IInv == TypeOK /\ KeyOK /\ RingOK /\ TableOK /\ SpareOK

-----------------------------------------------------------------------------
\* Two places of the ring less than its length apart are different.
LEMMA ModApart ==
  ASSUME NEW B \in Nat \ {0}, NEW a \in Nat, NEW b \in Nat, a < b, b - a < B
  PROVE  a % B # b % B
<1> DEFINE q == a \div B
           s == b \div B
<1>1. /\ q \in Int /\ s \in Int
      /\ a = B * q + (a % B) /\ b = B * s + (b % B)
      /\ a % B \in 0 .. B - 1 /\ b % B \in 0 .. B - 1
  <2>1. q \in Int /\ s \in Int
    OBVIOUS
  <2>2. a % B \in 0 .. B - 1
    OBVIOUS
  <2>3. b % B \in 0 .. B - 1
    OBVIOUS
  <2>4. a = B * q + (a % B)
    OBVIOUS
  <2>5. b = B * s + (b % B)
    OBVIOUS
  <2> QED
    BY <2>1, <2>2, <2>3, <2>4, <2>5
<1> HIDE DEF q, s
<1> SUFFICES ASSUME a % B = b % B PROVE FALSE
  OBVIOUS
<1>2. b - a = B * s - B * q
  BY <1>1
<1>3. B * s - B * q = B * (s - q)
  BY <1>1
<1>4. CASE s - q <= 0
  <2>1. B * (s - q) <= 0
    BY <1>1, <1>4
  <2> QED
    BY <1>2, <1>3, <2>1
<1>5. CASE s - q >= 1
  <2>1. B * (s - q) >= B
    BY <1>1, <1>5
  <2> QED
    BY <1>2, <1>3, <2>1
<1> QED
  BY <1>1, <1>4, <1>5

\* Descriptors and processes are finite sets, and so are their parts.
LEMMA Counting ==
  /\ \A T \in SUBSET Fd : Cardinality(T) \in Nat
  /\ \A U \in SUBSET Proc : IsFiniteSet(U) /\ Cardinality(U) \in Nat
<1>1. NFD \in Nat \ {0} /\ IsFiniteSet(Proc)
  BY FilesAssumption
<1>2. IsFiniteSet(Fd)
  BY <1>1, FS_Interval DEF Fd
<1> QED
  BY <1>1, <1>2, FS_Subset, FS_CardinalityType

\* One process more has a file table, or one less.
LEMMA UsersChange ==
  ASSUME NEW A \in SUBSET Proc, NEW p \in Proc
  PROVE  /\ Cardinality(A \union {p}) <= Cardinality(A) + 1
         /\ p \in A => Cardinality(A \ {p}) = Cardinality(A) - 1
         /\ Cardinality(A \ {p}) <= Cardinality(A)
<1>1. IsFiniteSet(A) /\ Cardinality(A) \in Nat
  BY Counting
<1>2. Cardinality(A \union {p}) = IF p \in A THEN Cardinality(A) ELSE Cardinality(A) + 1
  BY <1>1, FS_AddElement
<1>3. Cardinality(A \ {p}) = IF p \in A THEN Cardinality(A) - 1 ELSE Cardinality(A)
  BY <1>1, FS_RemoveElement
<1> QED
  BY <1>1, <1>2, <1>3

\* What a process finds on the first look at its table.
LEMMA Tables ==
  /\ EmptyTable \in [Fd -> Slot] /\ Unused \in Slot /\ Clean(Unused)
  /\ \A n \in Node : Opened(n) \in Slot /\ Clean(Opened(n))
  /\ \A d \in Fd : EmptyTable[d] = Unused
  BY DEF EmptyTable, Unused, Opened, Slot, Clean

\* user_main starts with an empty table and the root for its directory.
LEMMA StartInv == Start => IInv
<1> SUFFICES ASSUME Start PROVE IInv
  OBVIOUS
<1>1. PICK p \in Proc : state = [q \in Proc |-> IF q = p THEN "ready" ELSE "none"]
  BY DEF Start
<1>2. Users = {p}
  BY <1>1 DEF Users, Alive
<1>3. Cardinality(Users) = 1
  BY <1>2, FS_Singleton
<1>4. TypeOK
  <2>1. BUFSIZE \in Nat \ {0} /\ 0 \in Fd
    BY FilesAssumption DEF Fd
  <2>2. NotReading \in Calling
    BY <2>1 DEF NotReading, Calling
  <2>3. ref \in [Node -> Int] /\ opens \in [Node -> Int] /\ lost \in [Node -> [refs : Int, opens : Int]]
    BY DEF Start, Base, Cwd, NoLoss
  <2>4. state \in [Proc -> States]
    BY <1>1 DEF States
  <2> QED
    BY <2>1, <2>2, <2>3, <2>4, Tables DEF Start, TypeOK
<1>5. \A q \in Proc : ~Reading(q)
  BY <1>1 DEF Reading
<1>6. KeyOK
  BY <1>1 DEF Start, KeyOK, NoKeyMissed
<1>7. RingOK
  BY FilesAssumption DEF Start, RingOK, KeysInOrder
<1>8. TableOK
  BY <1>5, Tables DEF Start, TableOK
<1>9. SpareOK
  BY <1>3 DEF Start, SpareOK, Base, Cwd, Node
<1> QED
  BY <1>4, <1>6, <1>7, <1>8, <1>9 DEF IInv

-----------------------------------------------------------------------------
\* A step that leaves stdin alone, puts nobody to sleep and ends no read.
LEMMA KeysKept ==
  ASSUME KeyOK, RingOK, UNCHANGED <<queue, ring, rpos, wpos, typed, overrun>>, TypeOK,
         \A p \in Proc : /\ state'[p] = "asleep" => state[p] = "asleep"
                         /\ Reading(p) => Reading(p)'
  PROVE  KeyOK' /\ RingOK'
  BY DEF KeyOK, RingOK, NoKeyMissed, KeysInOrder, TypeOK

\* A step after which each table is as before, or that of a process not in a read.
LEMMA TablesKept ==
  ASSUME TableOK,
         \A q \in Proc : \/ fds'[q] = fds[q] /\ reading' = reading /\ (Reading(q)' <=> Reading(q))
                         \/ ~Reading(q)' /\ \A d \in Fd : Clean(fds'[q][d])
  PROVE  TableOK'
  BY DEF TableOK, Clean, Busy, Unused

\* Opens and closes count in both counts; k more working directories go to at most
\* k more processes.
LEMMA Recounted ==
  ASSUME TypeOK, SpareOK, panic' = panic,
         NEW closed \in [Node -> Int], NEW opened \in [Node -> Int], NEW k \in Int,
         Recount(closed, opened, k),
         Cardinality(Users)' \in Nat, Cardinality(Users)' <= Cardinality(Users) + k
  PROVE  SpareOK' /\ ref' \in [Node -> Int] /\ opens' \in [Node -> Int]
<1>1. \A n \in Node : Cwd(n) \in {0, 1}
  BY DEF Cwd
<1> DEFINE e(n) == k * Cwd(n)
<1>5. \A n \in Node : e(n) = IF Cwd(n) = 1 THEN k ELSE 0
  <2> SUFFICES ASSUME NEW n \in Node PROVE e(n) = IF Cwd(n) = 1 THEN k ELSE 0
    OBVIOUS
  <2>1. CASE Cwd(n) = 0
    BY <2>1
  <2>2. CASE Cwd(n) = 1
    BY <2>2
  <2> QED
    BY <1>1, <2>1, <2>2
<1>6. /\ ref' = [n \in Node |-> ref[n] - closed[n] + opened[n] + e(n)]
      /\ opens' = [n \in Node |-> opens[n] - closed[n] + opened[n]]
  BY DEF Recount
<1> HIDE DEF e
<1>2. ref' \in [Node -> Int] /\ opens' \in [Node -> Int]
  <2>1. \A n \in Node : /\ ref[n] \in Int /\ opens[n] \in Int
                        /\ closed[n] \in Int /\ opened[n] \in Int /\ e(n) \in Int
    BY <1>5 DEF TypeOK
  <2>2. \A n \in Node : ref[n] - closed[n] + opened[n] + e(n) \in Int
    BY <2>1
  <2> QED
    BY <1>6, <2>1, <2>2
<1>3. Cardinality(Users) \in Nat
  BY Counting DEF Users
<1>4. ASSUME NEW n \in Node
      PROVE  ref'[n] - opens'[n] >= Cwd(n) * Cardinality(Users)'
  <2>1. ref'[n] - opens'[n] = ref[n] - opens[n] + IF Cwd(n) = 1 THEN k ELSE 0
    BY <1>5, <1>6 DEF TypeOK
  <2>2. ref[n] - opens[n] >= Cwd(n) * Cardinality(Users)
    BY DEF SpareOK
  <2>3. ref[n] \in Int /\ opens[n] \in Int /\ ref'[n] \in Int /\ opens'[n] \in Int
    BY <1>2 DEF TypeOK
  <2>4. CASE Cwd(n) = 0
    BY <1>3, <2>1, <2>2, <2>3, <2>4
  <2>5. CASE Cwd(n) = 1
    BY <1>3, <2>1, <2>2, <2>3, <2>5
  <2> QED
    BY <1>1, <2>4, <2>5
<1> QED
  BY <1>2, <1>4 DEF SpareOK, Cwd

-----------------------------------------------------------------------------
\* A call that returns: the process stays, in no read, and nobody else moves.
LEMMA Returned ==
  ASSUME TypeOK, NEW p \in Proc, Calls(p), Returns(p)
  PROVE  /\ state' \in [Proc -> States] /\ Users' = Users
         /\ ~Reading(p) /\ ~Reading(p)'
         /\ \A q \in Proc : /\ Reading(q)' <=> Reading(q)
                            /\ state'[q] = "asleep" => state[q] = "asleep"
<1>1. state[p] = "ready" /\ state' \in [Proc -> States]
      /\ state'[p] \in {"ready", "leaving"} /\ \A q \in Proc \ {p} : state'[q] = state[q]
  BY DEF Calls, Returns, TypeOK, States
<1> QED
  BY <1>1 DEF Users, Alive, Reading

\* open, close, dup and exec change the table of the caller and count what they did.
LEMMA CallKeeps ==
  ASSUME IInv, NEW p \in Proc, Calls(p), Returns(p),
         NEW T \in [Fd -> Slot], \A d \in Fd : Clean(T[d]), fds' = [fds EXCEPT ![p] = T],
         NEW closed \in [Node -> Int], NEW opened \in [Node -> Int], Recount(closed, opened, 0),
         UNCHANGED <<killed, stdin, history, panic>>
  PROVE  IInv'
<1>1. TypeOK /\ KeyOK /\ RingOK /\ TableOK /\ SpareOK
  BY DEF IInv
<1>2. /\ state' \in [Proc -> States] /\ Users' = Users
      /\ ~Reading(p) /\ ~Reading(p)'
      /\ \A q \in Proc : /\ Reading(q)' <=> Reading(q)
                         /\ state'[q] = "asleep" => state[q] = "asleep"
  BY <1>1, Returned
<1>3. Cardinality(Users)' = Cardinality(Users) /\ Cardinality(Users) \in Nat
  BY <1>2, Counting DEF Users
<1>4. SpareOK' /\ ref' \in [Node -> Int] /\ opens' \in [Node -> Int]
  BY <1>1, <1>3, Recounted
<1>5. KeyOK' /\ RingOK'
  BY <1>1, <1>2, KeysKept DEF stdin, history
<1>6. /\ fds' \in [Proc -> [Fd -> Slot]] /\ fds'[p] = T
      /\ \A q \in Proc \ {p} : fds'[q] = fds[q]
  BY <1>1 DEF TypeOK
<1>7. TableOK'
  BY <1>1, <1>2, <1>6, TablesKept DEF stdin
<1>8. TypeOK'
  BY <1>1, <1>2, <1>4, <1>6 DEF TypeOK, stdin, history
<1> QED
  BY <1>4, <1>5, <1>7, <1>8 DEF IInv

\* An inode without the operation stops the kernel before anything has changed.
LEMMA PanicKeeps ==
  ASSUME IInv, NEW why \in {"vop_create", "vop_truncate", "vop_read", "vop_tryseek"}, Panics(why)
  PROVE  IInv'
<1>1. UNCHANGED <<state, files, killed, stdin, history>> /\ panic' = why
  BY DEF Panics
<1>2. TypeOK' /\ KeyOK' /\ RingOK' /\ TableOK'
  BY <1>1 DEF IInv, TypeOK, KeyOK, RingOK, TableOK, NoKeyMissed, KeysInOrder, Reading, Clean, Busy, Unused,
     files, stdin, history
<1>3. SpareOK'
  BY <1>1 DEF IInv, SpareOK, Users, Alive, Cwd, files
<1> QED
  BY <1>2, <1>3 DEF IInv

\* Who makes a call has clean descriptors, and so has what is left after some closed.
LEMMA Own ==
  ASSUME IInv, NEW p \in Proc, ~Reading(p)
  PROVE  /\ fds[p] \in [Fd -> Slot] /\ \A d \in Fd : Clean(fds[p][d])
         /\ \A d \in Fd : Closed(fds[p][d]) = Unused \/ ~IsOpen(p, d)
         /\ \A d \in Fd : IsOpen(p, d) => fds[p][d].node \in Node \union {"none"}
<1>1. fds[p] \in [Fd -> Slot] /\ \A d \in Fd : Clean(fds[p][d])
  BY DEF IInv, TypeOK, TableOK
<1>2. ASSUME NEW d \in Fd
      PROVE  /\ Closed(fds[p][d]) = Unused \/ ~IsOpen(p, d)
             /\ IsOpen(p, d) => fds[p][d].node \in Node \union {"none"}
  <2> DEFINE f == fds[p][d]
  <2>1. f \in Slot /\ Clean(f)
    BY <1>1
  <2> HIDE DEF f
  <2>2. f.node \in Node \union {"none"}
    BY <2>1 DEF Slot
  <2>3. f.status = "opened" => f.count = 1
    BY <2>1 DEF Clean, Unused
  <2>4. f.status = "opened" => Closed(f) = Unused
    BY <2>3 DEF Closed
  <2> QED
    BY <2>2, <2>4 DEF IsOpen, f
<1> QED
  BY <1>1, <1>2

\* What is counted by inode is a number.
LEMMA Numbers ==
  /\ Zero \in [Node -> Int] /\ \A n : One(n) \in [Node -> Int]
  /\ \A p \in Proc : ClosedAll(p) \in [Node -> Int] /\ [n \in Node |-> Holds(p, n)] \in [Node -> Int]
<1>1. Zero \in [Node -> Int] /\ \A n : One(n) \in [Node -> Int]
  BY DEF Zero, One
<1>2. ASSUME NEW p \in Proc
      PROVE  ClosedAll(p) \in [Node -> Int] /\ [n \in Node |-> Holds(p, n)] \in [Node -> Int]
  <2>1. ASSUME NEW n \in Node
        PROVE  /\ Cardinality({d \in AboveTwo(p) : fds[p][d].node = n}) \in Int
               /\ Holds(p, n) \in Int
    <3>1. AboveTwo(p) \in SUBSET Fd
      BY DEF AboveTwo
    <3>2. {d \in AboveTwo(p) : fds[p][d].node = n} \in SUBSET Fd
      BY <3>1
    <3>3. {d \in Fd : fds[p][d].status # "none" /\ fds[p][d].node = n} \in SUBSET Fd
      OBVIOUS
    <3> QED
      BY <3>2, <3>3, Counting DEF Holds
  <2> QED
    BY <2>1 DEF ClosedAll
<1> QED
  BY <1>1, <1>2

\* vfs_open: what is opened gets the lowest slot, and a reference is lost for O_EXCL.
LEMMA OpenInv ==
  ASSUME IInv, NEW p \in Proc, NEW target \in Node \union {"missing"}, NEW fl \in Flags, Open(p, target, fl)
  PROVE  IInv'
<1>1. Calls(p) /\ Free(p) # {} /\ ~Reading(p)
  BY DEF Open, Calls, Reading
<1>2. CASE VfsOpen(target, fl) = "opened"
  <2>1. target \in Node
    BY <1>2 DEF VfsOpen
  <2> DEFINE d == Lowest(Free(p))
             T == [fds[p] EXCEPT ![d] = Opened(target)]
  <2>2. /\ fds' = [fds EXCEPT ![p][d] = Opened(target)]
        /\ Recount(Zero, One(target), 0) /\ Returns(p)
        /\ UNCHANGED <<killed, stdin, history, panic>>
    BY <1>2 DEF Open
  <2>3. fds' = [fds EXCEPT ![p] = T]
    BY <2>2
  <2>4. T \in [Fd -> Slot] /\ \A e \in Fd : Clean(T[e])
    BY <1>1, <2>1, Own, Tables
  <2> HIDE DEF T, d
  <2> QED
    BY <1>1, <2>2, <2>3, <2>4, Numbers, CallKeeps
<1>3. CASE VfsOpen(target, fl) = "exists"
  <2>1. target \in Node
    BY <1>3 DEF VfsOpen
  <2>2. /\ ref' = [ref EXCEPT ![target] = @ + 1] /\ Loses(One(target), Zero) /\ UNCHANGED opens
        /\ Returns(p) /\ UNCHANGED <<fds, killed, stdin, typed, overrun, panic>>
    BY <1>3 DEF Open, Exists
  <2>3. TypeOK /\ KeyOK /\ RingOK /\ TableOK /\ SpareOK
    BY DEF IInv
  <2>4. /\ state' \in [Proc -> States] /\ Users' = Users
        /\ \A q \in Proc : /\ Reading(q)' <=> Reading(q)
                           /\ state'[q] = "asleep" => state[q] = "asleep"
    BY <1>1, <2>2, <2>3, Returned
  <2>5. KeyOK' /\ RingOK'
    BY <2>2, <2>3, <2>4, KeysKept DEF stdin
  <2>6. TableOK'
    BY <2>2, <2>3, <2>4, TablesKept DEF stdin
  <2>7. Cardinality(Users)' = Cardinality(Users) /\ Cardinality(Users) \in Nat
    BY <2>4, Counting DEF Users
  <2>8. SpareOK'
    <3>1. ASSUME NEW n \in Node PROVE ref'[n] - opens'[n] >= Cwd(n) * Cardinality(Users)'
      <4>1. ref'[n] >= ref[n] /\ opens'[n] = opens[n] /\ ref'[n] \in Int /\ ref[n] \in Int /\ opens[n] \in Int
        BY <2>1, <2>2, <2>3 DEF TypeOK
      <4>2. ref[n] - opens[n] >= Cwd(n) * Cardinality(Users)'
        BY <2>3, <2>7 DEF SpareOK
      <4>3. Cwd(n) * Cardinality(Users)' \in Int
        BY <2>7 DEF Cwd
      <4> QED
        BY <4>1, <4>2, <4>3
    <3> QED
      BY <2>2, <2>3, <3>1 DEF SpareOK, Cwd
  <2>9. lost' \in [Node -> [refs : Int, opens : Int]]
    BY <2>2, <2>3, Numbers DEF Loses, TypeOK
  <2>10. TypeOK'
    BY <2>1, <2>2, <2>3, <2>4, <2>9 DEF TypeOK, stdin
  <2> QED
    BY <2>5, <2>6, <2>8, <2>10 DEF IInv
<1>4. CASE VfsOpen(target, fl) \in {"vop_create", "vop_truncate"}
  <2>1. Panics(VfsOpen(target, fl))
    BY <1>4 DEF Open
  <2> QED
    BY <1>4, <2>1, PanicKeeps
<1> QED
  BY <1>2, <1>3, <1>4 DEF Open

\* close, dup, and the calls a directory has not.
LEMMA TableCallsInv ==
  ASSUME IInv, NEW p \in Proc, NEW d \in Fd, NEW e \in Fd, Close(p, d) \/ Dup(p, d, e) \/ ReadDirectory(p, d)
  PROVE  IInv'
<1>1. Calls(p) /\ IsOpen(p, d) /\ ~Reading(p)
  BY DEF Close, Dup, ReadDirectory, Calls, Reading
<1>2. fds[p] \in [Fd -> Slot] /\ \A c \in Fd : Clean(fds[p][c])
  BY <1>1, Own
<1>3. CASE Close(p, d)
  <2> DEFINE T == [c \in Fd |-> IF c \in {d} THEN Closed(fds[p][c]) ELSE fds[p][c]]
             closed == [n \in Node |-> Cardinality({c \in {d} : fds[p][c].node = n /\ fds[p][c].count = 1})]
  <2>1. fds' = [fds EXCEPT ![p] = T] /\ Recount(closed, Zero, 0) /\ Returns(p)
        /\ UNCHANGED <<killed, stdin, history, panic>>
    BY <1>3 DEF Close, CloseSet
  <2>2. T \in [Fd -> Slot] /\ \A c \in Fd : Clean(T[c])
    BY <1>1, <1>2, Own, Tables
  <2>3. closed \in [Node -> Int]
    <3>1. \A n \in Node : {c \in {d} : fds[p][c].node = n /\ fds[p][c].count = 1} \in SUBSET Fd
      OBVIOUS
    <3> QED
      BY <3>1, Counting
  <2> HIDE DEF T, closed
  <2> QED
    BY <1>1, <2>1, <2>2, <2>3, Numbers, CallKeeps
<1>4. CASE Dup(p, d, e)
  <2> DEFINE n == fds[p][d].node
             T == [fds[p] EXCEPT ![e] = Opened(n)]
  <2>1. fds' = [fds EXCEPT ![p][e] = Opened(n)] /\ Recount(Zero, One(n), 0) /\ Returns(p)
        /\ UNCHANGED <<killed, stdin, history, panic>>
    BY <1>4 DEF Dup
  <2>2. fds' = [fds EXCEPT ![p] = T]
    BY <2>1
  <2>3. T \in [Fd -> Slot] /\ \A c \in Fd : Clean(T[c])
    BY <1>2 DEF Opened, Slot, Clean
  <2> HIDE DEF T
  <2> QED
    BY <1>1, <2>1, <2>2, <2>3, Numbers, CallKeeps
<1>5. CASE ReadDirectory(p, d)
  BY <1>5, PanicKeeps DEF ReadDirectory
<1> QED
  BY <1>3, <1>4, <1>5

\* What exec leaves open are the standard files, and the fd of the program is added.
LEMMA ExecInv == ASSUME IInv, NEW p \in Proc, Exec(p) PROVE IInv'
<1>1. Calls(p) /\ ~Reading(p) /\ Slots(p) # {}
  BY DEF Exec, Calls, Reading
<1> DEFINE d == Lowest(Slots(p))
           T == [Kept(p) EXCEPT ![d] = Opened("file")]
<1>2. fds' = [fds EXCEPT ![p] = T] /\ Recount(ClosedAll(p), One("file"), 0) /\ Returns(p)
      /\ UNCHANGED <<killed, stdin, history, panic>>
  BY DEF Exec
<1>3. Kept(p) \in [Fd -> Slot] /\ \A c \in Fd : Clean(Kept(p)[c])
  BY <1>1, Own, Tables DEF Kept
<1>4. T \in [Fd -> Slot] /\ \A c \in Fd : Clean(T[c])
  BY <1>3, Tables DEF Node
<1> HIDE DEF T, d
<1> QED
  BY <1>1, <1>2, <1>4, Numbers, CallKeeps

\* A process that ends: its table is empty, and it was in no read.
LEMMA EndKeeps ==
  ASSUME IInv, NEW p \in Proc, Alive(p), ~Reading(p),
         state' = [state EXCEPT ![p] = "zombie"], fds' = [fds EXCEPT ![p] = EmptyTable],
         UNCHANGED <<killed, stdin, typed, overrun>>
  PROVE  /\ KeyOK' /\ RingOK' /\ TableOK'
         /\ state' \in [Proc -> States] /\ fds' \in [Proc -> [Fd -> Slot]]
         /\ Cardinality(Users)' = Cardinality(Users) - 1 /\ Cardinality(Users)' \in Nat
         /\ Cardinality(Users) \in Nat
<1>1. TypeOK /\ KeyOK /\ RingOK /\ TableOK
  BY DEF IInv
<1>2. state' \in [Proc -> States] /\ fds' \in [Proc -> [Fd -> Slot]]
  BY <1>1, Tables DEF TypeOK, States
<1>3. ~Reading(p)' /\ \A q \in Proc \ {p} : state'[q] = state[q]
  BY <1>1 DEF TypeOK, Reading
<1>4. KeyOK' /\ RingOK'
  BY <1>1, <1>3, KeysKept DEF stdin, Reading
<1>5. \A d \in Fd : Clean(fds'[p][d])
  BY <1>1, Tables DEF TypeOK
<1>6. TableOK'
  BY <1>1, <1>3, <1>5, TablesKept DEF stdin, TypeOK, Reading
<1>7. Users' = Users \ {p} /\ p \in Users
  BY <1>1, <1>3 DEF Users, Alive, TypeOK
<1>8. Cardinality(Users \ {p}) = Cardinality(Users) - 1
  BY <1>7, UsersChange DEF Users
<1>9. Users \ {p} \in SUBSET Proc /\ Users \in SUBSET Proc
  BY DEF Users
<1> QED
  BY <1>2, <1>4, <1>6, <1>7, <1>8, <1>9, Counting

\* exit: no descriptor is in use by a call, since its process would be in that call.
LEMMA ExitInv == ASSUME IInv, NEW p \in Proc, Exit(p) PROVE IInv'
<1>1. TypeOK /\ SpareOK /\ ~Reading(p) /\ Alive(p)
  BY DEF Exit, IInv, Reading, Alive
<1>2. \A d \in Fd : fds[p][d].status # "closed" /\ ~(fds[p][d].count > 1)
  BY <1>1, Own DEF Clean, Unused
<1>3. /\ state' = [state EXCEPT ![p] = "zombie"] /\ fds' = [fds EXCEPT ![p] = EmptyTable]
      /\ Recount([n \in Node |-> Holds(p, n)], Zero, -1)
      /\ UNCHANGED <<killed, stdin, history, panic>>
  BY <1>2 DEF Exit
<1>4. /\ KeyOK' /\ RingOK' /\ TableOK'
      /\ state' \in [Proc -> States] /\ fds' \in [Proc -> [Fd -> Slot]]
      /\ Cardinality(Users)' = Cardinality(Users) - 1 /\ Cardinality(Users)' \in Nat
      /\ Cardinality(Users) \in Nat
  BY <1>1, <1>3, EndKeeps DEF history
<1> DEFINE closed == [n \in Node |-> Holds(p, n)]
<1>5. closed \in [Node -> Int]
  BY Numbers
<1>6. Recount(closed, Zero, -1)
  BY <1>3
<1> HIDE DEF closed
<1>7. Cardinality(Users)' <= Cardinality(Users) + (-1) /\ panic' = panic /\ -1 \in Int
  BY <1>3, <1>4
<1>8. SpareOK' /\ ref' \in [Node -> Int] /\ opens' \in [Node -> Int]
  BY <1>1, <1>4, <1>5, <1>6, <1>7, Numbers, Recounted
<1>9. TypeOK'
  BY <1>1, <1>3, <1>4, <1>8 DEF TypeOK, stdin, history
<1> QED
  BY <1>4, <1>8, <1>9 DEF IInv

\* exec of what load_icode refuses: the process is gone and its references are not.
LEMMA ExecLoadsNothingInv ==
  ASSUME IInv, NEW p \in Proc, NEW target \in {"file", "stdin"}, ExecLoadsNothing(p, target)
  PROVE  IInv'
<1>1. TypeOK /\ SpareOK /\ ~Reading(p) /\ Alive(p)
  BY DEF ExecLoadsNothing, Calls, IInv, Reading, Alive
<1> DEFINE left(n) == Cardinality({d \in Fd : Kept(p)[d].status # "none" /\ Kept(p)[d].node = n}) + One(target)[n]
           refs == [n \in Node |-> left(n) + Cwd(n)]
           opened == [n \in Node |-> left(n)]
<1>2. /\ state' = [state EXCEPT ![p] = "zombie"] /\ fds' = [fds EXCEPT ![p] = EmptyTable]
      /\ Recount(ClosedAll(p), One(target), 0)
      /\ Loses(refs, opened)
      /\ UNCHANGED <<killed, stdin, typed, overrun, panic>>
  BY DEF ExecLoadsNothing
<1>3. /\ KeyOK' /\ RingOK' /\ TableOK'
      /\ state' \in [Proc -> States] /\ fds' \in [Proc -> [Fd -> Slot]]
      /\ Cardinality(Users)' = Cardinality(Users) - 1 /\ Cardinality(Users)' \in Nat
      /\ Cardinality(Users) \in Nat
  BY <1>1, <1>2, EndKeeps
<1>4. \A n \in Node : refs[n] \in Int /\ opened[n] \in Int
  <2>1. \A n \in Node : {d \in Fd : Kept(p)[d].status # "none" /\ Kept(p)[d].node = n} \in SUBSET Fd
    OBVIOUS
  <2>2. \A n \in Node : One(target)[n] \in Int /\ Cwd(n) \in Int
    BY DEF One, Cwd
  <2> QED
    BY <2>1, <2>2, Counting
<1> HIDE DEF refs, opened
<1>5. Cardinality(Users)' <= Cardinality(Users) + 0
  BY <1>3
<1>6. SpareOK' /\ ref' \in [Node -> Int] /\ opens' \in [Node -> Int]
  BY <1>1, <1>2, <1>3, <1>5, Numbers, Recounted
<1>7. lost' \in [Node -> [refs : Int, opens : Int]]
  BY <1>1, <1>2, <1>4 DEF Loses, TypeOK
<1>8. TypeOK'
  BY <1>1, <1>2, <1>3, <1>6, <1>7 DEF TypeOK, stdin
<1> QED
  BY <1>3, <1>6, <1>8 DEF IInv

\* A step that leaves the counts alone and the number of tables.
LEMMA SpareKept == ASSUME SpareOK, UNCHANGED <<ref, opens, panic>>, Users' = Users PROVE SpareOK'
  BY DEF SpareOK, Cwd

\* fork: the child's files are opened once more, and it is in no read.
LEMMA ForkInv == ASSUME IInv, NEW p \in Proc, NEW q \in Proc, Fork(p, q) PROVE IInv'
<1>1. TypeOK /\ KeyOK /\ RingOK /\ TableOK /\ SpareOK
  BY DEF IInv
<1> DEFINE T == [d \in Fd |-> IF IsOpen(p, d) THEN Opened(fds[p][d].node) ELSE Unused]
           opened == [n \in Node |-> Holds(p, n)]
<1>2. /\ state[p] = "ready" /\ state[q] = "none"
      /\ state' = [state EXCEPT ![q] = "ready", ![p] = IF killed[p] THEN "leaving" ELSE "ready"]
      /\ fds' = [fds EXCEPT ![q] = T] /\ Recount(Zero, opened, 1)
      /\ UNCHANGED <<killed, stdin, history, panic>>
  BY DEF Fork, Calls
<1>3. T \in [Fd -> Slot] /\ \A d \in Fd : Clean(T[d])
  <2>1. ~Reading(p)
    BY <1>2 DEF Reading
  <2> QED
    BY <2>1, Own, Tables DEF Opened, Slot, Clean
<1>4. opened \in [Node -> Int]
  BY Numbers
<1> HIDE DEF T, opened
<1>5. /\ state' \in [Proc -> States] /\ state'[q] = "ready" /\ state'[p] \in {"ready", "leaving"}
      /\ \A r \in Proc \ {p, q} : state'[r] = state[r]
  BY <1>1, <1>2 DEF TypeOK, States
<1>6. Users' = Users \union {q}
  BY <1>2, <1>5 DEF Users, Alive
<1>7. Cardinality(Users)' \in Nat /\ Cardinality(Users)' <= Cardinality(Users) + 1
  BY <1>6, UsersChange, Counting DEF Users
<1>8. SpareOK' /\ ref' \in [Node -> Int] /\ opens' \in [Node -> Int]
  BY <1>1, <1>2, <1>4, <1>7, Numbers, Recounted
<1>9. fds' \in [Proc -> [Fd -> Slot]] /\ fds'[q] = T /\ \A r \in Proc \ {q} : fds'[r] = fds[r]
  BY <1>1, <1>2, <1>3 DEF TypeOK
<1>10. TypeOK'
  BY <1>1, <1>2, <1>5, <1>8, <1>9 DEF TypeOK, stdin, history
<1>11. \A r \in Proc : /\ Reading(r)' <=> Reading(r)
                       /\ state'[r] = "asleep" => state[r] = "asleep"
  BY <1>2, <1>5 DEF Reading
<1>12. KeyOK' /\ RingOK'
  BY <1>1, <1>2, <1>11, KeysKept DEF stdin, history
<1>13. TableOK'
  <2>1. ~Reading(q)'
    BY <1>5 DEF Reading
  <2> QED
    BY <1>1, <1>2, <1>3, <1>9, <1>11, <2>1, TablesKept DEF stdin
<1> QED
  BY <1>8, <1>10, <1>12, <1>13 DEF IInv

\* wait and kill touch no file: a killed reader is woken where it is.
LEMMA ProcessInv == ASSUME IInv, NEW p \in Proc, NEW q \in Proc, Reap(p) \/ Kill(p, q) PROVE IInv'
<1>1. TypeOK /\ KeyOK /\ RingOK /\ TableOK /\ SpareOK
  BY DEF IInv
<1>2. UNCHANGED <<files, stdin, history, panic>>
  BY DEF Reap, Kill
<1>3. /\ state' \in [Proc -> States] /\ killed' \in [Proc -> BOOLEAN]
      /\ \A r \in Proc : /\ Reading(r)' <=> Reading(r)
                         /\ Alive(r)' <=> Alive(r)
                         /\ state'[r] = "asleep" => state[r] = "asleep"
  <2>1. CASE Reap(p)
    BY <1>1, <2>1 DEF Reap, TypeOK, States, Reading, Alive
  <2>2. CASE Kill(p, q)
    <3>1. /\ state[p] = "ready" /\ killed' = [killed EXCEPT ![q] = TRUE]
          /\ state' = [state EXCEPT ![q] = IF @ = "asleep" THEN "woken" ELSE @,
                                    ![p] = IF killed'[p] THEN "leaving" ELSE "ready"]
      BY <2>2 DEF Kill, Calls
    <3>2. state'[p] \in {"ready", "leaving"} /\ state' \in [Proc -> States]
      BY <1>1, <3>1 DEF TypeOK, States
    <3>3. \A r \in Proc \ {p} : state'[r] = IF r = q /\ state[r] = "asleep" THEN "woken" ELSE state[r]
      BY <1>1, <3>1 DEF TypeOK
    <3> QED
      BY <1>1, <3>1, <3>2, <3>3 DEF TypeOK, Reading, Alive
  <2> QED
    BY <2>1, <2>2
<1>4. TypeOK'
  BY <1>1, <1>2, <1>3 DEF TypeOK, files, stdin, history
<1>5. KeyOK' /\ RingOK'
  BY <1>1, <1>2, <1>3, KeysKept DEF stdin, history
<1>6. TableOK'
  BY <1>1, <1>2, <1>3, TablesKept DEF files, stdin
<1>7. Users' = Users
  BY <1>3 DEF Users
<1>8. SpareOK'
  BY <1>1, <1>2, <1>7, SpareKept DEF files
<1> QED
  BY <1>4, <1>5, <1>6, <1>8 DEF IInv

-----------------------------------------------------------------------------
\* A reader takes what is there, at most what it wants, and sleeps on an empty buffer.
LEMMA TakenFacts ==
  ASSUME TypeOK, RingOK, NEW n \in Nat
  PROVE  /\ Taken(n) \in 0 .. n /\ rpos + Taken(n) \in rpos .. wpos
         /\ Taken(n) < n => rpos + Taken(n) = wpos
         /\ rpos = wpos => Taken(n) = 0
  BY DEF Taken, TypeOK, RingOK, KeysInOrder

\* Reading on keeps the rest of the buffer.
LEMMA RingKept ==
  ASSUME TypeOK, RingOK, rpos' \in rpos .. wpos, UNCHANGED <<ring, wpos, typed, overrun>>
  PROVE  RingOK' /\ rpos' \in Nat
<1>1. wpos' - rpos' \in 0 .. BUFSIZE /\ rpos' \in Nat
  <2>1. rpos \in Nat /\ wpos \in Nat /\ BUFSIZE \in Nat /\ wpos' = wpos
    BY FilesAssumption DEF TypeOK
  <2>2. wpos - rpos \in 0 .. BUFSIZE
    BY DEF RingOK, KeysInOrder
  <2>3. \A a, b, n \in Nat : \A c \in a .. b : b - a \in 0 .. n => b - c \in 0 .. n /\ c \in Nat
    OBVIOUS
  <2>4. rpos' \in rpos .. wpos
    OBVIOUS
  <2> QED
    BY ONLY <2>1, <2>2, <2>3, <2>4
<1>2. rpos' .. wpos' - 1 \subseteq rpos .. wpos - 1
  BY <1>1 DEF TypeOK
<1> QED
  BY <1>1, <1>2 DEF RingOK, KeysInOrder

\* A process goes on after its read, or sleeps in it on the empty buffer.
LEMMA ReaderMoves ==
  ASSUME TypeOK, KeyOK, NEW p \in Proc, rpos' \in rpos .. wpos, UNCHANGED wpos,
         state' \in [Proc -> States], \A q \in Proc \ {p} : state'[q] = state[q],
         \/ /\ ~Reading(p)' /\ queue' \in {queue, queue \ {p}} /\ (queue' = queue => p \notin queue)
         \/ /\ state'[p] = "asleep" /\ queue' = queue \union {p} /\ rpos' = wpos
  PROVE  KeyOK'
<1>1. ASSUME NEW q \in Proc, state'[q] = "asleep" PROVE q \in queue' /\ rpos' = wpos'
  <2>1. CASE q = p
    BY <1>1, <2>1 DEF Reading
  <2>2. CASE q # p
    <3>1. q \in queue /\ rpos = wpos
      BY <1>1, <2>2 DEF KeyOK, NoKeyMissed
    <3> QED
      BY <2>2, <3>1 DEF TypeOK
  <2> QED
    BY <2>1, <2>2
<1>2. ASSUME NEW q \in queue' PROVE Reading(q)'
  <2>1. CASE q = p
    BY <1>2, <2>1 DEF Reading
  <2>2. CASE q # p
    <3>1. Reading(q) /\ q \in Proc
      BY <1>2, <2>2 DEF KeyOK, TypeOK
    <3> QED
      BY <2>2, <3>1 DEF Reading
  <2> QED
    BY <2>1, <2>2
<1> QED
  BY <1>1, <1>2 DEF KeyOK, NoKeyMissed

\* A call of read on stdin: all it wants is there, or it sleeps with the file acquired.
LEMMA ReadInv ==
  ASSUME IInv, NEW p \in Proc, NEW d \in Fd, NEW want \in 1 .. BUFSIZE, Read(p, d, want)
  PROVE  IInv'
<1>1. TypeOK /\ KeyOK /\ RingOK /\ TableOK /\ SpareOK
  BY DEF IInv
<1>2. /\ Calls(p) /\ IsOpen(p, d) /\ fds[p][d].node = "stdin" /\ rpos' = rpos + Taken(want)
      /\ UNCHANGED <<ref, opens, loaded, killed, ring, wpos, history, panic>>
  BY DEF Read
<1>3. want \in Nat \ {0}
  BY FilesAssumption
<1>4. /\ Taken(want) \in 0 .. want /\ rpos' \in rpos .. wpos
      /\ Taken(want) < want => rpos' = wpos
  BY <1>1, <1>2, <1>3, TakenFacts
<1>5. RingOK' /\ rpos' \in Nat
  BY <1>1, <1>2, <1>4, RingKept DEF history
<1>6. ~Reading(p) /\ p \notin queue /\ Alive(p)
  BY <1>1, <1>2 DEF Calls, Reading, KeyOK, Alive
<1>7. CASE Taken(want) = want
  <2>1. Returns(p) /\ UNCHANGED <<fds, reading, queue, flag>>
    BY <1>7 DEF Read
  <2>2. /\ state' \in [Proc -> States] /\ Users' = Users /\ ~Reading(p)'
        /\ \A q \in Proc : /\ Reading(q)' <=> Reading(q)
                           /\ state'[q] = "asleep" => state[q] = "asleep"
    BY <1>1, <1>2, <2>1, Returned
  <2>3. \A q \in Proc \ {p} : state'[q] = state[q]
    BY <1>1, <2>1 DEF Returns, TypeOK
  <2>4. KeyOK'
    BY <1>1, <1>2, <1>4, <1>6, <2>1, <2>2, <2>3, ReaderMoves
  <2>5. TableOK'
    BY <1>1, <2>1, <2>2, TablesKept
  <2>6. TypeOK'
    BY <1>1, <1>2, <1>5, <2>1, <2>2 DEF TypeOK, history
  <2>7. SpareOK'
    BY <1>1, <1>2, <2>2, SpareKept
  <2> QED
    BY <1>5, <2>4, <2>5, <2>6, <2>7 DEF IInv
<1>8. CASE Taken(want) # want
  <2> DEFINE r == [fd |-> d, want |-> want, got |-> Taken(want)]
  <2>1. /\ fds' = [fds EXCEPT ![p][d].count = @ + 1]
        /\ state' = [state EXCEPT ![p] = "asleep"] /\ reading' = [reading EXCEPT ![p] = r]
        /\ queue' = queue \union {p} /\ flag' = [flag EXCEPT ![p] = "interrupted"]
    BY <1>8 DEF Read, Sleeps
  <2>2. Taken(want) \in Nat /\ Taken(want) < want
    BY <1>3, <1>4, <1>8
  <2>3. r \in Calling
    BY <1>3, <2>2 DEF Calling
  <2>4. /\ state' \in [Proc -> States] /\ state'[p] = "asleep" /\ reading'[p].fd = d
        /\ \A q \in Proc \ {p} : state'[q] = state[q] /\ reading'[q] = reading[q]
    BY <1>1, <2>1 DEF TypeOK, States
  <2>5. KeyOK'
    BY <1>1, <1>2, <1>4, <2>1, <2>2, <2>4, ReaderMoves
  <2>6. /\ fds[p] \in [Fd -> Slot] /\ \A c \in Fd : Clean(fds[p][c])
        /\ fds[p][d].count = 1 /\ fds[p][d].status = "opened"
    BY <1>2, <1>6, Own DEF Clean, IsOpen, Unused
  <2> DEFINE f == [fds[p][d] EXCEPT !.count = @ + 1]
  <2>7. f \in Slot /\ Busy(f)
    BY <1>2, <2>6 DEF Slot, Busy
  <2>8. fds' = [fds EXCEPT ![p] = [fds[p] EXCEPT ![d] = f]]
    BY <2>1
  <2> HIDE DEF f, r
  <2>9. /\ fds' \in [Proc -> [Fd -> Slot]] /\ fds'[p][d] = f
        /\ \A c \in Fd \ {d} : fds'[p][c] = fds[p][c]
        /\ \A q \in Proc \ {p} : fds'[q] = fds[q]
    BY <1>1, <2>6, <2>7, <2>8 DEF TypeOK
  <2>10. TableOK'
    <3>1. ASSUME NEW c \in Fd
          PROVE  IF Reading(p)' /\ c = reading'[p].fd THEN Busy(fds'[p][c]) ELSE Clean(fds'[p][c])
      BY <2>4, <2>6, <2>7, <2>9 DEF Reading
    <3>2. ASSUME NEW q \in Proc \ {p}, NEW c \in Fd
          PROVE  IF Reading(q)' /\ c = reading'[q].fd THEN Busy(fds'[q][c]) ELSE Clean(fds'[q][c])
      BY <1>1, <2>4, <2>9 DEF TableOK, Reading
    <3> QED
      BY <3>1, <3>2 DEF TableOK, Busy, Clean, Unused
  <2>11. TypeOK'
    BY <1>1, <1>2, <1>5, <2>1, <2>3, <2>4, <2>9 DEF TypeOK, history
  <2>12. Users' = Users
    BY <1>6, <2>4 DEF Users, Alive
  <2>13. SpareOK'
    BY <1>1, <1>2, <2>12, SpareKept
  <2> QED
    BY <1>5, <2>5, <2>10, <2>11, <2>13 DEF IInv
<1> QED
  BY <1>7, <1>8

\* A woken reader goes on with what is there, sleeps again, or comes back.
LEMMA ResumeInv == ASSUME IInv, NEW p \in Proc, Resume(p) PROVE IInv'
<1>1. TypeOK /\ KeyOK /\ RingOK /\ TableOK /\ SpareOK
  BY DEF IInv
<1> DEFINE r == reading[p]
           m == r.want - r.got
           n == Taken(m)
<1>2. /\ state[p] = "woken"
      /\ UNCHANGED <<ref, opens, loaded, killed, ring, wpos, history, panic>>
  BY DEF Resume
<1>3. r \in Calling /\ m \in Nat
  <2>1. r \in Calling
    BY <1>1 DEF TypeOK
  <2> QED
    BY <2>1 DEF Calling
<1>4. /\ n \in 0 .. m /\ rpos + n \in rpos .. wpos /\ rpos \in rpos .. wpos
      /\ n < m => rpos + n = wpos
  <2>1. n \in 0 .. m /\ rpos + n \in rpos .. wpos /\ (n < m => rpos + n = wpos)
    BY <1>1, <1>3, TakenFacts
  <2> QED
    BY <2>1, <1>1 DEF TypeOK
<1>5. Reading(p) /\ Alive(p)
  BY <1>2 DEF Reading, Alive
<1>6. CASE flag[p] = "key" /\ r.got + n < r.want
  <2> DEFINE s == [r EXCEPT !.got = @ + n]
  <2>1. /\ rpos' = rpos + n
        /\ state' = [state EXCEPT ![p] = "asleep"] /\ reading' = [reading EXCEPT ![p] = s]
        /\ queue' = queue \union {p} /\ flag' = [flag EXCEPT ![p] = "interrupted"]
        /\ UNCHANGED fds
    BY <1>6 DEF Resume, Sleeps
  <2>2. r.got \in Nat /\ r.want \in Nat /\ r.fd \in Fd
    BY <1>3 DEF Calling
  <2>3. n < m
    BY <1>3, <1>4, <1>6, <2>2
  <2>4. s \in Calling /\ s.fd = r.fd
    BY <1>3, <1>4, <1>6, <2>2 DEF Calling
  <2> HIDE DEF s, r, n, m
  <2>5. /\ state' \in [Proc -> States] /\ state'[p] = "asleep" /\ reading'[p].fd = reading[p].fd
        /\ \A q \in Proc \ {p} : state'[q] = state[q] /\ reading'[q] = reading[q]
    BY <1>1, <2>1, <2>4 DEF TypeOK, States, r
  <2>6. rpos' \in rpos .. wpos /\ rpos' = wpos
    BY <1>4, <2>1, <2>3
  <2>7. KeyOK'
    BY <1>1, <1>2, <2>1, <2>5, <2>6, ReaderMoves
  <2>8. RingOK' /\ rpos' \in Nat
    BY <1>1, <1>2, <2>6, RingKept DEF history
  <2>9. TableOK'
    BY <1>1, <1>5, <2>1, <2>5 DEF TableOK, Reading, Busy, Clean, Unused
  <2>10. TypeOK'
    BY <1>1, <1>2, <2>1, <2>4, <2>5, <2>8 DEF TypeOK, history
  <2>11. Users' = Users
    BY <1>5, <2>5 DEF Users, Alive
  <2>12. SpareOK'
    BY <1>1, <1>2, <2>11, SpareKept
  <2> QED
    BY <2>7, <2>8, <2>9, <2>10, <2>12 DEF IInv
<1>7. CASE ~(flag[p] = "key" /\ r.got + n < r.want)
  <2>1. /\ rpos' = IF flag[p] = "key" THEN rpos + n ELSE rpos
        /\ queue' = queue \ {p} /\ flag' = [flag EXCEPT ![p] = "none"]
        /\ fds' = [fds EXCEPT ![p][r.fd].count = @ - 1]
        /\ reading' = [reading EXCEPT ![p] = NotReading] /\ Returns(p)
    BY <1>7 DEF Resume, ReadReturns
  <2>2. r.fd \in Fd /\ NotReading \in Calling
    BY <1>3, FilesAssumption DEF Calling, NotReading, Fd
  <2>3. rpos' \in rpos .. wpos
    BY <1>4, <2>1
  <2> DEFINE d == r.fd
  <2>4. Busy(fds[p][d]) /\ fds[p] \in [Fd -> Slot] /\ \A c \in Fd \ {d} : Clean(fds[p][c])
    BY <1>1, <1>5, <2>2 DEF TableOK, TypeOK
  <2> DEFINE f == [fds[p][d] EXCEPT !.count = @ - 1]
             T == [fds[p] EXCEPT ![d] = f]
  <2>5. f \in Slot /\ Clean(f)
    BY <2>2, <2>4 DEF Slot, Busy, Clean
  <2>6. fds' = [fds EXCEPT ![p] = T]
    BY <2>1
  <2> HIDE DEF d
  <2>7. T \in [Fd -> Slot] /\ \A c \in Fd : Clean(T[c])
    BY <2>4, <2>5
  <2> HIDE DEF T, f, r, n, m
  <2>8. /\ state' \in [Proc -> States] /\ state'[p] \in {"ready", "leaving"}
        /\ \A q \in Proc \ {p} : state'[q] = state[q] /\ reading'[q] = reading[q] /\ fds'[q] = fds[q]
        /\ fds'[p] = T
    BY <1>1, <2>1, <2>6 DEF TypeOK, States, Returns
  <2>9. ~Reading(p)'
    BY <2>8 DEF Reading
  <2>10. KeyOK'
    BY <1>1, <1>2, <2>1, <2>3, <2>8, <2>9, ReaderMoves
  <2>11. RingOK' /\ rpos' \in Nat
    BY <1>1, <1>2, <2>3, RingKept DEF history
  <2>12. TableOK'
    BY <1>1, <2>7, <2>8, <2>9 DEF TableOK, Reading, Busy, Clean, Unused
  <2>13. TypeOK'
    BY <1>1, <1>2, <2>1, <2>2, <2>6, <2>7, <2>8, <2>11 DEF TypeOK, history
  <2>14. Users' = Users
    BY <1>5, <2>8 DEF Users, Alive
  <2>15. SpareOK'
    BY <1>1, <1>2, <2>14, SpareKept
  <2> QED
    BY <2>10, <2>11, <2>12, <2>13, <2>15 DEF IInv
<1> QED
  BY <1>6, <1>7

\* A key: the ring gets it if there is room, and every sleeping reader is woken.
LEMMA TypeInv == ASSUME IInv, Type PROVE IInv'
<1>1. TypeOK /\ KeyOK /\ RingOK /\ TableOK /\ SpareOK
  BY DEF IInv
<1>2. /\ typed' = typed + 1 /\ ring' = [ring EXCEPT ![wpos % BUFSIZE] = typed']
      /\ IF Room THEN wpos' = wpos + 1 /\ UNCHANGED overrun ELSE overrun' = TRUE /\ UNCHANGED wpos
      /\ IF queue = {} THEN UNCHANGED <<queue, flag, state>> ELSE WakesReaders
      /\ UNCHANGED <<files, killed, reading, rpos, lost, losses, panic>>
  BY DEF Type
<1>3. BUFSIZE \in Nat \ {0} /\ wpos \in Nat /\ rpos \in Nat /\ typed \in Nat
  BY <1>1, FilesAssumption DEF TypeOK
<1>4. /\ queue' = {} /\ flag' \in [Proc -> {"none", "interrupted", "key"}]
      /\ state' \in [Proc -> States]
      /\ \A p \in Proc : /\ Reading(p)' <=> Reading(p)
                         /\ Alive(p)' <=> Alive(p)
                         /\ state'[p] # "asleep"
  <2>1. CASE queue = {}
    BY <1>1, <1>2, <2>1 DEF TypeOK, KeyOK, NoKeyMissed, Reading, Alive
  <2>2. CASE queue # {}
    <3>1. /\ queue' = {} /\ flag' = [p \in Proc |-> IF p \in queue THEN "key" ELSE flag[p]]
          /\ state' = [p \in Proc |-> IF p \in queue THEN "woken" ELSE state[p]]
      BY <1>2, <2>2 DEF WakesReaders
    <3> QED
      BY <1>1, <3>1 DEF TypeOK, States, KeyOK, NoKeyMissed, Reading, Alive
  <2> QED
    BY <2>1, <2>2
<1>5. KeyOK'
  BY <1>4 DEF KeyOK, NoKeyMissed
<1>6. TableOK'
  BY <1>1, <1>2, <1>4, TablesKept DEF files
<1>7. SpareOK'
  <2>1. Users' = Users
    BY <1>4 DEF Users
  <2> QED
    BY <1>1, <1>2, <2>1, SpareKept DEF files
<1>8. wpos % BUFSIZE \in 0 .. BUFSIZE - 1
  BY <1>3
<1>9. wpos' \in Nat /\ typed' \in Nat /\ ring' \in [0 .. BUFSIZE - 1 -> Nat]
  BY <1>1, <1>2, <1>3, <1>8 DEF TypeOK
<1>10. TypeOK'
  BY <1>1, <1>2, <1>4, <1>9 DEF TypeOK, files
<1>11. RingOK'
  <2>1. wpos - rpos \in 0 .. BUFSIZE
    BY <1>1 DEF RingOK, KeysInOrder
  <2>2. wpos' - rpos' \in 0 .. BUFSIZE
    BY <1>2, <1>3, <2>1 DEF Room
  <2>3. ASSUME ~overrun' PROVE wpos' = typed' /\ \A k \in rpos' .. wpos' - 1 : ring'[k % BUFSIZE] = k + 1
    <3>1. wpos' = wpos + 1 /\ ~overrun /\ wpos - rpos < BUFSIZE
      BY <1>2, <2>3 DEF Room
    <3>2. wpos = typed /\ \A k \in rpos .. wpos - 1 : ring[k % BUFSIZE] = k + 1
      BY <1>1, <3>1 DEF RingOK, KeysInOrder
    <3>3. ring'[wpos % BUFSIZE] = wpos + 1
      BY <1>1, <1>2, <1>8, <3>2 DEF TypeOK
    <3>4. ASSUME NEW k \in rpos .. wpos - 1 PROVE ring'[k % BUFSIZE] = k + 1
      <4>1. k \in Nat /\ k < wpos /\ wpos - k < BUFSIZE
        BY <1>3, <3>1
      <4>2. k % BUFSIZE # wpos % BUFSIZE
        BY <1>3, <4>1, ModApart, Zenon
      <4>3. k % BUFSIZE \in 0 .. BUFSIZE - 1
        BY <1>3, <4>1
      <4> QED
        BY <1>1, <1>2, <3>2, <4>2, <4>3 DEF TypeOK
    <3>5. \A k \in rpos .. wpos' - 1 : k = wpos \/ k \in rpos .. wpos - 1
      BY <1>3, <3>1
    <3> QED
      BY <1>2, <3>1, <3>2, <3>3, <3>4, <3>5
  <2> QED
    BY <2>2, <2>3 DEF RingOK, KeysInOrder
<1> QED
  BY <1>5, <1>6, <1>7, <1>10, <1>11 DEF IInv

-----------------------------------------------------------------------------
\* Every step of every process, and every key, keeps the invariant.
LEMMA NextInv == ASSUME IInv, [Next]_vars PROVE IInv'
<1>1. CASE UNCHANGED vars
  BY <1>1 DEF IInv, TypeOK, KeyOK, RingOK, TableOK, SpareOK, NoKeyMissed, KeysInOrder, Reading, Clean, Busy,
     Unused, Users, Alive, Cwd, vars, files, stdin, history
<1>2. ASSUME NEW p \in Proc, NEW target \in Node \union {"missing"}, NEW fl \in Flags, Open(p, target, fl)
      PROVE  IInv'
  BY <1>2, OpenInv
<1>3. ASSUME NEW p \in Proc, NEW d \in Fd, NEW e \in Fd, Close(p, d) \/ ReadDirectory(p, d) \/ Dup(p, d, e)
      PROVE  IInv'
  BY <1>3, TableCallsInv
<1>4. ASSUME NEW p \in Proc, NEW q \in Proc, Fork(p, q) \/ Kill(p, q) \/ Reap(p) PROVE IInv'
  BY <1>4, ForkInv, ProcessInv
<1>5. ASSUME NEW p \in Proc, Exit(p) \/ Exec(p) \/ ExecDirectory(p) \/ Resume(p) PROVE IInv'
  BY <1>5, ExitInv, ExecInv, PanicKeeps, ResumeInv DEF ExecDirectory
<1>6. ASSUME NEW p \in Proc, NEW target \in Node \union {"missing"}, ExecOpensNothing(p, target) PROVE IInv'
  BY <1>6, ExitInv DEF ExecOpensNothing
<1>7. ASSUME NEW p \in Proc, NEW target \in {"file", "stdin"}, ExecLoadsNothing(p, target) PROVE IInv'
  BY <1>7, ExecLoadsNothingInv
<1>8. ASSUME NEW p \in Proc, NEW d \in Fd, NEW want \in 1 .. BUFSIZE, Read(p, d, want) PROVE IInv'
  BY <1>8, ReadInv
<1> QED
  BY <1>1, <1>2, <1>3, <1>4, <1>5, <1>6, <1>7, <1>8, TypeInv DEF Next

\* The strengthened invariant of the file tables and of stdin.
THEOREM Inductive == Spec => []IInv
<1>1. IInv /\ [Next]_vars => IInv'
  BY NextInv
<1> QED
  BY <1>1, StartInv, PTL DEF Spec

\* No reader of dev_stdin_read sleeps beside a character, for any number of readers,
\* keys and kills.
THEOREM KeysWake == Spec => []NoKeyMissed
<1>1. IInv => NoKeyMissed
  BY DEF IInv, KeyOK
<1> QED
  BY <1>1, Inductive, PTL

\* stdin_buffer of any length holds what was typed, in order, until one overflows it.
THEOREM KeysKeepOrder == Spec => []KeysInOrder
<1>1. IInv => KeysInOrder
  BY DEF IInv, RingOK
<1> QED
  BY <1>1, Inductive, PTL

\* files_destroy never finds a descriptor in use, and no inode is open more often than
\* it is referred to, whatever the processes open, dup, fork, exec, kill and leave.
THEOREM NoAssertionFails == Spec => []AssertionsHold
<1>1. ASSUME IInv, NEW n \in Node PROVE opens[n] <= ref[n]
  <2>1. ref[n] - opens[n] >= Cwd(n) * Cardinality(Users) /\ ref[n] \in Int /\ opens[n] \in Int
    BY <1>1 DEF IInv, SpareOK, TypeOK
  <2>2. Cardinality(Users) \in Nat
    BY Counting DEF Users
  <2>3. Cwd(n) * Cardinality(Users) \in Nat
    BY <2>2 DEF Cwd
  <2> QED
    BY <2>1, <2>3
<1>2. IInv => AssertionsHold
  BY <1>1 DEF IInv, SpareOK, AssertionsHold
<1> QED
  BY <1>2, Inductive, PTL

-----------------------------------------------------------------------------
(***************************************************************************)
(* The counts of the inodes                                                *)
(***************************************************************************)
\* The descriptors for n in a table, and what one process has of all of them.
Has(T, n) == {d \in Fd : T[d].status # "none" /\ T[d].node = n}

\* Counts beyond the users, from the two leaks, only grow; who has ended has no file.
LossOK ==
  /\ lost \in [Node -> [refs : Nat, opens : Nat]]
  /\ \A p \in Proc : ~Alive(p) => fds[p] = EmptyTable

\* All descriptors together are finitely many.
LEMMA FiniteDescriptors ==
  /\ \A A \in SUBSET (Proc \X Fd) : IsFiniteSet(A) /\ Cardinality(A) \in Nat
  /\ IsFiniteSet(Fd)
<1>1. NFD \in Nat \ {0} /\ IsFiniteSet(Proc)
  BY FilesAssumption
<1>2. IsFiniteSet(Fd)
  BY <1>1, FS_Interval DEF Fd
<1>3. IsFiniteSet(Proc \X Fd)
  BY <1>1, <1>2, FS_Product
<1> QED
  BY <1>2, <1>3, FS_Subset, FS_CardinalityType

\* The descriptors of one process are as many as its table has.
LEMMA OneTable ==
  ASSUME NEW p \in Proc, NEW D \in SUBSET Fd
  PROVE  Cardinality({p} \X D) = Cardinality(D) /\ Cardinality(D) \in Nat
<1>1. IsFiniteSet(D) /\ Cardinality(D) \in Nat
  BY FiniteDescriptors, FS_Subset, FS_CardinalityType
<1>2. IsFiniteSet({p}) /\ Cardinality({p}) = 1
  BY FS_Singleton
<1>3. Cardinality({p} \X D) = Cardinality({p}) * Cardinality(D)
  BY <1>1, <1>2, FS_Product
<1> QED
  BY <1>1, <1>2, <1>3

\* A process gets another table: its own descriptors are counted again.
LEMMA TableChange ==
  ASSUME TypeOK, NEW p \in Proc, NEW T \in [Fd -> Slot], fds' = [fds EXCEPT ![p] = T], NEW n \in Node
  PROVE  /\ Cardinality(Descriptors(n))' = Cardinality(Descriptors(n)) - Holds(p, n) + Cardinality(Has(T, n))
         /\ Holds(p, n) <= Cardinality(Descriptors(n)) /\ Cardinality(Has(T, n)) <= Cardinality(Descriptors(n))'
         /\ Cardinality(Descriptors(n)) \in Nat /\ Cardinality(Descriptors(n))' \in Nat
         /\ Holds(p, n) \in Nat /\ Cardinality(Has(T, n)) \in Nat
<1> DEFINE mine == {p} \X Has(fds[p], n)
           new == {p} \X Has(T, n)
           others == Descriptors(n) \ mine
<1>1. Has(fds[p], n) \in SUBSET Fd /\ Has(T, n) \in SUBSET Fd
  BY DEF Has
<1>2. Descriptors(n) \in SUBSET (Proc \X Fd) /\ Descriptors(n)' \in SUBSET (Proc \X Fd)
  BY DEF Descriptors
<1>3. mine \subseteq Descriptors(n)
  BY DEF Has, Descriptors
<1>4. Descriptors(n)' = others \union new
  <2>1. fds'[p] = T /\ \A q \in Proc \ {p} : fds'[q] = fds[q]
    BY DEF TypeOK
  <2>2. ASSUME NEW q \in Proc, NEW d \in Fd
        PROVE  <<q, d>> \in Descriptors(n)' <=> <<q, d>> \in others \union new
    <3>1. <<q, d>> \in Descriptors(n)' <=> fds'[q][d].status # "none" /\ fds'[q][d].node = n
      BY DEF Descriptors
    <3>2. <<q, d>> \in Descriptors(n) <=> fds[q][d].status # "none" /\ fds[q][d].node = n
      BY DEF Descriptors
    <3>3. <<q, d>> \in new <=> q = p /\ T[d].status # "none" /\ T[d].node = n
      BY DEF Has
    <3>4. <<q, d>> \in mine <=> q = p /\ fds[p][d].status # "none" /\ fds[p][d].node = n
      BY DEF Has
    <3> QED
      BY <2>1, <3>1, <3>2, <3>3, <3>4
  <2>3. others \union new \subseteq Proc \X Fd
    BY <1>1, <1>2
  <2> QED
    BY <1>2, <2>2, <2>3
<1>5. others \intersect new = {}
  BY DEF Has, Descriptors
<1>6. Cardinality(mine) = Holds(p, n) /\ Cardinality(new) = Cardinality(Has(T, n))
      /\ Holds(p, n) \in Nat /\ Cardinality(Has(T, n)) \in Nat
  <2>1. Holds(p, n) = Cardinality(Has(fds[p], n))
    BY DEF Holds, Has
  <2> QED
    BY <1>1, <2>1, OneTable
<1> HIDE DEF mine, new
<1>7. /\ IsFiniteSet(Descriptors(n)) /\ Cardinality(Descriptors(n)) \in Nat
      /\ IsFiniteSet(Descriptors(n)') /\ Cardinality(Descriptors(n)') \in Nat
  BY <1>2, FiniteDescriptors
<1>8. /\ IsFiniteSet(others) /\ IsFiniteSet(new) /\ IsFiniteSet(mine)
  BY <1>3, <1>4, <1>7, FS_Subset
<1>9. Cardinality(others) = Cardinality(Descriptors(n)) - Cardinality(mine)
  <2>1. Descriptors(n) \intersect mine = mine
    BY <1>3
  <2> QED
    BY <1>7, <2>1, FS_Difference, ZenonT(60)
<1>10. Cardinality(Descriptors(n)') = Cardinality(others) + Cardinality(new)
  <2>1. Cardinality(others \union new) = Cardinality(others) + Cardinality(new) - Cardinality(others \intersect new)
    BY <1>8, FS_Union
  <2>2. Cardinality(others \intersect new) = 0
    BY <1>5, FS_EmptySet
  <2>3. Cardinality(others) \in Nat /\ Cardinality(new) \in Nat
    BY <1>8, FS_CardinalityType
  <2> QED
    BY <1>4, <2>1, <2>2, <2>3
<1>11. Cardinality(others) \in Nat
  BY <1>8, FS_CardinalityType
<1> QED
  BY <1>6, <1>7, <1>9, <1>10, <1>11

\* Working directories, counted or not.
LEMMA DirectoryFacts ==
  ASSUME NEW n \in Node
  PROVE  /\ Cwd(n) \in {0, 1} /\ Base(n) \in Nat /\ Cwd("file") = 0
         /\ Cardinality(Users) \in Nat
         /\ Directories(n) = IF Cwd(n) = 1 THEN Cardinality(Users) ELSE 0
<1>1. Cardinality(Users) \in Nat
  BY Counting DEF Users
<1>2. Cwd(n) \in {0, 1} /\ Base(n) \in Nat /\ Cwd("file") = 0
  BY DEF Cwd, Base
<1>3. Directories(n) = Cwd(n) * Cardinality(Users)
  BY DEF Directories, Users
<1>4. CASE Cwd(n) = 0
  BY <1>1, <1>2, <1>3, <1>4
<1>5. CASE Cwd(n) = 1
  BY <1>1, <1>2, <1>3, <1>5
<1> QED
  BY <1>1, <1>2, <1>4, <1>5

\* The table of p becomes T: its counts are settled when what was in the old table and
\* is not closed, with what is opened, is in the new one or lost, and when the k more
\* directories are those of k more processes or lost.
Settled(p, T, closed, opened, k) ==
  \A n \in Node :
    /\ closed[n] <= Holds(p, n)
    /\ Cardinality(Has(T, n)) + lost'[n].opens - lost[n].opens = Holds(p, n) - closed[n] + opened[n]
    /\ Cwd(n) = 1 => Cardinality(Users)' + lost'[n].refs - lost[n].refs
                     = Cardinality(Users) + k + lost'[n].opens - lost[n].opens
    /\ Cwd(n) = 0 => lost'[n].refs - lost[n].refs = lost'[n].opens - lost[n].opens

\* A settled step of vfs_open, vfs_close, fork, exec or exit keeps the counts exact.
LEMMA CountStep ==
  ASSUME TypeOK, CountsExact, LossOK, NEW p \in Proc, NEW T \in [Fd -> Slot], fds' = [fds EXCEPT ![p] = T],
         NEW closed \in [Node -> Nat], NEW opened \in [Node -> Nat], NEW k \in Int, Recount(closed, opened, k),
         lost' \in [Node -> [refs : Nat, opens : Nat]], Cardinality(Users)' \in Nat,
         Settled(p, T, closed, opened, k)
  PROVE  CountsExact'
<1>1. ASSUME NEW n \in Node
      PROVE  /\ opens'[n] = Cardinality(Descriptors(n))' + lost'[n].opens
             /\ ref'[n] = Base(n) + Cardinality(Descriptors(n))' + Directories(n)' + lost'[n].refs
             /\ ref[n] - closed[n] >= 0 /\ ref[n] \in Int
  <2>1. /\ Cardinality(Descriptors(n))' = Cardinality(Descriptors(n)) - Holds(p, n) + Cardinality(Has(T, n))
        /\ Holds(p, n) <= Cardinality(Descriptors(n))
        /\ Cardinality(Descriptors(n)) \in Nat /\ Cardinality(Descriptors(n))' \in Nat
        /\ Holds(p, n) \in Nat /\ Cardinality(Has(T, n)) \in Nat
    BY TableChange
  <2>2. /\ opens'[n] = opens[n] - closed[n] + opened[n]
        /\ ref'[n] = ref[n] - closed[n] + opened[n] + k * Cwd(n)
    BY DEF Recount
  <2>10. /\ closed[n] <= Holds(p, n)
         /\ Cardinality(Has(T, n)) + lost'[n].opens - lost[n].opens = Holds(p, n) - closed[n] + opened[n]
         /\ Cwd(n) = 1 => Cardinality(Users)' + lost'[n].refs - lost[n].refs
                          = Cardinality(Users) + k + lost'[n].opens - lost[n].opens
         /\ Cwd(n) = 0 => lost'[n].refs - lost[n].refs = lost'[n].opens - lost[n].opens
    BY DEF Settled
  <2>3. /\ lost[n].refs \in Nat /\ lost[n].opens \in Nat /\ lost'[n].refs \in Nat /\ lost'[n].opens \in Nat
        /\ closed[n] \in Nat /\ opened[n] \in Nat
    BY DEF LossOK
  <2>4. /\ opens[n] = Cardinality(Descriptors(n)) + lost[n].opens
        /\ ref[n] = Base(n) + Cardinality(Descriptors(n)) + Directories(n) + lost[n].refs
    BY DEF CountsExact
  <2>5. /\ Cwd(n) \in {0, 1} /\ Base(n) \in Nat /\ Cardinality(Users) \in Nat
        /\ Directories(n) = IF Cwd(n) = 1 THEN Cardinality(Users) ELSE 0
    BY DirectoryFacts
  <2>6. Directories(n)' = IF Cwd(n) = 1 THEN Cardinality(Users)' ELSE 0
    <3>1. Directories(n)' = Cwd(n) * Cardinality(Users)'
      BY DEF Directories, Users, Cwd
    <3>2. CASE Cwd(n) = 0
      BY <2>5, <3>1, <3>2
    <3>3. CASE Cwd(n) = 1
      BY <2>5, <3>1, <3>3
    <3> QED
      BY <2>5, <3>2, <3>3
  <2>7. opens'[n] = Cardinality(Descriptors(n))' + lost'[n].opens
    BY ONLY <2>1, <2>2, <2>3, <2>4, <2>10
  <2>8. ref'[n] = Base(n) + Cardinality(Descriptors(n))' + Directories(n)' + lost'[n].refs
    <3>1. CASE Cwd(n) = 0
      <4>1. k * Cwd(n) = 0
        BY <3>1
      <4> QED
        BY <2>1, <2>2, <2>3, <2>4, <2>5, <2>6, <2>10, <3>1, <4>1
    <3>2. CASE Cwd(n) = 1
      <4>1. k * Cwd(n) = k
        BY <3>2
      <4> QED
        BY <2>1, <2>2, <2>3, <2>4, <2>5, <2>6, <2>10, <3>2, <4>1
    <3> QED
      BY <2>5, <3>1, <3>2
  <2>9. ref[n] - closed[n] >= 0 /\ ref[n] \in Int
    BY <2>1, <2>3, <2>4, <2>5, <2>10
  <2> QED
    BY <2>7, <2>8, <2>9
<1>2. \A n \in Node : Base(n)' = Base(n) /\ lost'[n] = lost[n]'
  BY DEF Base
<1>3. loaded' = (ref'["file"] > 0)
  <2>1. /\ ref'["file"] = ref["file"] - closed["file"] + opened["file"] + k * Cwd("file")
        /\ loaded' = (opened["file"] > 0 \/ (loaded /\ ref'["file"] > 0)) /\ "file" \in Node
    BY DEF Recount, Node
  <2>2. k * Cwd("file") = 0
    BY DEF Cwd
  <2>3. loaded = (ref["file"] > 0)
    BY DEF CountsExact
  <2>4. closed["file"] \in Nat /\ opened["file"] \in Nat /\ ref["file"] \in Int /\ ref["file"] - closed["file"] >= 0
    BY <1>1, <2>1
  <2>5. ref'["file"] > 0 <=> opened["file"] > 0 \/ (ref["file"] > 0 /\ ref'["file"] > 0)
    BY <2>1, <2>2, <2>4
  <2>6. loaded' = (opened["file"] > 0 \/ ((ref["file"] > 0) /\ ref'["file"] > 0))
    BY <2>1, <2>3, Zenon
  <2>7. CASE ref'["file"] > 0
    <3>1. (opened["file"] > 0 \/ ((ref["file"] > 0) /\ ref'["file"] > 0)) = TRUE
      BY <2>5, <2>7
    <3> QED
      BY <2>6, <2>7, <3>1
  <2>8. CASE ~(ref'["file"] > 0)
    <3>1. (opened["file"] > 0 \/ ((ref["file"] > 0) /\ ref'["file"] > 0)) = FALSE
      BY <2>5, <2>8
    <3> QED
      BY <2>6, <2>8, <3>1
  <2> QED
    BY <2>7, <2>8
<1> QED
  BY <1>1, <1>2, <1>3 DEF CountsExact

\* A step that opens and closes nothing.
LEMMA CountsKept ==
  ASSUME CountsExact, UNCHANGED <<ref, opens, loaded, lost>>, Users' = Users,
         \A n \in Node : Descriptors(n)' = Descriptors(n)
  PROVE  CountsExact'
<1>1. \A n \in Node : Directories(n)' = Directories(n) /\ Base(n)' = Base(n)
  BY DEF Directories, Users, Cwd, Base
<1> QED
  BY <1>1 DEF CountsExact

\* fd_array_alloc takes one of the descriptors that are free.
LEMMA LowestIn == ASSUME NEW slots \in SUBSET Fd, slots # {} PROVE Lowest(slots) \in slots
<1>1. slots \subseteq Nat
  BY FilesAssumption DEF Fd
<1>2. \E x \in slots : \A y \in slots : ~(<<y, x>> \in OpToRel(<, Nat))
  BY <1>1, NatLessThanWellFounded, WFMin, Zenon
<1>3. \A x, y \in Nat : <<y, x>> \in OpToRel(<, Nat) <=> y < x
  BY DEF OpToRel
<1>4. \E x \in slots : \A y \in slots : x <= y
  <2>1. PICK x \in slots : \A y \in slots : ~(<<y, x>> \in OpToRel(<, Nat))
    BY <1>2
  <2>2. \A y \in slots : ~(y < x)
    BY <1>1, <1>3, <2>1
  <2> QED
    BY <1>1, <2>2
<1> QED
  BY <1>4 DEF Lowest

\* A free descriptor is opened.
LEMMA SlotFilled ==
  ASSUME NEW T \in [Fd -> Slot], NEW d \in Fd, T[d].status = "none", NEW m \in Node \union {"none"}, NEW n \in Node
  PROVE  Cardinality(Has([T EXCEPT ![d] = Opened(m)], n)) = Cardinality(Has(T, n)) + One(m)[n]
<1> DEFINE U == [T EXCEPT ![d] = Opened(m)]
<1>1. Has(T, n) \in SUBSET Fd /\ d \notin Has(T, n)
  BY DEF Has
<1>2. IsFiniteSet(Has(T, n)) /\ Cardinality(Has(T, n)) \in Nat
  BY <1>1, FiniteDescriptors, FS_Subset, FS_CardinalityType
<1>3. U[d].status = "opened" /\ U[d].node = m /\ \A e \in Fd \ {d} : U[e] = T[e]
  BY DEF Opened
<1>4. CASE n = m
  <2>1. Has(U, n) = Has(T, n) \union {d}
    BY <1>3, <1>4 DEF Has
  <2>2. Cardinality(Has(U, n)) = Cardinality(Has(T, n)) + 1
    BY <1>1, <1>2, <2>1, FS_AddElement
  <2> QED
    BY <1>4, <2>2 DEF One
<1>5. CASE n # m
  <2>1. Has(U, n) = Has(T, n)
    BY <1>1, <1>3, <1>5 DEF Has
  <2>2. One(m)[n] = 0
    BY <1>5 DEF One
  <2> QED
    BY <1>2, <2>1, <2>2
<1> QED
  BY <1>4, <1>5

\* Some descriptors are closed.
LEMMA SlotsEmptied ==
  ASSUME NEW T \in [Fd -> Slot], NEW D \in SUBSET Fd, NEW n \in Node
  PROVE  LET U == [d \in Fd |-> IF d \in D THEN Unused ELSE T[d]]
             closed == Cardinality({d \in D : T[d].status # "none" /\ T[d].node = n})
         IN  /\ Cardinality(Has(U, n)) = Cardinality(Has(T, n)) - closed
             /\ closed \in Nat /\ closed <= Cardinality(Has(T, n)) /\ Cardinality(Has(U, n)) \in Nat
<1> DEFINE U == [d \in Fd |-> IF d \in D THEN Unused ELSE T[d]]
           C == {d \in D : T[d].status # "none" /\ T[d].node = n}
<1>1. Has(U, n) = Has(T, n) \ C
  BY DEF Has, Unused
<1>2. Has(T, n) \intersect C = C /\ C \in SUBSET Fd /\ Has(T, n) \in SUBSET Fd
  BY DEF Has
<1>3. IsFiniteSet(Has(T, n)) /\ Cardinality(Has(T, n)) \in Nat /\ Cardinality(C) \in Nat
  BY <1>2, FiniteDescriptors, FS_Subset, FS_CardinalityType
<1> HIDE DEF U, C
<1>4. Cardinality(Has(U, n)) = Cardinality(Has(T, n)) - Cardinality(C) /\ IsFiniteSet(Has(U, n))
  BY <1>1, <1>2, <1>3, FS_Difference
<1>5. Cardinality(Has(U, n)) \in Nat
  BY <1>4, FS_CardinalityType
<1>6. Cardinality(C) <= Cardinality(Has(T, n))
  BY <1>3, <1>4, <1>5
<1> QED
  BY <1>3, <1>4, <1>5, <1>6 DEF U, C

\* The table T of p has what the old one had, less what is closed, and what is opened.
Balanced(p, T, closed, opened) ==
  \A n \in Node : /\ closed[n] <= Holds(p, n)
                  /\ Cardinality(Has(T, n)) = Holds(p, n) - closed[n] + opened[n]

\* open, close, dup and exec: the number of processes stays.
LEMMA CallCounts ==
  ASSUME IInv, CountsExact, LossOK, NEW p \in Proc, Calls(p), Returns(p),
         NEW T \in [Fd -> Slot], fds' = [fds EXCEPT ![p] = T],
         NEW closed \in [Node -> Nat], NEW opened \in [Node -> Nat], Recount(closed, opened, 0), UNCHANGED lost,
         Balanced(p, T, closed, opened)
  PROVE  CountsExact' /\ LossOK'
<1>1. TypeOK
  BY DEF IInv
<1>2. Users' = Users /\ state[p] = "ready" /\ state'[p] \in {"ready", "leaving"}
      /\ \A q \in Proc \ {p} : state'[q] = state[q]
  BY <1>1, Returned DEF Returns, TypeOK, Calls
<1>3. Cardinality(Users)' = Cardinality(Users) /\ Cardinality(Users) \in Nat
  BY <1>2, Counting DEF Users
<1>4. ASSUME NEW n \in Node
      PROVE  /\ closed[n] <= Holds(p, n)
             /\ Cardinality(Has(T, n)) + lost'[n].opens - lost[n].opens = Holds(p, n) - closed[n] + opened[n]
             /\ Cwd(n) = 1 => Cardinality(Users)' + lost'[n].refs - lost[n].refs
                              = Cardinality(Users) + 0 + lost'[n].opens - lost[n].opens
             /\ Cwd(n) = 0 => lost'[n].refs - lost[n].refs = lost'[n].opens - lost[n].opens
  <2>1. lost[n].refs \in Nat /\ lost[n].opens \in Nat /\ lost'[n] = lost[n]
    BY DEF LossOK
  <2>2. Cardinality(Has(T, n)) \in Nat
    BY <1>1, TableChange
  <2>3. closed[n] <= Holds(p, n) /\ Cardinality(Has(T, n)) = Holds(p, n) - closed[n] + opened[n]
    BY DEF Balanced
  <2> QED
    BY <1>3, <2>1, <2>2, <2>3
<1>5. lost' \in [Node -> [refs : Nat, opens : Nat]] /\ Cardinality(Users)' \in Nat /\ 0 \in Int
  BY <1>3 DEF LossOK
<1>8. Settled(p, T, closed, opened, 0)
  BY <1>4 DEF Settled
<1>6. CountsExact'
  BY <1>1, <1>5, <1>8, CountStep
<1>7. LossOK'
  BY <1>1, <1>2, <1>5 DEF LossOK, Alive, TypeOK
<1> QED
  BY <1>6, <1>7

\* What the caller holds is what its table has; an inode is counted once at most.
LEMMA HoldsFacts ==
  ASSUME IInv, NEW p \in Proc
  PROVE  /\ \A n \in Node : Holds(p, n) = Cardinality(Has(fds[p], n)) /\ Holds(p, n) \in Nat
         /\ Zero \in [Node -> Nat] /\ \A m : One(m) \in [Node -> Nat]
         /\ \A n \in Node : Zero[n] = 0
         /\ [n \in Node |-> Holds(p, n)] \in [Node -> Nat]
<1>1. \A n \in Node : Has(fds[p], n) \in SUBSET Fd /\ Holds(p, n) = Cardinality(Has(fds[p], n))
  BY DEF Has, Holds
<1>2. \A n \in Node : Holds(p, n) \in Nat
  BY <1>1, Counting
<1> QED
  BY <1>1, <1>2 DEF Zero, One

\* vfs_open: one more of the descriptors and of both counts, or a reference lost.
LEMMA OpenCounts ==
  ASSUME IInv, CountsExact, LossOK,
         NEW p \in Proc, NEW target \in Node \union {"missing"}, NEW fl \in Flags, Open(p, target, fl)
  PROVE  CountsExact' /\ LossOK'
<1>1. Calls(p) /\ Free(p) # {} /\ ~Reading(p) /\ TypeOK
  BY DEF Open, Calls, Reading, IInv
<1>2. CASE VfsOpen(target, fl) = "opened"
  <2>1. target \in Node
    BY <1>2 DEF VfsOpen
  <2> DEFINE d == Lowest(Free(p))
             T == [fds[p] EXCEPT ![d] = Opened(target)]
  <2>2. d \in Fd /\ fds[p][d].status = "none"
    <3>1. Free(p) \in SUBSET Fd
      BY DEF Free
    <3>2. d \in Free(p)
      BY <1>1, <3>1, LowestIn
    <3> QED
      BY <3>2 DEF Free
  <2>3. /\ fds' = [fds EXCEPT ![p][d] = Opened(target)]
        /\ Recount(Zero, One(target), 0) /\ Returns(p) /\ UNCHANGED history
    BY <1>2 DEF Open
  <2>4. fds' = [fds EXCEPT ![p] = T]
    BY <2>3
  <2>5. fds[p] \in [Fd -> Slot] /\ T \in [Fd -> Slot]
    BY <1>1, <2>1, Tables DEF TypeOK
  <2>6. \A n \in Node : Cardinality(Has(T, n)) = Cardinality(Has(fds[p], n)) + One(target)[n]
    BY <2>1, <2>2, <2>5, SlotFilled
  <2>7. Balanced(p, T, Zero, One(target))
    BY <2>6, HoldsFacts DEF Balanced
  <2>8. Zero \in [Node -> Nat] /\ One(target) \in [Node -> Nat] /\ UNCHANGED lost
    BY <2>3, HoldsFacts DEF history
  <2> HIDE DEF T, d
  <2> QED
    BY <1>1, <2>3, <2>4, <2>5, <2>7, <2>8, CallCounts
<1>3. CASE VfsOpen(target, fl) = "exists"
  <2>1. target \in Node
    BY <1>3 DEF VfsOpen
  <2>2. /\ ref' = [ref EXCEPT ![target] = @ + 1] /\ loaded' = (loaded \/ target = "file")
        /\ Loses(One(target), Zero) /\ UNCHANGED opens /\ Returns(p) /\ UNCHANGED fds
    BY <1>3 DEF Open, Exists
  <2>3. Users' = Users /\ \A q \in Proc : Alive(q)' <=> Alive(q)
    <3>1. Users' = Users
      BY <1>1, <2>2, Returned
    <3> QED
      BY <3>1 DEF Users
  <2>4. \A n \in Node : /\ lost'[n].refs = lost[n].refs + One(target)[n]
                        /\ lost'[n].opens = lost[n].opens + 0
                        /\ One(target)[n] = IF n = target THEN 1 ELSE 0
    BY <2>2 DEF Loses, Zero, One
  <2>5. lost' \in [Node -> [refs : Nat, opens : Nat]]
    BY <2>2, HoldsFacts DEF Loses, LossOK
  <2>6. LossOK'
    BY <2>2, <2>3, <2>5 DEF LossOK
  <2>7. ASSUME NEW n \in Node
        PROVE  /\ opens'[n] = Cardinality(Descriptors(n))' + lost'[n].opens
               /\ ref'[n] = Base(n)' + Cardinality(Descriptors(n))' + Directories(n)' + lost'[n].refs
               /\ ref[n] \in Nat
    <3>1. Descriptors(n)' = Descriptors(n) /\ Directories(n)' = Directories(n) /\ Base(n)' = Base(n)
      BY <2>2, <2>3 DEF Descriptors, Directories, Users, Cwd, Base
    <3>2. /\ opens[n] = Cardinality(Descriptors(n)) + lost[n].opens
          /\ ref[n] = Base(n) + Cardinality(Descriptors(n)) + Directories(n) + lost[n].refs
      BY DEF CountsExact
    <3>3. Descriptors(n) \in SUBSET (Proc \X Fd)
      BY DEF Descriptors
    <3>4. /\ Base(n) \in Nat /\ Directories(n) \in Nat /\ Cardinality(Descriptors(n)) \in Nat
          /\ lost[n].refs \in Nat /\ lost[n].opens \in Nat
      BY <3>3, DirectoryFacts, FiniteDescriptors DEF LossOK
    <3>5. ref'[n] = ref[n] + One(target)[n] /\ opens'[n] = opens[n]
      BY <1>1, <2>1, <2>2, <2>4 DEF TypeOK
    <3>6. One(target)[n] \in Nat
      BY <2>4
    <3> QED
      BY <2>4, <3>1, <3>2, <3>4, <3>5, <3>6
  <2>8. loaded' = (ref'["file"] > 0)
    <3>1. "file" \in Node /\ loaded = (ref["file"] > 0) /\ ref["file"] \in Nat
      BY <2>7 DEF CountsExact, Node
    <3>4. loaded' = ((ref["file"] > 0) \/ target = "file")
      BY <2>2, <3>1, Zenon
    <3>2. CASE target = "file"
      BY <1>1, <2>2, <3>1, <3>2 DEF TypeOK
    <3>3. CASE target # "file"
      <4>1. ref'["file"] = ref["file"]
        BY <1>1, <2>2, <3>3 DEF TypeOK
      <4> QED
        BY <3>3, <3>4, <4>1
    <3> QED
      BY <3>2, <3>3
  <2> QED
    BY <2>6, <2>7, <2>8 DEF CountsExact
<1>4. CASE VfsOpen(target, fl) \in {"vop_create", "vop_truncate"}
  <2>1. UNCHANGED <<state, files, history>>
    BY <1>4 DEF Open, Panics
  <2>2. Users' = Users
    BY <2>1 DEF Users, Alive
  <2> QED
    BY <2>1, <2>2, CountsKept DEF files, history, LossOK, Alive, Descriptors, EmptyTable, Unused
<1> QED
  BY <1>2, <1>3, <1>4 DEF Open

\* A step that leaves all files as they are.
LEMMA FilesKept ==
  ASSUME CountsExact, LossOK, UNCHANGED <<files, lost>>, \A q \in Proc : Alive(q)' <=> Alive(q)
  PROVE  CountsExact' /\ LossOK'
<1>1. Users' = Users /\ UNCHANGED <<fds, ref, opens, loaded, lost>>
  BY DEF Users, files
<1>2. \A n \in Node : Descriptors(n)' = Descriptors(n)
  BY <1>1 DEF Descriptors
<1>3. LossOK'
  BY <1>1 DEF LossOK, EmptyTable, Unused
<1> QED
  BY <1>1, <1>2, <1>3, CountsKept

\* Panics and what a directory has not.
LEMMA PanicCounts ==
  ASSUME CountsExact, LossOK, NEW why, Panics(why)
  PROVE  CountsExact' /\ LossOK'
<1>1. UNCHANGED <<state, files, lost>>
  BY DEF Panics, history
<1> QED
  BY <1>1, FilesKept DEF Alive

\* close gives back what the descriptor had, dup opens it once more.
LEMMA TableCallsCounts ==
  ASSUME IInv, CountsExact, LossOK, NEW p \in Proc, NEW d \in Fd, NEW e \in Fd,
         Close(p, d) \/ Dup(p, d, e) \/ ReadDirectory(p, d)
  PROVE  CountsExact' /\ LossOK'
<1>1. Calls(p) /\ IsOpen(p, d) /\ ~Reading(p) /\ TypeOK
  BY DEF Close, Dup, ReadDirectory, Calls, Reading, IInv
<1>2. fds[p] \in [Fd -> Slot] /\ \A c \in Fd : Clean(fds[p][c])
  BY <1>1, Own
<1>3. CASE Close(p, d)
  <2> DEFINE T == [c \in Fd |-> IF c \in {d} THEN Closed(fds[p][c]) ELSE fds[p][c]]
             closed == [n \in Node |-> Cardinality({c \in {d} : fds[p][c].node = n /\ fds[p][c].count = 1})]
             U == [c \in Fd |-> IF c \in {d} THEN Unused ELSE fds[p][c]]
  <2>1. fds' = [fds EXCEPT ![p] = T] /\ Recount(closed, Zero, 0) /\ Returns(p) /\ UNCHANGED lost
    BY <1>3 DEF Close, CloseSet, history
  <2>2. Closed(fds[p][d]) = Unused
    BY <1>1, Own
  <2>3. T = U /\ T \in [Fd -> Slot]
    BY <1>2, <2>2, Tables
  <2>4. fds[p][d].count = 1 /\ fds[p][d].status # "none"
    BY <1>1, <1>2 DEF Clean, IsOpen, Unused
  <2>5. ASSUME NEW n \in Node
        PROVE  /\ closed[n] \in Nat /\ closed[n] <= Holds(p, n)
               /\ Cardinality(Has(T, n)) = Holds(p, n) - closed[n] + Zero[n]
    <3> DEFINE c == Cardinality({i \in {d} : fds[p][i].status # "none" /\ fds[p][i].node = n})
    <3>1. {i \in {d} : fds[p][i].status # "none" /\ fds[p][i].node = n}
          = {i \in {d} : fds[p][i].node = n /\ fds[p][i].count = 1}
      BY <2>4
    <3>2. closed[n] = c
      BY <3>1
    <3>3. /\ Cardinality(Has(U, n)) = Cardinality(Has(fds[p], n)) - c
          /\ c \in Nat /\ c <= Cardinality(Has(fds[p], n)) /\ Cardinality(Has(U, n)) \in Nat
      BY <1>2, SlotsEmptied
    <3>4. Holds(p, n) = Cardinality(Has(fds[p], n)) /\ Holds(p, n) \in Nat /\ Zero[n] = 0
      BY HoldsFacts
    <3> HIDE DEF c, closed, T, U
    <3> QED
      BY <2>3, <3>2, <3>3, <3>4
  <2>6. closed \in [Node -> Nat]
    BY <2>5
  <2> HIDE DEF T, U, closed
  <2>7. Balanced(p, T, closed, Zero) /\ Zero \in [Node -> Nat]
    BY <2>5, HoldsFacts DEF Balanced
  <2> QED
    BY <1>1, <2>1, <2>3, <2>6, <2>7, CallCounts
<1>4. CASE Dup(p, d, e)
  <2> DEFINE m == fds[p][d].node
             T == [fds[p] EXCEPT ![e] = Opened(m)]
  <2>1. fds' = [fds EXCEPT ![p][e] = Opened(m)] /\ Recount(Zero, One(m), 0) /\ Returns(p) /\ UNCHANGED lost
        /\ fds[p][e].status = "none"
    BY <1>4 DEF Dup, history, Free
  <2>2. fds' = [fds EXCEPT ![p] = T]
    BY <2>1
  <2>3. m \in Node \union {"none"}
    BY <1>2 DEF Slot
  <2>4. T \in [Fd -> Slot]
    BY <1>2, <2>3 DEF Opened, Slot
  <2>5. \A n \in Node : Cardinality(Has(T, n)) = Cardinality(Has(fds[p], n)) + One(m)[n]
    BY <1>2, <2>1, <2>3, SlotFilled
  <2>6. Balanced(p, T, Zero, One(m)) /\ Zero \in [Node -> Nat] /\ One(m) \in [Node -> Nat]
    BY <2>5, HoldsFacts DEF Balanced
  <2> HIDE DEF T, m
  <2> QED
    BY <1>1, <2>1, <2>2, <2>4, <2>6, CallCounts
<1>5. CASE ReadDirectory(p, d)
  BY <1>5, PanicCounts DEF ReadDirectory
<1> QED
  BY <1>3, <1>4, <1>5

\* files_closeall: what exec closes and what it keeps.
LEMMA KeptFacts ==
  ASSUME IInv, NEW p \in Proc, NEW n \in Node
  PROVE  /\ Kept(p) \in [Fd -> Slot]
         /\ Cardinality(Has(Kept(p), n)) = Holds(p, n) - ClosedAll(p)[n]
         /\ ClosedAll(p)[n] \in Nat /\ ClosedAll(p)[n] <= Holds(p, n) /\ Cardinality(Has(Kept(p), n)) \in Nat
<1> DEFINE c == Cardinality({d \in AboveTwo(p) : fds[p][d].status # "none" /\ fds[p][d].node = n})
<1>1. fds[p] \in [Fd -> Slot] /\ AboveTwo(p) \in SUBSET Fd
  BY DEF IInv, TypeOK, AboveTwo
<1>2. {d \in AboveTwo(p) : fds[p][d].status # "none" /\ fds[p][d].node = n} = {d \in AboveTwo(p) : fds[p][d].node = n}
  BY DEF AboveTwo, IsOpen
<1>3. ClosedAll(p)[n] = c
  BY <1>2 DEF ClosedAll
<1>4. Kept(p) \in [Fd -> Slot]
  BY <1>1, Tables DEF Kept
<1>5. /\ Cardinality(Has(Kept(p), n)) = Cardinality(Has(fds[p], n)) - c
      /\ c \in Nat /\ c <= Cardinality(Has(fds[p], n)) /\ Cardinality(Has(Kept(p), n)) \in Nat
  BY <1>1, SlotsEmptied DEF Kept
<1>6. Holds(p, n) = Cardinality(Has(fds[p], n))
  BY HoldsFacts
<1> QED
  BY <1>3, <1>4, <1>5, <1>6

\* exec: the descriptors from 2 on are closed and the program is opened.
LEMMA ExecCounts ==
  ASSUME IInv, CountsExact, LossOK, NEW p \in Proc, Exec(p) PROVE CountsExact' /\ LossOK'
<1>1. Calls(p) /\ Slots(p) # {} /\ TypeOK
  BY DEF Exec, IInv
<1> DEFINE d == Lowest(Slots(p))
           T == [Kept(p) EXCEPT ![d] = Opened("file")]
<1>2. fds' = [fds EXCEPT ![p] = T] /\ Recount(ClosedAll(p), One("file"), 0) /\ Returns(p) /\ UNCHANGED lost
  BY DEF Exec, history
<1>3. "file" \in Node
  BY DEF Node
<1>4. Kept(p) \in [Fd -> Slot]
  BY <1>3, KeptFacts
<1>5. d \in Fd /\ Kept(p)[d].status = "none"
  <2>1. Slots(p) \in SUBSET Fd
    BY DEF Slots
  <2>2. d \in Slots(p)
    BY <1>1, <2>1, LowestIn
  <2> QED
    BY <2>2 DEF Slots
<1>6. T \in [Fd -> Slot]
  BY <1>3, <1>4, Tables
<1>7. \A n \in Node : Cardinality(Has(T, n)) = Cardinality(Has(Kept(p), n)) + One("file")[n]
  BY <1>3, <1>4, <1>5, SlotFilled
<1> HIDE DEF T, d
<1>8. ASSUME NEW n \in Node
      PROVE  /\ ClosedAll(p)[n] <= Holds(p, n)
             /\ Cardinality(Has(T, n)) = Holds(p, n) - ClosedAll(p)[n] + One("file")[n]
  <2>1. /\ Cardinality(Has(Kept(p), n)) = Holds(p, n) - ClosedAll(p)[n]
        /\ ClosedAll(p)[n] \in Nat /\ ClosedAll(p)[n] <= Holds(p, n)
    BY KeptFacts
  <2> QED
    BY <1>7, <2>1
<1>9. Balanced(p, T, ClosedAll(p), One("file"))
  BY <1>8 DEF Balanced
<1>10. ClosedAll(p) \in [Node -> Nat] /\ One("file") \in [Node -> Nat]
  <2>1. \A n \in Node : ClosedAll(p)[n] \in Nat
    BY KeptFacts
  <2>2. ClosedAll(p) = [n \in Node |-> ClosedAll(p)[n]]
    BY DEF ClosedAll
  <2> QED
    BY <2>1, <2>2, HoldsFacts
<1> QED
  BY <1>1, <1>2, <1>6, <1>9, <1>10, CallCounts

\* fork: what the parent has open is opened once more for the child.
LEMMA ForkCounts ==
  ASSUME IInv, CountsExact, LossOK, NEW p \in Proc, NEW q \in Proc, Fork(p, q) PROVE CountsExact' /\ LossOK'
<1> DEFINE T == [d \in Fd |-> IF IsOpen(p, d) THEN Opened(fds[p][d].node) ELSE Unused]
           opened == [n \in Node |-> Holds(p, n)]
<1>1. /\ state[p] = "ready" /\ state[q] = "none" /\ TypeOK /\ ~Reading(p)
      /\ state' = [state EXCEPT ![q] = "ready", ![p] = IF killed[p] THEN "leaving" ELSE "ready"]
      /\ fds' = [fds EXCEPT ![q] = T] /\ Recount(Zero, opened, 1) /\ UNCHANGED lost
  BY DEF Fork, Calls, history, IInv, Reading
<1>2. fds[p] \in [Fd -> Slot] /\ \A d \in Fd : Clean(fds[p][d])
  BY <1>1, Own
<1>3. T \in [Fd -> Slot]
  BY <1>2, Tables DEF Opened, Slot
<1>4. \A n \in Node : Has(T, n) = Has(fds[p], n)
  BY <1>2 DEF Has, IsOpen, Opened, Unused, Clean
<1>5. fds[q] = EmptyTable
  BY <1>1 DEF LossOK, Alive
<1>6. \A n \in Node : Has(fds[q], n) = {}
  BY <1>5 DEF Has, EmptyTable, Unused
<1>7. opened \in [Node -> Nat] /\ Zero \in [Node -> Nat]
  BY HoldsFacts
<1>8. /\ state'[q] = "ready" /\ state'[p] \in {"ready", "leaving"}
      /\ \A r \in Proc \ {p, q} : state'[r] = state[r]
  BY <1>1 DEF TypeOK
<1>9. Users' = Users \union {q} /\ q \notin Users
  BY <1>1, <1>8 DEF Users, Alive
<1>10. Cardinality(Users)' = Cardinality(Users) + 1 /\ Cardinality(Users) \in Nat
  <2>1. IsFiniteSet(Users) /\ Cardinality(Users) \in Nat
    BY Counting DEF Users
  <2> QED
    BY <1>9, <2>1, FS_AddElement
<1>11. ASSUME NEW n \in Node
       PROVE  /\ Zero[n] <= Holds(q, n)
              /\ Cardinality(Has(T, n)) + lost'[n].opens - lost[n].opens = Holds(q, n) - Zero[n] + opened[n]
              /\ Cwd(n) = 1 => Cardinality(Users)' + lost'[n].refs - lost[n].refs
                               = Cardinality(Users) + 1 + lost'[n].opens - lost[n].opens
              /\ Cwd(n) = 0 => lost'[n].refs - lost[n].refs = lost'[n].opens - lost[n].opens
  <2>1. Holds(q, n) = 0
    BY <1>6, HoldsFacts, FS_EmptySet
  <2>2. Cardinality(Has(T, n)) = Holds(p, n) /\ Holds(p, n) \in Nat /\ Zero[n] = 0 /\ opened[n] = Holds(p, n)
    BY <1>4, HoldsFacts
  <2>3. lost[n].refs \in Nat /\ lost[n].opens \in Nat /\ lost'[n] = lost[n]
    BY <1>1 DEF LossOK
  <2> HIDE DEF T, opened
  <2> QED
    BY <1>10, <2>1, <2>2, <2>3
<1> HIDE DEF T, opened
<1>12. Settled(q, T, Zero, opened, 1)
  BY <1>11 DEF Settled
<1>13. lost' \in [Node -> [refs : Nat, opens : Nat]] /\ Cardinality(Users)' \in Nat /\ 1 \in Int
  BY <1>1, <1>10 DEF LossOK
<1>14. CountsExact'
  BY <1>1, <1>3, <1>7, <1>12, <1>13, CountStep
<1>15. LossOK'
  BY <1>1, <1>8, <1>13 DEF LossOK, Alive, TypeOK
<1> QED
  BY <1>14, <1>15

\* What p held and did not close is lost, and its directory unless k gives it back.
Left(p, closed, opened, k) ==
  \A n \in Node :
    /\ closed[n] <= Holds(p, n)
    /\ lost'[n].opens = lost[n].opens + (Holds(p, n) - closed[n] + opened[n])
    /\ lost'[n].refs - lost[n].refs = lost'[n].opens - lost[n].opens + IF Cwd(n) = 1 THEN k + 1 ELSE 0

\* A process that ends gives back what it held, or what it held is lost.
LEMMA EndCounts ==
  ASSUME IInv, CountsExact, LossOK, NEW p \in Proc, Alive(p), ~Reading(p),
         state' = [state EXCEPT ![p] = "zombie"], fds' = [fds EXCEPT ![p] = EmptyTable],
         UNCHANGED <<killed, stdin, typed, overrun>>,
         NEW closed \in [Node -> Nat], NEW opened \in [Node -> Nat], NEW k \in Int, Recount(closed, opened, k),
         lost' \in [Node -> [refs : Nat, opens : Nat]],
         Left(p, closed, opened, k)
  PROVE  CountsExact' /\ LossOK'
<1>1. /\ state' \in [Proc -> States] /\ fds' \in [Proc -> [Fd -> Slot]]
      /\ Cardinality(Users)' = Cardinality(Users) - 1 /\ Cardinality(Users)' \in Nat
      /\ Cardinality(Users) \in Nat
  BY EndKeeps
<1>2. TypeOK /\ EmptyTable \in [Fd -> Slot]
  BY Tables DEF IInv
<1>3. ASSUME NEW n \in Node
      PROVE  /\ closed[n] <= Holds(p, n)
             /\ Cardinality(Has(EmptyTable, n)) + lost'[n].opens - lost[n].opens = Holds(p, n) - closed[n] + opened[n]
             /\ Cwd(n) = 1 => Cardinality(Users)' + lost'[n].refs - lost[n].refs
                              = Cardinality(Users) + k + lost'[n].opens - lost[n].opens
             /\ Cwd(n) = 0 => lost'[n].refs - lost[n].refs = lost'[n].opens - lost[n].opens
  <2>1. Has(EmptyTable, n) = {}
    BY DEF Has, EmptyTable, Unused
  <2>2. Cardinality(Has(EmptyTable, n)) = 0
    BY <2>1, FS_EmptySet
  <2>3. /\ lost[n].refs \in Nat /\ lost[n].opens \in Nat /\ lost'[n].refs \in Nat /\ lost'[n].opens \in Nat
        /\ Holds(p, n) \in Nat
    BY HoldsFacts DEF LossOK
  <2>4. /\ closed[n] <= Holds(p, n)
        /\ lost'[n].opens = lost[n].opens + (Holds(p, n) - closed[n] + opened[n])
        /\ lost'[n].refs - lost[n].refs = lost'[n].opens - lost[n].opens + IF Cwd(n) = 1 THEN k + 1 ELSE 0
    BY DEF Left
  <2> QED
    BY <1>1, <2>2, <2>3, <2>4
<1>4. Settled(p, EmptyTable, closed, opened, k)
  BY <1>3 DEF Settled
<1>5. CountsExact'
  BY <1>1, <1>2, <1>4, CountStep
<1>6. fds'[p] = EmptyTable /\ \A q \in Proc \ {p} : fds'[q] = fds[q] /\ state'[q] = state[q]
  BY <1>2 DEF TypeOK
<1>7. LossOK'
  BY <1>6 DEF LossOK, Alive, EmptyTable, Unused
<1> QED
  BY <1>5, <1>7

\* exit gives everything back.
LEMMA ExitCounts ==
  ASSUME IInv, CountsExact, LossOK, NEW p \in Proc, Exit(p) PROVE CountsExact' /\ LossOK'
<1>1. ~Reading(p) /\ Alive(p)
  BY DEF Exit, Reading, Alive
<1>2. \A d \in Fd : fds[p][d].status # "closed" /\ ~(fds[p][d].count > 1)
  BY <1>1, Own DEF Clean, Unused
<1> DEFINE closed == [n \in Node |-> Holds(p, n)]
<1>3. /\ state' = [state EXCEPT ![p] = "zombie"] /\ fds' = [fds EXCEPT ![p] = EmptyTable]
      /\ Recount(closed, Zero, -1)
      /\ UNCHANGED <<killed, stdin, typed, overrun, lost>>
  BY <1>2 DEF Exit, history
<1>4. closed \in [Node -> Nat] /\ Zero \in [Node -> Nat] /\ lost' \in [Node -> [refs : Nat, opens : Nat]] /\ -1 \in Int
  BY <1>3, HoldsFacts DEF LossOK
<1>5. ASSUME NEW n \in Node
      PROVE  /\ closed[n] <= Holds(p, n)
             /\ lost'[n].opens = lost[n].opens + (Holds(p, n) - closed[n] + Zero[n])
             /\ lost'[n].refs - lost[n].refs
                = lost'[n].opens - lost[n].opens + IF Cwd(n) = 1 THEN -1 + 1 ELSE 0
  <2>1. closed[n] = Holds(p, n) /\ Zero[n] = 0 /\ Holds(p, n) \in Nat
    BY HoldsFacts
  <2>2. lost[n].refs \in Nat /\ lost[n].opens \in Nat /\ lost'[n] = lost[n]
    BY <1>3 DEF LossOK
  <2> HIDE DEF closed
  <2> QED
    BY <2>1, <2>2
<1> HIDE DEF closed
<1>6. Left(p, closed, Zero, -1)
  BY <1>5 DEF Left
<1> QED
  BY <1>1, <1>3, <1>4, <1>6, EndCounts

\* exec of what load_icode refuses: everything left is lost, the directory too.
LEMMA ExecLoadsNothingCounts ==
  ASSUME IInv, CountsExact, LossOK, NEW p \in Proc, NEW target \in {"file", "stdin"}, ExecLoadsNothing(p, target)
  PROVE  CountsExact' /\ LossOK'
<1>1. ~Reading(p) /\ Alive(p)
  BY DEF ExecLoadsNothing, Calls, Reading, Alive
<1> DEFINE left(n) == Cardinality(Has(Kept(p), n)) + One(target)[n]
           refs == [n \in Node |-> left(n) + Cwd(n)]
           gone == [n \in Node |-> left(n)]
<1>2. /\ state' = [state EXCEPT ![p] = "zombie"] /\ fds' = [fds EXCEPT ![p] = EmptyTable]
      /\ Recount(ClosedAll(p), One(target), 0)
      /\ Loses(refs, gone)
      /\ UNCHANGED <<killed, stdin, typed, overrun>>
  BY DEF ExecLoadsNothing, Has
<1>3. ASSUME NEW n \in Node
      PROVE  /\ Cardinality(Has(Kept(p), n)) = Holds(p, n) - ClosedAll(p)[n]
             /\ ClosedAll(p)[n] \in Nat /\ ClosedAll(p)[n] <= Holds(p, n) /\ Holds(p, n) \in Nat
             /\ Cardinality(Has(Kept(p), n)) \in Nat /\ One(target)[n] \in Nat
             /\ Cwd(n) \in {0, 1}
             /\ lost[n].refs \in Nat /\ lost[n].opens \in Nat
  <2>1. One(target)[n] \in Nat /\ lost[n].refs \in Nat /\ lost[n].opens \in Nat
    BY HoldsFacts DEF LossOK
  <2> QED
    BY <2>1, KeptFacts, HoldsFacts, DirectoryFacts
<1>4. ClosedAll(p) \in [Node -> Nat] /\ One(target) \in [Node -> Nat]
  <2>1. ClosedAll(p) = [n \in Node |-> ClosedAll(p)[n]]
    BY DEF ClosedAll
  <2> QED
    BY <1>3, <2>1, HoldsFacts
<1>5. ASSUME NEW n \in Node
      PROVE  lost'[n].refs = lost[n].refs + (left(n) + Cwd(n)) /\ lost'[n].opens = lost[n].opens + left(n)
  BY <1>2 DEF Loses
<1>6. ASSUME NEW n \in Node PROVE left(n) \in Nat /\ left(n) = Holds(p, n) - ClosedAll(p)[n] + One(target)[n]
  BY <1>3
<1> HIDE DEF left
<1>7. lost' \in [Node -> [refs : Nat, opens : Nat]]
  <2>1. \A n \in Node : lost[n].refs + refs[n] \in Nat /\ lost[n].opens + gone[n] \in Nat
    BY <1>3, <1>6
  <2> HIDE DEF refs, gone
  <2> QED
    BY <1>2, <2>1 DEF Loses
<1>8. ASSUME NEW n \in Node
      PROVE  /\ ClosedAll(p)[n] <= Holds(p, n)
             /\ lost'[n].opens = lost[n].opens + (Holds(p, n) - ClosedAll(p)[n] + One(target)[n])
             /\ lost'[n].refs - lost[n].refs
                = lost'[n].opens - lost[n].opens + IF Cwd(n) = 1 THEN 0 + 1 ELSE 0
  BY <1>3, <1>5, <1>6
<1> HIDE DEF refs, gone
<1>9. Left(p, ClosedAll(p), One(target), 0)
  BY <1>8 DEF Left
<1>10. 0 \in Int
  OBVIOUS
<1> QED
  BY <1>1, <1>2, <1>4, <1>7, <1>9, <1>10, EndCounts

\* wait, kill, and the keyboard open and close nothing.
LEMMA ProcessCounts ==
  ASSUME IInv, CountsExact, LossOK, NEW p \in Proc, NEW q \in Proc, Reap(p) \/ Kill(p, q) \/ Type
  PROVE  CountsExact' /\ LossOK'
<1>1. UNCHANGED <<files, lost>>
  BY DEF Reap, Kill, Type, history
<1>2. ASSUME NEW r \in Proc PROVE Alive(r)' <=> Alive(r)
  <2>1. CASE Reap(p)
    BY <2>1 DEF Reap, IInv, TypeOK, Alive
  <2>2. CASE Kill(p, q)
    BY <2>2 DEF Kill, Calls, IInv, TypeOK, Alive
  <2>3. CASE Type
    <3>1. r \in queue => Reading(r)
      BY DEF IInv, KeyOK
    <3> QED
      BY <2>3, <3>1 DEF Type, WakesReaders, IInv, TypeOK, Alive, Reading
  <2> QED
    BY <2>1, <2>2, <2>3
<1> QED
  BY <1>1, <1>2, FilesKept

\* A read counts the file once more while it lasts, and opens nothing.
LEMMA ReadCounts ==
  ASSUME IInv, CountsExact, LossOK,
         NEW p \in Proc, NEW d \in Fd, NEW want \in 1 .. BUFSIZE, Read(p, d, want) \/ Resume(p)
  PROVE  CountsExact' /\ LossOK'
<1>1. TypeOK
  BY DEF IInv
<1>2. UNCHANGED <<ref, opens, loaded, lost>> /\ Alive(p) /\ state[p] \in {"ready", "woken"}
  BY DEF Read, Resume, Calls, Alive, history
<1>3. /\ state' = [state EXCEPT ![p] = "asleep"] \/ Returns(p)
      /\ \/ fds' = fds
         \/ fds' = [fds EXCEPT ![p][d].count = @ + 1]
         \/ fds' = [fds EXCEPT ![p][reading[p].fd].count = @ - 1]
  BY DEF Read, Resume, Sleeps, ReadReturns
<1>4. /\ \A q \in Proc : Alive(q)' <=> Alive(q)
      /\ Users' = Users
  <2>1. \A q \in Proc : Alive(q)' <=> Alive(q)
    BY <1>1, <1>2, <1>3 DEF Returns, TypeOK, Alive
  <2> QED
    BY <2>1 DEF Users
<1>5. \A q \in Proc, c \in Fd : fds'[q][c].status = fds[q][c].status /\ fds'[q][c].node = fds[q][c].node
  <2>1. reading[p].fd \in Fd
    BY <1>1 DEF TypeOK, Calling
  <2>2. \A q \in Proc : fds[q] \in [Fd -> Slot]
    BY <1>1 DEF TypeOK
  <2>3. CASE fds' = [fds EXCEPT ![p][d].count = @ + 1]
    BY <1>1, <2>2, <2>3 DEF TypeOK, Slot
  <2>4. CASE fds' = [fds EXCEPT ![p][reading[p].fd].count = @ - 1]
    BY <1>1, <2>1, <2>2, <2>4 DEF TypeOK, Slot
  <2> QED
    BY <1>3, <2>3, <2>4
<1>6. \A n \in Node : Descriptors(n)' = Descriptors(n)
  BY <1>5 DEF Descriptors
<1>7. CountsExact'
  BY <1>2, <1>4, <1>6, CountsKept
<1>8. ASSUME NEW q \in Proc, ~Alive(q) PROVE fds'[q] = fds[q]
  BY <1>1, <1>2, <1>3, <1>8 DEF TypeOK
<1>9. LossOK'
  BY <1>2, <1>4, <1>8 DEF LossOK, EmptyTable, Unused
<1> QED
  BY <1>7, <1>9

\* user_main begins with no file and the root for its directory.
LEMMA StartCounts == Start => CountsExact /\ LossOK
<1> SUFFICES ASSUME Start PROVE CountsExact /\ LossOK
  OBVIOUS
<1>1. PICK p \in Proc : state = [q \in Proc |-> IF q = p THEN "ready" ELSE "none"]
  BY DEF Start
<1>2. Users = {p} /\ Cardinality({p}) = 1
  BY <1>1, FS_Singleton DEF Users, Alive
<1>3. \A n \in Node : Descriptors(n) = {}
  BY DEF Start, Descriptors, EmptyTable, Unused
<1>4. \A n \in Node : Cardinality(Descriptors(n)) = 0
  BY <1>3, FS_EmptySet
<1>5. LossOK
  BY DEF Start, LossOK, NoLoss
<1>6. ASSUME NEW n \in Node
      PROVE  /\ opens[n] = Cardinality(Descriptors(n)) + lost[n].opens
             /\ ref[n] = Base(n) + Cardinality(Descriptors(n)) + Directories(n) + lost[n].refs
  <2>1. Directories(n) = IF Cwd(n) = 1 THEN 1 ELSE 0
    BY <1>2, DirectoryFacts
  <2>2. lost[n].refs = 0 /\ lost[n].opens = 0 /\ opens[n] = 0 /\ ref[n] = Base(n) + Cwd(n)
    BY DEF Start, NoLoss
  <2> QED
    BY <1>4, <2>1, <2>2, DirectoryFacts
<1>7. loaded = (ref["file"] > 0)
  <2>1. ref["file"] = 0 /\ loaded = FALSE
    BY DEF Start, Base, Cwd, Node
  <2>2. (ref["file"] > 0) = FALSE
    BY <2>1
  <2> QED
    BY <2>1, <2>2
<1> QED
  BY <1>5, <1>6, <1>7 DEF CountsExact

\* Every step keeps the counts.
LEMMA NextCounts ==
  ASSUME IInv, CountsExact, LossOK, [Next]_vars PROVE CountsExact' /\ LossOK'
<1>1. CASE UNCHANGED vars
  BY <1>1, FilesKept DEF vars, history, Alive
<1>2. ASSUME NEW p \in Proc, NEW target \in Node \union {"missing"}, NEW fl \in Flags, Open(p, target, fl)
      PROVE  CountsExact' /\ LossOK'
  BY <1>2, OpenCounts
<1>3. ASSUME NEW p \in Proc, NEW d \in Fd, NEW e \in Fd, Close(p, d) \/ ReadDirectory(p, d) \/ Dup(p, d, e)
      PROVE  CountsExact' /\ LossOK'
  BY <1>3, TableCallsCounts
<1>4. ASSUME NEW p \in Proc, NEW q \in Proc, Fork(p, q) \/ Kill(p, q) \/ Reap(p) PROVE CountsExact' /\ LossOK'
  BY <1>4, ForkCounts, ProcessCounts
<1>5. ASSUME NEW p \in Proc, Exit(p) \/ Exec(p) \/ ExecDirectory(p) PROVE CountsExact' /\ LossOK'
  BY <1>5, ExitCounts, ExecCounts, PanicCounts DEF ExecDirectory
<1>6. ASSUME NEW p \in Proc, Resume(p) PROVE CountsExact' /\ LossOK'
  <2>1. 0 \in Fd /\ 1 \in 1 .. BUFSIZE
    BY FilesAssumption DEF Fd
  <2> QED
    BY <1>6, <2>1, ReadCounts
<1>7. ASSUME NEW p \in Proc, NEW target \in Node \union {"missing"}, ExecOpensNothing(p, target)
      PROVE  CountsExact' /\ LossOK'
  BY <1>7, ExitCounts DEF ExecOpensNothing
<1>8. ASSUME NEW p \in Proc, NEW target \in {"file", "stdin"}, ExecLoadsNothing(p, target)
      PROVE  CountsExact' /\ LossOK'
  BY <1>8, ExecLoadsNothingCounts
<1>9. ASSUME NEW p \in Proc, NEW d \in Fd, NEW want \in 1 .. BUFSIZE, Read(p, d, want)
      PROVE  CountsExact' /\ LossOK'
  BY <1>9, ReadCounts
<1>10. CASE Type
  <2>1. queue \subseteq Proc /\ UNCHANGED <<files, lost>>
    BY <1>10 DEF Type, IInv, TypeOK
  <2>2. \A r \in Proc : Alive(r)' <=> Alive(r)
    BY <1>10, ProcessCounts DEF Type, WakesReaders, IInv, TypeOK, KeyOK, Alive, Reading
  <2> QED
    BY <2>1, <2>2, FilesKept
<1> QED
  BY <1>1, <1>2, <1>3, <1>4, <1>5, <1>6, <1>7, <1>8, <1>9, <1>10 DEF Next

\* inode_ref_count and inode_open_count are what the descriptors and directories of all
\* processes come to, and what the two leaks left, for any number of either.
THEOREM CountsAgree == Spec => []CountsExact
<1>1. Start => IInv /\ CountsExact /\ LossOK
  BY StartInv, StartCounts
<1>2. IInv /\ CountsExact /\ LossOK /\ [Next]_vars => (IInv /\ CountsExact /\ LossOK)'
  BY NextInv, NextCounts
<1> QED
  BY <1>1, <1>2, PTL DEF Spec

=============================================================================
