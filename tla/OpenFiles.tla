----------------------------- MODULE OpenFiles -----------------------------
(***************************************************************************)
(* The open file tables of the processes of lab8, the two counts of the    *)
(* inodes they refer to, and the stdin device, in which readers sleep.     *)
(*                                                                         *)
(* Each process has a files_struct of its own: no caller of do_fork passes *)
(* CLONE_FS.  The kernel is not preemptive and stdin is the only file that *)
(* sleeps, so every other call is one step; the keyboard is looked at by   *)
(* the clock interrupt, between two steps.  FD_INIT and FD_CLOSED last     *)
(* only within a step.                                                     *)
(***************************************************************************)
EXTENDS Integers, FiniteSets

CONSTANTS
  Proc,      \* user processes
  NFD,       \* FILES_STRUCT_NENTRY
  BUFSIZE,   \* STDIN_BUFSIZE
  MaxTyped,  \* bound: characters typed
  MaxLost,   \* bound: times that references are lost
  MaxOpens   \* bound: opens of all inodes together

ASSUME FilesAssumption ==
  /\ IsFiniteSet(Proc) /\ NFD \in Nat \ {0} /\ BUFSIZE \in Nat \ {0} /\ MaxTyped \in Nat /\ MaxLost \in Nat /\ MaxOpens \in Nat

VARIABLES
  state,    \* none, ready, asleep or woken in a read of stdin, leaving, zombie
  fds,      \* fd_array of each process: status, inode and fopen_count of each file
  ref,      \* inode_ref_count of each inode
  opens,    \* inode_open_count
  loaded,   \* the regular file has an inode in memory
  killed,   \* PF_EXITING
  queue,    \* processes in the wait queue of stdin
  flag,     \* wakeup_flags of a reader: WT_KBD or WT_INTERRUPTED
  reading,  \* the fd, the length asked and the characters got by a reader
  ring,     \* stdin_buffer, of characters numbered as they are typed
  rpos, wpos,
  typed,    \* history: characters typed
  overrun,  \* history: a character was typed into a full buffer
  lost,     \* history: references and opens of each inode that nobody can give back
  losses,   \* history: how often references were lost
  panic

files == <<fds, ref, opens, loaded>>
stdin == <<queue, flag, reading, ring, rpos, wpos>>
history == <<typed, overrun, lost, losses>>
vars == <<state, files, killed, stdin, history, panic>>

Node == {"root", "file", "stdin"}
Fd == 0 .. NFD - 1
Unused == [status |-> "none", node |-> "none", count |-> 0]
Opened(n) == [status |-> "opened", node |-> n, count |-> 1]
EmptyTable == [d \in Fd |-> Unused]
NotReading == [fd |-> 0, want |-> 0, got |-> 0]
NoLoss == [n \in Node |-> [refs |-> 0, opens |-> 0]]

\* The references the kernel keeps for itself: bootfs and initproc's directory,
\* and the entry of the device table.
Base(n) == IF n = "root" THEN 2 ELSE IF n = "stdin" THEN 1 ELSE 0

\* Processes with a file table, whose working directory is the root.
Alive(p) == state[p] \notin {"none", "zombie"}
IsOpen(p, d) == fds[p][d].status = "opened"
Holds(p, n) == Cardinality({d \in Fd : fds[p][d].status # "none" /\ fds[p][d].node = n})
Cwd(n) == IF n = "root" THEN 1 ELSE 0

Free(p) == {d \in Fd : fds[p][d].status = "none"}
Lowest(slots) == CHOOSE d \in slots : \A e \in slots : d <= e

\* A system call of p, from user mode to the end of its trap, where a killed
\* process leaves.  It may have been killed since the end of its last trap.
Calls(p) == panic = "none" /\ state[p] = "ready"
Returns(p) == state' = [state EXCEPT ![p] = IF killed[p] THEN "leaving" ELSE "ready"]
Panics(why) == panic' = why /\ UNCHANGED <<state, files, killed, stdin, history>>

\* The process from which all others descend: user_main, forked from initproc.
Start ==
  /\ \E p \in Proc :
       state = [q \in Proc |-> IF q = p THEN "ready" ELSE "none"]
  /\ fds = [p \in Proc |-> EmptyTable]
  /\ ref = [n \in Node |-> Base(n) + Cwd(n)]
  /\ opens = [n \in Node |-> 0]
  /\ loaded = FALSE
  /\ killed = [p \in Proc |-> FALSE]
  /\ queue = {}
  /\ flag = [p \in Proc |-> "none"]
  /\ reading = [p \in Proc |-> NotReading]
  /\ ring = [i \in 0 .. BUFSIZE - 1 |-> 0]
  /\ rpos = 0 /\ wpos = 0
  /\ typed = 0 /\ overrun = FALSE
  /\ lost = NoLoss /\ losses = 0
  /\ panic = "none"

(***************************************************************************)
(* Counts.  sfs_load_inode finds the inode of a file in memory or reads it *)
(* from the disk; the last vop_ref_dec has sfs_reclaim take it away.       *)
(***************************************************************************)
\* vfs_close of the descriptors counted by closed, vfs_lookup and vop_open_inc of those
\* counted by opened, and k working directories more.
Recount(closed, opened, k) ==
  /\ ref' = [n \in Node |-> ref[n] - closed[n] + opened[n] + k * Cwd(n)]
  /\ opens' = [n \in Node |-> opens[n] - closed[n] + opened[n]]
  /\ opens'["root"] + opens'["file"] + opens'["stdin"] <= MaxOpens
  /\ loaded' = (opened["file"] > 0 \/ (loaded /\ ref'["file"] > 0))

Zero == [n \in Node |-> 0]
One(n) == [m \in Node |-> IF m = n THEN 1 ELSE 0]

\* References gone for good.
Loses(refs, opened) ==
  /\ losses < MaxLost
  /\ losses' = losses + 1
  /\ lost' = [n \in Node |-> [refs |-> lost[n].refs + refs[n], opens |-> lost[n].opens + opened[n]]]

(***************************************************************************)
(* file_open with vfs_open.  The flags: access mode and O_CREAT, O_EXCL,   *)
(* O_TRUNC, O_APPEND.                                                      *)
(***************************************************************************)
Flags == [write : BOOLEAN, creat : BOOLEAN, excl : BOOLEAN, trunc : BOOLEAN, append : BOOLEAN]

\* vop_open of each kind of inode: sfs_opendir, sfs_openfile, dev_open, stdin_open.
OpenRefused(n, fl) ==
  \/ n = "root" /\ (fl.write \/ fl.append)
  \/ n = "stdin" /\ (fl.write \/ fl.creat \/ fl.excl \/ fl.trunc \/ fl.append)

\* What vfs_open comes to.  O_EXCL and O_CREAT on a file that is there returns with
\* the reference of the lookup; a missing vop_ operation is a failed assertion.
VfsOpen(target, fl) ==
  IF fl.trunc /\ ~fl.write THEN "refused"
  ELSE IF target = "missing" THEN IF fl.creat THEN "vop_create" ELSE "refused"
  ELSE IF fl.excl /\ fl.creat THEN "exists"
  ELSE IF OpenRefused(target, fl) THEN "refused"
  ELSE IF target = "root" /\ (fl.trunc \/ fl.creat) THEN "vop_truncate"
  ELSE "opened"

\* -E_EXISTS, with the reference that vfs_lookup took.
Exists(p, target) ==
  /\ ref' = [ref EXCEPT ![target] = @ + 1]
  /\ loaded' = (loaded \/ target = "file")
  /\ Loses(One(target), Zero)
  /\ UNCHANGED opens

Open(p, target, fl) ==
  /\ Calls(p)
  /\ Free(p) # {}
  /\ \/ /\ VfsOpen(target, fl) = "opened"
        /\ fds' = [fds EXCEPT ![p][Lowest(Free(p))] = Opened(target)]
        /\ Recount(Zero, One(target), 0)
        /\ Returns(p)
        /\ UNCHANGED <<killed, stdin, history, panic>>
     \/ /\ VfsOpen(target, fl) = "exists"
        /\ Exists(p, target)
        /\ Returns(p)
        /\ UNCHANGED <<fds, killed, stdin, typed, overrun, panic>>
     \/ /\ VfsOpen(target, fl) \in {"vop_create", "vop_truncate"}
        /\ Panics(VfsOpen(target, fl))

\* fd_array_close: a file in use by another call stays FD_CLOSED.
Closed(f) == IF f.count = 1 THEN Unused ELSE [f EXCEPT !.status = "closed", !.count = @ - 1]
CloseSet(p, ds) ==
  /\ fds' = [fds EXCEPT ![p] = [d \in Fd |-> IF d \in ds THEN Closed(fds[p][d]) ELSE fds[p][d]]]
  /\ Recount([n \in Node |-> Cardinality({d \in ds : fds[p][d].node = n /\ fds[p][d].count = 1})], Zero, 0)

Close(p, d) ==
  /\ Calls(p) /\ IsOpen(p, d)
  /\ CloseSet(p, {d})
  /\ Returns(p)
  /\ UNCHANGED <<killed, stdin, history, panic>>

\* file_dup: to a given descriptor, or to the lowest free one.
Dup(p, d, e) ==
  /\ Calls(p) /\ IsOpen(p, d) /\ e \in Free(p)
  /\ fds' = [fds EXCEPT ![p][e] = Opened(fds[p][d].node)]
  /\ Recount(Zero, One(fds[p][d].node), 0)
  /\ Returns(p)
  /\ UNCHANGED <<killed, stdin, history, panic>>

\* file_read and file_seek of a directory: the inode has no such operation.
ReadDirectory(p, d) ==
  /\ Calls(p) /\ IsOpen(p, d) /\ fds[p][d].node = "root"
  /\ \E why \in {"vop_read", "vop_tryseek"} : Panics(why)

(***************************************************************************)
(* fork, exec, exit, wait and kill, as far as the file tables go           *)
(***************************************************************************)
\* Mutant: dup_files opens the files of the child without a reference.
ForkForgetsRef(p, q) ==
  /\ Calls(p) /\ state[q] = "none"
  /\ state' = [state EXCEPT ![q] = "ready", ![p] = IF killed[p] THEN "leaving" ELSE "ready"]
  /\ fds' = [fds EXCEPT ![q] = [d \in Fd |-> IF IsOpen(p, d) THEN Opened(fds[p][d].node) ELSE Unused]]
  /\ ref' = [n \in Node |-> ref[n] + Cwd(n)]
  /\ opens' = [n \in Node |-> opens[n] + Holds(p, n)]
  /\ UNCHANGED <<loaded, killed, stdin, history, panic>>

\* copy_files with dup_files: each open descriptor is opened once more.
Fork(p, q) ==
  /\ Calls(p) /\ state[q] = "none"
  /\ state' = [state EXCEPT ![q] = "ready", ![p] = IF killed[p] THEN "leaving" ELSE "ready"]
  /\ fds' = [fds EXCEPT ![q] = [d \in Fd |-> IF IsOpen(p, d) THEN Opened(fds[p][d].node) ELSE Unused]]
  /\ Recount(Zero, [n \in Node |-> Holds(p, n)], 1)
  /\ UNCHANGED <<killed, stdin, history, panic>>

\* do_exit of a process that has its mm: put_files and files_destroy close every open
\* descriptor, and assert that no descriptor is left in use.
Exit(p) ==
  /\ panic = "none" /\ state[p] \in {"ready", "leaving"}
  /\ IF \E d \in Fd : fds[p][d].status = "closed" \/ fds[p][d].count > 1
     THEN Panics("files_destroy")
     ELSE /\ state' = [state EXCEPT ![p] = "zombie"]
          /\ fds' = [fds EXCEPT ![p] = EmptyTable]
          /\ Recount([n \in Node |-> Holds(p, n)], Zero, -1)
          /\ UNCHANGED <<killed, stdin, history, panic>>

\* What files_closeall closes: everything from descriptor 2 on that is open.
AboveTwo(p) == {d \in Fd : d >= 2 /\ IsOpen(p, d)}
ClosedAll(p) == [n \in Node |-> Cardinality({d \in AboveTwo(p) : fds[p][d].node = n})]
Kept(p) == [d \in Fd |-> IF d \in AboveTwo(p) THEN Unused ELSE fds[p][d]]
Slots(p) == {d \in Fd : Kept(p)[d].status = "none"}

\* do_execve of a program: the fd of the program is never closed.
Exec(p) ==
  /\ Calls(p) /\ Slots(p) # {}
  /\ fds' = [fds EXCEPT ![p] = [Kept(p) EXCEPT ![Lowest(Slots(p))] = Opened("file")]]
  /\ Recount(ClosedAll(p), One("file"), 0)
  /\ Returns(p)
  /\ UNCHANGED <<killed, stdin, history, panic>>

\* do_execve of what cannot be opened: the process exits while it still has its mm.
ExecOpensNothing(p, target) ==
  /\ Calls(p)
  /\ target = "missing" \/ Slots(p) = {}
  /\ Exit(p)

\* load_icode seeks the file it was given, which a directory cannot do.
ExecDirectory(p) == Calls(p) /\ Slots(p) # {} /\ Panics("vop_tryseek")

\* load_icode refuses what it was given, or has no memory: do_execve has given up
\* the mm by then, and do_exit puts the files only of a process that has one.
ExecLoadsNothing(p, target) ==
  LET left(n) == Cardinality({d \in Fd : Kept(p)[d].status # "none" /\ Kept(p)[d].node = n}) + One(target)[n]
  IN  /\ Calls(p) /\ Slots(p) # {}
      /\ state' = [state EXCEPT ![p] = "zombie"]
      /\ fds' = [fds EXCEPT ![p] = EmptyTable]
      /\ Recount(ClosedAll(p), One(target), 0)
      /\ Loses([n \in Node |-> left(n) + Cwd(n)], [n \in Node |-> left(n)])
      /\ UNCHANGED <<killed, stdin, typed, overrun, panic>>

\* do_wait of the parent, whoever it is: a user process or initproc.
Reap(p) ==
  /\ panic = "none" /\ state[p] = "zombie"
  /\ state' = [state EXCEPT ![p] = "none"]
  /\ killed' = [killed EXCEPT ![p] = FALSE]
  /\ UNCHANGED <<files, stdin, history, panic>>

\* do_kill: a sleeping reader is woken and stays in the queue until it runs.  The flag
\* of a zombie is nobody's business.
Kill(p, q) ==
  /\ Calls(p) /\ Alive(q) /\ ~killed[q]
  /\ killed' = [killed EXCEPT ![q] = TRUE]
  /\ state' = [state EXCEPT ![q] = IF @ = "asleep" THEN "woken" ELSE @,
                            ![p] = IF killed'[p] THEN "leaving" ELSE "ready"]
  /\ UNCHANGED <<files, stdin, history, panic>>

(***************************************************************************)
(* The keyboard.  stdin_buffer holds characters from rpos to wpos.         *)
(***************************************************************************)
\* Mutant: the file is not released when the reader is interrupted.
ReadForgetsRelease(p) ==
  /\ fds' = IF flag[p] = "interrupted" THEN fds ELSE [fds EXCEPT ![p][reading[p].fd].count = @ - 1]
  /\ reading' = [reading EXCEPT ![p] = NotReading]
  /\ Returns(p)

\* The end of a read that slept: file_read releases the file, and the trap ends.
ReadReturns(p) ==
  /\ fds' = [fds EXCEPT ![p][reading[p].fd].count = @ - 1]
  /\ reading' = [reading EXCEPT ![p] = NotReading]
  /\ Returns(p)

\* The characters a reader takes that still wants n.
Taken(n) == IF wpos - rpos < n THEN wpos - rpos ELSE n

\* dev_stdin_read finds the buffer empty: wait_current_set.
Sleeps(p, r) ==
  /\ state' = [state EXCEPT ![p] = "asleep"]
  /\ reading' = [reading EXCEPT ![p] = r]
  /\ queue' = queue \union {p}
  /\ flag' = [flag EXCEPT ![p] = "interrupted"]

\* file_read of stdin, which acquires the file and releases it at its end.
Read(p, d, want) ==
  /\ Calls(p) /\ IsOpen(p, d) /\ fds[p][d].node = "stdin"
  /\ rpos' = rpos + Taken(want)
  /\ IF Taken(want) = want
     THEN Returns(p) /\ UNCHANGED <<fds, reading, queue, flag>>
     ELSE /\ fds' = [fds EXCEPT ![p][d].count = @ + 1]
          /\ Sleeps(p, [fd |-> d, want |-> want, got |-> Taken(want)])
  /\ UNCHANGED <<ref, opens, loaded, killed, ring, wpos, history, panic>>

\* A woken reader leaves the queue if it is still there; after a key it tries again,
\* killed or not.
Resume(p) ==
  LET r == reading[p]
      n == Taken(r.want - r.got)
  IN  /\ panic = "none" /\ state[p] = "woken"
      /\ IF flag[p] = "key" /\ r.got + n < r.want
         THEN /\ rpos' = rpos + n
              /\ Sleeps(p, [r EXCEPT !.got = @ + n])
              /\ UNCHANGED fds
         ELSE /\ rpos' = IF flag[p] = "key" THEN rpos + n ELSE rpos
              /\ queue' = queue \ {p}
              /\ flag' = [flag EXCEPT ![p] = "none"]
              /\ ReadReturns(p)
      /\ UNCHANGED <<ref, opens, loaded, killed, ring, wpos, history, panic>>

\* Mutant: the ring is taken to hold one character more.
RoomForOneMore == wpos - rpos <= BUFSIZE

Room == wpos - rpos < BUFSIZE

\* Mutant: a key wakes one reader.
WakesOne ==
  \E first \in queue :
    /\ queue' = queue \ {first}
    /\ flag' = [flag EXCEPT ![first] = "key"]
    /\ state' = [state EXCEPT ![first] = "woken"]

\* wakeup_queue: every reader, and none stays in the queue.
WakesReaders ==
  /\ queue' = {}
  /\ flag' = [p \in Proc |-> IF p \in queue THEN "key" ELSE flag[p]]
  /\ state' = [p \in Proc |-> IF p \in queue THEN "woken" ELSE state[p]]

\* dev_stdin_write, from the clock interrupt: the character is stored whether there is
\* room or not, and counted if there is.
Type ==
  /\ panic = "none" /\ typed < MaxTyped
  /\ typed' = typed + 1
  /\ ring' = [ring EXCEPT ![wpos % BUFSIZE] = typed']
  /\ IF Room THEN wpos' = wpos + 1 /\ UNCHANGED overrun
             ELSE overrun' = TRUE /\ UNCHANGED wpos
  /\ IF queue = {} THEN UNCHANGED <<queue, flag, state>> ELSE WakesReaders
  /\ UNCHANGED <<files, killed, reading, rpos, lost, losses, panic>>

Next ==
  \/ \E p \in Proc, target \in Node \union {"missing"}, fl \in Flags : Open(p, target, fl)
  \/ \E p \in Proc, d \in Fd : Close(p, d) \/ ReadDirectory(p, d)
  \/ \E p \in Proc, d, e \in Fd : Dup(p, d, e)
  \/ \E p, q \in Proc : Fork(p, q) \/ Kill(p, q)
  \/ \E p \in Proc : Exit(p) \/ Exec(p) \/ ExecDirectory(p) \/ Reap(p) \/ Resume(p)
  \/ \E p \in Proc, target \in Node \union {"missing"} : ExecOpensNothing(p, target)
  \/ \E p \in Proc, target \in {"file", "stdin"} : ExecLoadsNothing(p, target)
  \/ \E p \in Proc, d \in Fd, want \in 1 .. BUFSIZE : Read(p, d, want)
  \/ Type

Spec == Start /\ [][Next]_vars

(***************************************************************************)
(* Properties                                                              *)
(***************************************************************************)
\* Whoever refers to an inode: the descriptors that are open, and the working directories.
Descriptors(n) == {u \in Proc \X Fd : fds[u[1]][u[2]].status # "none" /\ fds[u[1]][u[2]].node = n}
Directories(n) == Cwd(n) * Cardinality({p \in Proc : Alive(p)})

\* The counts of an inode are what its users hold, whatever fork, dup, exec, exit and
\* refused opens did to the tables before: inode_ref_count the open descriptors and
\* working directories, inode_open_count the descriptors, and what the two known leaks
\* left behind (vfs_open with O_EXCL and O_CREAT, exec of what load_icode refuses).  An
\* inode on disk is in memory as long as somebody refers to it.
CountsExact ==
  /\ \A n \in Node :
       /\ opens[n] = Cardinality(Descriptors(n)) + lost[n].opens
       /\ ref[n] = Base(n) + Cardinality(Descriptors(n)) + Directories(n) + lost[n].refs
  /\ loaded = (ref["file"] > 0)

\* The assertions on files and inodes hold: a call that slept in a file has released it
\* before its process can exit, and no inode is opened more often than it is referred
\* to.  What can panic is an operation that no inode of that kind has.
AssertionsHold ==
  /\ panic \in {"none", "vop_create", "vop_truncate", "vop_read", "vop_tryseek"}
  /\ \A n \in Node : opens[n] <= ref[n]

\* stdin delivers the characters in the order they were typed, each once, as long as
\* none is typed into a full buffer: the buffer never holds more than it can, and holds
\* the characters from p_rpos to p_wpos while readers come, sleep, and are killed.
KeysInOrder ==
  /\ wpos - rpos \in 0 .. BUFSIZE
  /\ ~overrun => \A r \in rpos .. wpos - 1 : ring[r % BUFSIZE] = r + 1

\* No reader sleeps while there is a character to read: the wake-up of dev_stdin_write
\* is not lost between the two looks a reader takes at the buffer, nor spent on a reader
\* that was killed.
NoKeyMissed == \A p \in Proc : state[p] = "asleep" => p \in queue /\ rpos = wpos

=============================================================================
