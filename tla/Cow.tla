-------------------------------- MODULE Cow --------------------------------
(***************************************************************************)
(* User memory of lab 5, where fork shares pages copy on write: copy_mm,   *)
(* dup_mmap and copy_range, the page fault handler, page_insert and        *)
(* page_remove, exec's load_icode, exit_mmap, and do_wait's store of the   *)
(* exit code into user memory.                                             *)
(*                                                                         *)
(* The kernel is not preempted and a process has one thread, so a fork, a  *)
(* fault, an exec and an exit are one step each.  Of a program's pages the *)
(* writable ones matter: one in the low region (data), two in the high     *)
(* one, of which load_icode maps the first (stack; it maps four) and a     *)
(* fault the second (deep).  Kernel stacks and small objects are taken     *)
(* from elsewhere.                                                         *)
(***************************************************************************)
EXTENDS Integers, FiniteSets

CONSTANTS
  Proc,     \* process slots
  Value,    \* what a page can hold
  NoValue,  \* a page nobody touched yet
  NPAGES,   \* pages of memory
  KernelPages, \* how many of them the rest of the kernel may hold
  MaxCalls  \* bound: calls of fork and exec

ASSUME CowAssumption ==
  /\ NPAGES \in Nat /\ KernelPages \subseteq Nat /\ MaxCalls \in Nat /\ NoValue \notin Value
  /\ IsFiniteSet(Proc)

VARIABLES
  state,   \* none, thread (no mm yet), run, spins (a fault that is never resolved), zombie
  parent,  \* proc->parent
  pte,     \* pte[p][v]: the page table entry of a user page
  ref,     \* page->ref of the pages that are not page tables
  data,    \* what a page holds
  gone,    \* pages that serve no process: the kernel's, and page tables nobody can reach
  shares,  \* history: how often fork shared a page
  calls,   \* bound counter: calls of fork and exec
  halt     \* a failed assertion, or the kernel in a fault it never resolves

vars == <<state, parent, pte, ref, data, gone, shares, calls, halt>>

High == {"stack", "deep"}
VPage == {"data"} \union High
Page == 1 .. NPAGES
InitProc == "initproc"

\* The page directory, and a directory and a table for each of the two regions.
TABLES == 5

NoPte == [page |-> 0, w |-> FALSE, cow |-> FALSE]
Mapped(p, v) == pte[p][v].page # 0
WithMemory == {p \in Proc : state[p] \in {"run", "spins"}}

\* nr_free_pages: what neither user pages nor page tables take.
Room(r, users) == NPAGES - gone - TABLES * Cardinality(users) - Cardinality({g \in Page : r[g] # 0})

\* alloc_page: which page it is does not matter.
FreePage(r) == CHOOSE g \in Page : r[g] = 0

Init ==
  /\ \E p \in Proc : state = [q \in Proc |-> IF q = p THEN "thread" ELSE "none"]
  /\ parent = [p \in Proc |-> InitProc]
  /\ pte = [p \in Proc |-> [v \in VPage |-> NoPte]]
  /\ ref = [g \in Page |-> 0]
  /\ data = [g \in Page |-> NoValue]
  /\ gone \in KernelPages
  /\ shares = [g \in Page |-> 0]
  /\ calls = 0
  /\ halt = FALSE

(***************************************************************************)
(* fork                                                                    *)
(***************************************************************************)
\* Mutant: only the child's entry is made read-only.
ParentKeepsWrite(e) == e

\* copy_range's two entries of a page it shares.  PTE_USER leaves PTE_COW out: of a
\* page that is copy on write already the child gets an entry without either bit.
ParentEntry(e) == IF e.w THEN [e EXCEPT !.w = FALSE, !.cow = TRUE] ELSE e
ChildEntry(e) == [e EXCEPT !.w = FALSE, !.cow = e.w]

SharedPages(p, V) == {pte[p][v].page : v \in {u \in V : Mapped(p, u)}}

\* page_ref_inc in copy_range, and another one in page_insert.
AfterSharing(p, V) == [g \in Page |-> IF g \in SharedPages(p, V) THEN ref[g] + 2 ELSE ref[g]]
SharedOnce(p, V) == [g \in Page |-> IF g \in SharedPages(p, V) THEN shares[g] + 1 ELSE shares[g]]

Fork(p, q) ==
  /\ state[p] = "run" /\ state[q] = "none" /\ calls < MaxCalls
  /\ Room(ref, WithMemory) >= TABLES
  /\ state' = [state EXCEPT ![q] = "run"]
  /\ parent' = [parent EXCEPT ![q] = p]
  /\ pte' = [pte EXCEPT ![p] = [v \in VPage |-> ParentEntry(pte[p][v])],
                        ![q] = [v \in VPage |-> ChildEntry(pte[p][v])]]
  /\ ref' = AfterSharing(p, VPage)
  /\ shares' = SharedOnce(p, VPage)
  /\ calls' = calls + 1
  /\ UNCHANGED <<data, gone, halt>>

\* dup_mmap copies from the highest area down and stops at the page table it has no
\* page for; exit_mmap takes back what was mapped so far, but not the count that
\* copy_range added, nor a directory in which there is no table (exit_range).
ForkFails(p) ==
  LET room == Room(ref, WithMemory)
      copied == IF room >= 3 THEN High ELSE {}
  IN  /\ state[p] = "run" /\ \E q \in Proc : state[q] = "none"
      /\ room < TABLES /\ calls < MaxCalls
      /\ calls' = calls + 1
      /\ gone' = IF room \in {2, 4} THEN gone + 1 ELSE gone
      /\ pte' = [pte EXCEPT ![p] =
                   [v \in VPage |-> IF v \in copied THEN ParentEntry(pte[p][v]) ELSE pte[p][v]]]
      /\ ref' = [g \in Page |-> AfterSharing(p, copied)[g]
                                - (IF g \in SharedPages(p, copied) THEN 1 ELSE 0)]
      /\ shares' = SharedOnce(p, copied)
      /\ UNCHANGED <<state, parent, data, halt>>

(***************************************************************************)
(* Stores and page faults                                                  *)
(***************************************************************************)
\* A store through an entry that allows it.
Store(p, v) ==
  /\ state[p] = "run" /\ pte[p][v].w
  /\ \E x \in Value : data' = [data EXCEPT ![pte[p][v].page] = x]
  /\ UNCHANGED <<state, parent, pte, ref, gone, shares, calls, halt>>

\* Mutant: page_insert over the old entry, without page_remove.
CopyForgetsRemove(old, new) == [ref EXCEPT ![new] = 1]
AfterCopy(old, new) == [ref EXCEPT ![old] = @ - 1, ![new] = 1]

\* do_pgfault, case 2: page_remove and page_insert when the page has more than one
\* reference, as every shared page has for good (see RefsExact).
CowFault(p, v) ==
  LET old == pte[p][v].page
      copies == ref[old] > 1
      new == IF copies THEN FreePage(ref) ELSE old
  IN  /\ state[p] = "run" /\ pte[p][v].cow
      /\ copies => Room(ref, WithMemory) > 0
      /\ data' = [data EXCEPT ![new] = data[old]]
      /\ pte' = [pte EXCEPT ![p][v] = [page |-> new, w |-> TRUE, cow |-> FALSE]]
      /\ ref' = IF copies THEN AfterCopy(old, new) ELSE ref
      /\ UNCHANGED <<state, parent, gone, shares, calls, halt>>

\* Case 1: the page is not cleared.
FirstTouch(p, v) ==
  LET new == FreePage(ref)
  IN  /\ state[p] = "run" /\ ~Mapped(p, v)
      /\ Room(ref, WithMemory) > 0
      /\ \E x \in Value : data' = [data EXCEPT ![new] = x]
      /\ pte' = [pte EXCEPT ![p][v] = [page |-> new, w |-> TRUE, cow |-> FALSE]]
      /\ ref' = [ref EXCEPT ![new] = 1]
      /\ UNCHANGED <<state, parent, gone, shares, calls, halt>>

\* Case 3: the trap returns to the same instruction, again and again.
FaultsForever(p, v) ==
  /\ state[p] = "run" /\ Mapped(p, v)
  /\ ~pte[p][v].w /\ ~pte[p][v].cow
  /\ state' = [state EXCEPT ![p] = "spins"]
  /\ UNCHANGED <<parent, pte, ref, data, gone, shares, calls, halt>>

(***************************************************************************)
(* exec, exit and wait                                                     *)
(***************************************************************************)
\* exit_mmap: page_remove_pte of every entry.
Dropped(p) == [g \in Page |-> ref[g] - Cardinality({v \in VPage : pte[p][v].page = g})]
Kept(p) == [g \in Page |-> IF \E q \in Proc \ {p}, v \in VPage : pte[q][v].page = g THEN data[g] ELSE NoValue]

\* do_execve and load_icode: the old memory goes, then the page directory, the data
\* page, its tables, and the stack with its own.  Without room for the latter the
\* assertion on the stack fails; without room for the former the process exits, and a
\* directory without a table is gone.
Exec(p) ==
  /\ state[p] \in {"run", "thread"} /\ calls < MaxCalls
  /\ Room(Dropped(p), WithMemory \ {p}) >= TABLES + 2
  /\ LET d == FreePage(Dropped(p))
         s == FreePage([Dropped(p) EXCEPT ![d] = 1])
     IN  /\ ref' = [Dropped(p) EXCEPT ![d] = 1, ![s] = 1]
         /\ \E x, y \in Value : data' = [Kept(p) EXCEPT ![d] = x, ![s] = y]
         /\ pte' = [pte EXCEPT ![p] = [v \in VPage |->
                      IF v = "deep" THEN NoPte
                      ELSE [page |-> IF v = "data" THEN d ELSE s, w |-> TRUE, cow |-> FALSE]]]
  /\ state' = [state EXCEPT ![p] = "run"]
  /\ calls' = calls + 1
  /\ UNCHANGED <<parent, gone, shares, halt>>

\* exit_mmap and do_exit; the children go to initproc.
Leaves(p) ==
  /\ ref' = Dropped(p)
  /\ data' = Kept(p)
  /\ pte' = [pte EXCEPT ![p] = [v \in VPage |-> NoPte]]
  /\ state' = [state EXCEPT ![p] = "zombie"]
  /\ parent' = [q \in Proc |-> IF parent[q] = p THEN InitProc ELSE parent[q]]
  /\ UNCHANGED <<shares, halt>>

ExecFails(p) ==
  LET room == Room(Dropped(p), WithMemory \ {p})
  IN  /\ state[p] \in {"run", "thread"} /\ calls < MaxCalls
      /\ room <= 3
      /\ gone' = IF room = 3 THEN gone + 1 ELSE gone
      /\ calls' = calls + 1
      /\ Leaves(p)

ExecPanics(p) ==
  /\ state[p] \in {"run", "thread"} /\ calls < MaxCalls
  /\ Room(Dropped(p), WithMemory \ {p}) \in 4 .. TABLES + 1
  /\ halt' = TRUE
  /\ UNCHANGED <<state, parent, pte, ref, data, gone, shares, calls>>

\* A process that faults forever leaves when it is killed.
Exit(p) ==
  /\ state[p] \in {"run", "spins"}
  /\ Leaves(p)
  /\ UNCHANGED <<gone, calls>>

\* do_wait without a place for the exit code; initproc's own is init_main's.
Reap(q) ==
  /\ state[q] = "zombie"
  /\ parent[q] \in {InitProc} \union {p \in Proc : state[p] = "run"}
  /\ state' = [state EXCEPT ![q] = "none"]
  /\ parent' = [parent EXCEPT ![q] = InitProc]
  /\ UNCHANGED <<pte, ref, data, gone, shares, calls, halt>>

\* do_wait stores the exit code through the page table of its caller ...
WaitStores(q, v) ==
  /\ state[q] = "zombie"
  /\ \E p \in Proc :
       /\ parent[q] = p /\ state[p] = "run" /\ pte[p][v].w
       /\ \E x \in Value : data' = [data EXCEPT ![pte[p][v].page] = x]
  /\ state' = [state EXCEPT ![q] = "none"]
  /\ parent' = [parent EXCEPT ![q] = InitProc]
  /\ UNCHANGED <<pte, ref, gone, shares, calls, halt>>

\* ... and faults forever on a page that is not writable, since the trap handler
\* resolves faults of user mode only.
WaitFaults(q, v) ==
  /\ state[q] = "zombie"
  /\ \E p \in Proc : parent[q] = p /\ state[p] = "run" /\ ~pte[p][v].w
  /\ halt' = TRUE
  /\ UNCHANGED <<state, parent, pte, ref, data, gone, shares, calls>>

Next == /\ ~halt
        /\ \E p \in Proc :
             \/ \E q \in Proc : Fork(p, q)
             \/ ForkFails(p)
             \/ \E v \in VPage :
                  \/ Store(p, v)
                  \/ CowFault(p, v) \/ FirstTouch(p, v) \/ FaultsForever(p, v)
                  \/ WaitStores(p, v) \/ WaitFaults(p, v)
             \/ Exec(p) \/ ExecFails(p) \/ ExecPanics(p)
             \/ Exit(p) \/ Reap(p)

Spec == Init /\ [][Next]_vars

(***************************************************************************)
(* Properties                                                              *)
(***************************************************************************)
\* page->ref is the number of entries that map the page, and one more for every fork
\* that shared it: copy_range counts a page it shares twice, and only one of the two
\* counts ever goes.  So a page that is mapped is never handed out again, and a page
\* that was shared once is never free again.
Mappings(g) == {m \in Proc \X VPage : pte[m[1]][m[2]].page = g}
RefsExact == \A g \in Page : ref[g] = Cardinality(Mappings(g)) + shares[g]

\* Sharing is never seen: whatever forks, faults, execs and exits there are, and
\* wherever a fork stops for want of memory, each process reads what it stored itself
\* or had from its parent at the fork.
Mem == [p \in Proc |-> [v \in VPage |->
         IF Mapped(p, v) THEN data[pte[p][v].page] ELSE NoValue]]
Memory == INSTANCE MemorySpec WITH alive <- WithMemory, mem <- Mem
ImplementsMemory == Memory!Spec
=============================================================================
