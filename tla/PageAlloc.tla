----------------------------- MODULE PageAlloc -----------------------------
(***************************************************************************)
(* The physical page allocators: first fit of default_pmm.c (labs 2 to 8)  *)
(* and best fit of lab2's best_fit_pmm.c, which differ in the choice of a  *)
(* block only.  The free list is the doubly linked list of list.h, link by *)
(* link: HEAD is free_area.free_list, page i's page_link is i.             *)
(*                                                                         *)
(* alloc_pages and free_pages run with interrupts disabled: one step each. *)
(***************************************************************************)
EXTENDS Integers, FiniteSets

CONSTANTS
  NPAGES,  \* pages that init_memmap is given
  User,    \* parts of the kernel that hold a block of pages
  Sizes,   \* bound: numbers of pages that are asked for
  AfterTail \* bound: calls after a block was freed above all free blocks

ASSUME PageAllocAssumption == NPAGES \in Nat \ {0} /\ Sizes \subseteq Nat \ {0} /\ AfterTail \in Nat

VARIABLES
  pmm,     \* the pages and free_area: nxt, prv, property, flagged, nr_free
  fit,     \* the pmm_manager: first or best fit
  held,    \* the block each user holds, as alloc_pages returned it
  tail,    \* history: calls since a block was freed above all free blocks, it included
  halt     \* a failed assertion, or a loop that never ends

Page == 0 .. NPAGES - 1
HEAD == NPAGES
Link == 0 .. NPAGES
NoBlock == [base |-> HEAD, n |-> 0]
Extent(b) == b.base .. b.base + b.n - 1

(***************************************************************************)
(* list.h, assignment by assignment                                        *)
(***************************************************************************)
\* __list_add
Linked(m, elm, prev, next) ==
  [m EXCEPT !.nxt = [@ EXCEPT ![prev] = elm, ![elm] = next],
            !.prv = [@ EXCEPT ![next] = elm, ![elm] = prev]]
AddAfter(m, at, elm) == Linked(m, elm, at, m.nxt[at])
AddBefore(m, at, elm) == Linked(m, elm, m.prv[at], at)
Unlinked(m, elm) ==
  [m EXCEPT !.nxt = [@ EXCEPT ![m.prv[elm]] = m.nxt[elm]],
            !.prv = [@ EXCEPT ![m.nxt[elm]] = m.prv[elm]]]

\* The links a walk from the head meets, the k-th one first at k = 1.  A walk that is
\* longer than the pages there are never comes back to the head.
Walk(m) ==
  LET at[k \in Nat] == IF k = 0 THEN HEAD ELSE m.nxt[at[k - 1]]
  IN  [k \in 1 .. NPAGES + 1 |-> at[k]]
Length(m) == CHOOSE k \in 0 .. NPAGES + 1 :
  /\ k = NPAGES + 1 \/ Walk(m)[k + 1] = HEAD
  /\ \A i \in 1 .. k : Walk(m)[i] # HEAD
Endless(m) == Length(m) = NPAGES + 1
FreeList(m) == {Walk(m)[k] : k \in 1 .. Length(m)}

(***************************************************************************)
(* default_init_memmap and default_free_pages: the place in the list       *)
(***************************************************************************)
\* The loop does not stop after list_add at the end of the list: the next turn finds
\* base itself, the last link, and adds it after itself.
Inserted(m, base) ==
  LET above == {k \in 1 .. Length(m) : base < Walk(m)[k]}
      last == Walk(m)[Length(m)]
  IN  IF m.nxt[HEAD] = HEAD THEN AddAfter(m, HEAD, base)
      ELSE IF above # {} THEN AddBefore(m, Walk(m)[CHOOSE k \in above : \A j \in above : k <= j], base)
      ELSE AddAfter(AddAfter(m, last, base), base, base)

\* Mutant: the size of the block above is not added.
MergeLosesSize(m, low, high) ==
  [Unlinked(m, high) EXCEPT !.flagged = @ \ {high}]

\* The block at high becomes part of the block at low that it adjoins.
Merge(m, low, high) ==
  [Unlinked(m, high) EXCEPT !.property[low] = @ + m.property[high], !.flagged = @ \ {high}]

Adjoin(m, low, high) == low # HEAD /\ high # HEAD /\ low + m.property[low] = high

FreePages(m, base, n) ==
  LET set == [m EXCEPT !.property[base] = n, !.flagged = @ \union {base}, !.nr_free = @ + n]
      in == Inserted(set, base)
      low == in.prv[base]
      down == IF Adjoin(in, low, base) THEN Merge(in, low, base) ELSE in
      here == IF Adjoin(in, low, base) THEN low ELSE base
      high == down.nxt[here]
  IN  IF Adjoin(down, here, high) THEN Merge(down, here, high) ELSE down

(***************************************************************************)
(* default_alloc_pages and best_fit_alloc_pages                            *)
(***************************************************************************)
\* The places in the walk of blocks that are large enough.
Fitting(m, n) == {k \in 1 .. Length(m) : m.property[Walk(m)[k]] >= n}
FirstFit(m, n) == {k \in Fitting(m, n) : \A j \in Fitting(m, n) : k <= j}
BestFit(m, n) ==
  LET size(k) == m.property[Walk(m)[k]]
      small == {k \in Fitting(m, n) : size(k) <= m.nr_free}
  IN  {k \in small : \A j \in small : size(k) < size(j) \/ (size(k) = size(j) /\ k <= j)}
Chosen(m, n) == {Walk(m)[k] : k \in IF fit = "first" THEN FirstFit(m, n) ELSE BestFit(m, n)}

\* The search goes round a list that has lost its head.
Searches(m, n) == Endless(m) /\ (fit = "best" \/ Fitting(m, n) = {})

\* Mutant: the rest of a block keeps the size of the whole.
SplitKeepsSize(m, page, n) ==
  LET rest == page + n
      out == Unlinked(m, page)
      cut == [out EXCEPT !.property[rest] = m.property[page], !.flagged = @ \union {rest}]
      kept == IF m.property[page] > n THEN AddAfter(cut, m.prv[page], rest) ELSE out
  IN  [kept EXCEPT !.nr_free = @ - n, !.flagged = @ \ {page}]

\* The block is taken out of the list and what is left of it put in its place.
AllocPages(m, page, n) ==
  LET rest == page + n
      out == Unlinked(m, page)
      cut == [out EXCEPT !.property[rest] = m.property[page] - n, !.flagged = @ \union {rest}]
      kept == IF m.property[page] > n THEN AddAfter(cut, m.prv[page], rest) ELSE out
  IN  [kept EXCEPT !.nr_free = @ - n, !.flagged = @ \ {page}]

(***************************************************************************)
(* The state after page_init, and the calls                                *)
(***************************************************************************)
Empty == [nxt |-> [i \in Link |-> i], prv |-> [i \in Link |-> i],
          property |-> [i \in Page |-> 0], flagged |-> {}, nr_free |-> 0]

\* init_memmap of all the free memory.
Start ==
  /\ pmm = FreePages(Empty, 0, NPAGES)
  /\ fit \in {"first", "best"}
  /\ held = [u \in User |-> NoBlock]
  /\ tail = 0
  /\ halt = "none"

vars == <<pmm, fit, held, tail, halt>>
Halts(why) == halt' = why /\ UNCHANGED <<pmm, held>>
Tailed == tail > 0
Counts(above) == tail <= AfterTail /\ tail' = IF Tailed \/ above THEN tail + 1 ELSE 0

\* A page of a block that is set free has PG_property: the assertion of free_pages.
InFreeBlock(b) == \E p \in Extent(b) : p \in pmm.flagged

Alloc(u, n) ==
  /\ halt = "none" /\ held[u] = NoBlock
  /\ n <= pmm.nr_free
  /\ Counts(FALSE)
  /\ IF Searches(pmm, n) THEN Halts("search")
     ELSE \E page \in Chosen(pmm, n) :
            /\ pmm' = AllocPages(pmm, page, n)
            /\ held' = [held EXCEPT ![u] = [base |-> page, n |-> n]]
            /\ UNCHANGED halt
  /\ UNCHANGED fit

\* free_pages of the block u holds.
Free(u) ==
  /\ halt = "none" /\ held[u] # NoBlock
  /\ Counts(FreeList(pmm) # {} /\ \A p \in FreeList(pmm) : p < held[u].base)
  /\ IF InFreeBlock(held[u]) THEN Halts("PageProperty")
     ELSE IF Endless(pmm) /\ \A p \in FreeList(pmm) : p <= held[u].base THEN Halts("search")
     ELSE /\ pmm' = FreePages(pmm, held[u].base, held[u].n)
          /\ held' = [held EXCEPT ![u] = NoBlock]
          /\ UNCHANGED halt
  /\ UNCHANGED fit

Next == \E u \in User : Free(u) \/ \E n \in Sizes : Alloc(u, n)
Spec == Start /\ [][Next]_vars

(***************************************************************************)
(* Properties                                                              *)
(***************************************************************************)
FreeBlock(p) == [base |-> p, n |-> pmm.property[p]]

\* Every page is in one free block or in one held block: what the list, the sizes and
\* nr_free say after any splitting and merging is true, until a block is freed above all
\* free blocks (the list of the kernel ends there in the large block of unused memory).
EveryPageOnce ==
  ~Tailed =>
    /\ halt \notin {"search", "PageProperty"} /\ ~Endless(pmm)
    /\ \A p \in FreeList(pmm) : pmm.nxt[pmm.prv[p]] = p /\ pmm.prv[pmm.nxt[p]] = p
    /\ FreeList(pmm) = pmm.flagged
    /\ \A i \in Page :
         Cardinality({p \in pmm.flagged : i \in Extent(FreeBlock(p))})
         + Cardinality({u \in User : i \in Extent(held[u])}) = 1
    /\ pmm.nr_free = NPAGES - Cardinality(UNION {Extent(held[u]) : u \in User})

\* free_pages leaves no two free blocks side by side, so that a request is refused only
\* when no run of free pages is long enough for it.
RefusedForWant ==
  ~Tailed =>
    \A n \in 1 .. NPAGES :
      Chosen(pmm, n) = {} \/ n > pmm.nr_free =>
        \A i \in Page : \E j \in i .. i + n - 1 :
          j \notin Page \/ \E u \in User : j \in Extent(held[u])

\* Two users never hold the same page, whatever they free in whatever order.
HeldApart ==
  \A u, w \in User : u # w => Extent(held[u]) \intersect Extent(held[w]) = {}
=============================================================================
