------------------------------ MODULE Kmalloc ------------------------------
(***************************************************************************)
(* kmalloc.c over the page allocator: SLOB, the circular list of free      *)
(* blocks in address order from which small requests are served, and the   *)
(* list of big blocks, which are pages of their own.  Other parts of the   *)
(* kernel take and free pages between the calls.                           *)
(*                                                                         *)
(* The interrupts of spin_lock_irqsave never allocate, and the kernel is   *)
(* not preemptive: a call is one step.  No caller asks for an alignment.   *)
(* The heap is followed until a block of pages is freed above all free     *)
(* blocks; PageAlloc tells what becomes of the page allocator then.        *)
(***************************************************************************)
EXTENDS PageAlloc

CONSTANTS
  Caller,    \* parts of the kernel that hold a kmalloc block
  Direct,    \* parts of the kernel that take pages themselves
  PAGE_SIZE, SLOB_UNIT,
  BIGBLOCK,  \* sizeof(bigblock_t)
  Requests   \* bound: sizes that are asked for

ASSUME KmallocAssumption ==
  /\ User = Page \union Direct /\ Page \intersect Direct = {}
  /\ PAGE_SIZE \in Nat \ {0} /\ SLOB_UNIT \in Nat \ {0} /\ PAGE_SIZE % SLOB_UNIT = 0
  /\ BIGBLOCK \in Nat /\ SLOB_UNIT < BIGBLOCK /\ BIGBLOCK + SLOB_UNIT < PAGE_SIZE
  /\ Requests \subseteq Nat \ {0}

VARIABLES
  slob,     \* the free list: nxt and units of each block, and slobfree
  big,      \* bigblocks: the bigblock_t of each block of pages, its order and size
  got       \* what kmalloc returned to each caller: the address, in units, and the size

UnitsPerPage == PAGE_SIZE \div SLOB_UNIT
Addr == 0 .. NPAGES * UnitsPerPage - 1

\* kmalloc holds a block of pages under the number of its first page.
\* The static block arena lies below all pages and next to none of them.
ARENA == -2
Node == Addr \union {ARENA}
SLOB_UNITS(size) == (size + SLOB_UNIT - 1) \div SLOB_UNIT
PageAt(p) == p * UnitsPerPage
NotGiven == [at |-> ARENA, size |-> 0, units |-> 0]

(***************************************************************************)
(* slob_alloc and slob_free                                                *)
(***************************************************************************)
\* The list from a block on: once round, the block itself last.
Round(s, from) ==
  LET at[k \in Nat] == IF k = 0 THEN from ELSE s.nxt[at[k - 1]]
  IN  [k \in 0 .. Cardinality(Node) |-> at[k]]

\* Where slob_free puts b: between two blocks, or where the list starts again.
Before(s, b) ==
  LET at == Round(s, s.slobfree)
      fits(c) == \/ c < b /\ b < s.nxt[c]
                 \/ c >= s.nxt[c] /\ (b > c \/ b < s.nxt[c])
  IN  at[CHOOSE k \in DOMAIN at : fits(at[k]) /\ \A j \in 0 .. k - 1 : ~fits(at[j])]

\* Mutant: the block below is joined without a look at where it ends.
SlobFreeJoinsBelow(s, b, u) ==
  LET c == Before(s, b)
      next == s.nxt[c]
      up == b + u = next
      down == c # ARENA
      units == IF up THEN u + s.units[next] ELSE u
      after == IF up THEN s.nxt[next] ELSE next
  IN  IF down THEN [s EXCEPT !.units[c] = @ + units, !.nxt[c] = after, !.slobfree = c]
      ELSE [s EXCEPT !.units[b] = units, !.nxt[b] = after, !.nxt[c] = b, !.slobfree = c]

SlobFree(s, b, u) ==
  LET c == Before(s, b)
      next == s.nxt[c]
      up == b + u = next
      down == c + s.units[c] = b
      units == IF up THEN u + s.units[next] ELSE u
      after == IF up THEN s.nxt[next] ELSE next
      tidy == IF up THEN [s EXCEPT !.units[next] = 0, !.nxt[next] = ARENA] ELSE s
  IN  IF down THEN [tidy EXCEPT !.units[c] = @ + units, !.nxt[c] = after, !.slobfree = c]
      ELSE [tidy EXCEPT !.units[b] = units, !.nxt[b] = after, !.nxt[c] = b, !.slobfree = c]

\* The first block with room, from the one after slobfree round to slobfree itself.
SlobFits(s, u) ==
  LET at == Round(s, s.slobfree)
      turn == CHOOSE k \in DOMAIN at \ {0} : at[k] = s.slobfree /\ \A j \in 1 .. k - 1 : at[j] # s.slobfree
  IN  {k \in 1 .. turn : s.units[at[k]] >= u /\ \A j \in 1 .. k - 1 : s.units[at[j]] < u}

\* slob_alloc of u units where there is room: the block and what is left.
SlobTake(s, u, k) ==
  LET prev == Round(s, s.slobfree)[k - 1]
      cur == s.nxt[prev]
      rest == cur + u
      tidy == [s EXCEPT !.units[cur] = 0, !.nxt[cur] = ARENA, !.slobfree = prev]
  IN  IF s.units[cur] = u THEN [tidy EXCEPT !.nxt[prev] = s.nxt[cur]]
      ELSE [tidy EXCEPT !.nxt[prev] = rest, !.units[rest] = s.units[cur] - u, !.nxt[rest] = s.nxt[cur]]

(***************************************************************************)
(* A request to kmalloc works on the heap, a record of the allocators      *)
(* states, and fails at the first thing it cannot have.                    *)
(***************************************************************************)
Heap == [pmm |-> pmm, slob |-> slob, held |-> held, at |-> ARENA, ok |-> TRUE]
Failed(h) == [h EXCEPT !.ok = FALSE]

\* __slob_get_free_pages
GetPages(h, n) ==
  IF n > h.pmm.nr_free \/ Chosen(h.pmm, n) = {} THEN Failed(h)
  ELSE LET page == CHOOSE p \in Chosen(h.pmm, n) : TRUE
       IN  [h EXCEPT !.pmm = AllocPages(@, page, n), !.at = PageAt(page),
                     !.held = [@ EXCEPT ![page] = [base |-> page, n |-> n]]]

Served(h, u) ==
  LET k == CHOOSE k \in SlobFits(h.slob, u) : TRUE
  IN  [h EXCEPT !.slob = SlobTake(@, u, k),
                !.at = h.slob.nxt[Round(h.slob, h.slob.slobfree)[k - 1]]]

\* slob_alloc: a page is added to the list when no block has room.
SlobAlloc(h, size) ==
  LET u == SLOB_UNITS(size)
      more == GetPages(h, 1)
  IN  IF SlobFits(h.slob, u) # {} THEN Served(h, u)
      ELSE IF ~more.ok THEN more
      ELSE Served([more EXCEPT !.slob = SlobFree(@, more.at, UnitsPerPage)], u)

\* find_order halves the size and drops what is left over.
FindOrder(size) ==
  LET halved[k \in Nat] == IF k = 0 THEN size ELSE halved[k - 1] \div 2
  IN  CHOOSE k \in 0 .. size : halved[k] <= PAGE_SIZE /\ \A j \in 0 .. k - 1 : halved[j] > PAGE_SIZE

\* 1 << order pages.
Shifted[order \in Nat] == IF order = 0 THEN 1 ELSE 2 * Shifted[order - 1]

Small(size) == size < PAGE_SIZE - SLOB_UNIT
AssertFails(size) == Small(size) /\ size + SLOB_UNIT + SLOB_UNIT >= PAGE_SIZE

(***************************************************************************)
(* kmalloc and kfree                                                       *)
(***************************************************************************)
HeapStart ==
  /\ Start
  /\ slob = [nxt |-> [a \in Node |-> ARENA], units |-> [a \in Node |-> IF a = ARENA THEN 1 ELSE 0],
             slobfree |-> ARENA]
  /\ big = {}
  /\ got = [c \in Caller |-> NotGiven]

heap == <<slob, big, got>>
Becomes(h) == pmm' = h.pmm /\ slob' = h.slob /\ held' = h.held

\* Small requests: one unit more for the header.
KmallocSmall(c, size) ==
  LET h == SlobAlloc(Heap, size + SLOB_UNIT)
  IN  /\ Small(size) /\ ~AssertFails(size)
      /\ h.ok
      /\ Becomes(h)
      /\ got' = [got EXCEPT ![c] = [at |-> h.at + 1, size |-> size, units |-> SLOB_UNITS(size + SLOB_UNIT)]]
      /\ UNCHANGED <<big, halt>>

KmallocRefused(c, size) ==
  /\ AssertFails(size)
  /\ halt' = "slob_alloc"
  /\ UNCHANGED <<pmm, held, heap>>

\* Mutant: the bigblock_t is kept when there are no pages.
KmallocBigKeeps(c, size) ==
  LET node == SlobAlloc(Heap, BIGBLOCK)
      n == Shifted[FindOrder(size)]
      h == GetPages(node, n)
  IN  /\ ~Small(size) /\ node.ok
      /\ IF h.ok
         THEN /\ Becomes(h)
              /\ big' = big \union {[pages |-> h.at, n |-> n, node |-> node.at]}
              /\ got' = [got EXCEPT ![c] = [at |-> h.at, size |-> size, units |-> 0]]
         ELSE /\ Becomes(node)
              /\ UNCHANGED <<big, got>>
      /\ UNCHANGED halt

\* Big requests: a bigblock_t from SLOB, then the pages; without pages the bigblock_t
\* goes back.
KmallocBig(c, size) ==
  LET node == SlobAlloc(Heap, BIGBLOCK)
      n == Shifted[FindOrder(size)]
      h == GetPages(node, n)
  IN  /\ ~Small(size) /\ node.ok
      /\ IF h.ok
         THEN /\ Becomes(h)
              /\ big' = big \union {[pages |-> h.at, n |-> n, node |-> node.at]}
              /\ got' = [got EXCEPT ![c] = [at |-> h.at, size |-> size, units |-> 0]]
         ELSE /\ Becomes([node EXCEPT !.slob = SlobFree(@, node.at, SLOB_UNITS(BIGBLOCK))])
              /\ UNCHANGED <<big, got>>
      /\ UNCHANGED halt

Kmalloc(c, size) ==
  /\ halt = "none" /\ ~Tailed /\ got[c] = NotGiven
  /\ Counts(FALSE)
  /\ KmallocSmall(c, size) \/ KmallocRefused(c, size) \/ KmallocBig(c, size)
  /\ UNCHANGED fit

\* A block that is page aligned is looked for among the big blocks; all others have
\* their header in front.
Kfree(c) ==
  LET block == got[c].at
      above == {b \in big : b.pages = block}
  IN  /\ halt = "none" /\ ~Tailed /\ got[c] # NotGiven
      /\ \/ \E b \in above :
              /\ Free(block \div UnitsPerPage)
              /\ IF halt' # "none" THEN UNCHANGED heap
                 ELSE /\ slob' = SlobFree(slob, b.node, SLOB_UNITS(BIGBLOCK))
                      /\ big' = big \ {b}
                      /\ got' = [got EXCEPT ![c] = NotGiven]
         \/ /\ above = {}
            /\ Counts(FALSE)
            /\ slob' = SlobFree(slob, block - 1, got[c].units)
            /\ got' = [got EXCEPT ![c] = NotGiven]
            /\ UNCHANGED <<pmm, held, big, fit, halt>>

HeapNext ==
  \/ \E u \in Direct : (Free(u) \/ \E n \in Sizes : Alloc(u, n)) /\ UNCHANGED heap
  \/ \E c \in Caller : Kfree(c) \/ \E size \in Requests : Kmalloc(c, size)

HeapSpec == HeapStart /\ [][HeapNext]_<<vars, heap>>

(***************************************************************************)
(* Properties                                                              *)
(***************************************************************************)
\* The blocks of the free list, the arena left out.
SlobBlocks == {Round(slob, ARENA)[k] : k \in 1 .. Cardinality(Node)} \ {ARENA}
From(a, n) == a .. a + n - 1

\* Every unit of a page that SLOB took is in exactly one block: a free one, a small block
\* that a caller holds, or the bigblock_t of a big block; and no free block adjoins
\* another.  The list of free blocks is in address order, arena first, and slobfree is
\* on it.
EveryUnitOnce ==
  ~Tailed =>
    /\ \A a \in Addr :
         LET own == {s \in Page : a \in From(PageAt(held[s].base), held[s].n * UnitsPerPage)}
             inBig == {b \in big : a \in From(b.pages, b.n * UnitsPerPage)}
         IN  Cardinality({b \in SlobBlocks : a \in From(b, slob.units[b])})
             + Cardinality({c \in Caller : got[c].units > 0 /\ a \in From(got[c].at - 1, got[c].units)})
             + Cardinality({b \in big : a \in From(b.node, SLOB_UNITS(BIGBLOCK))})
             = Cardinality(own) - Cardinality(inBig)
    /\ slob.slobfree \in SlobBlocks \union {ARENA}
    /\ \A b \in SlobBlocks : slob.nxt[b] = ARENA \/ b + slob.units[b] < slob.nxt[b]

\* What kmalloc returns is as long as was asked for, header left out, and no two callers
\* share a unit of it, as long as no size is asked for that find_order rounds down.
EnoughForAll ==
  ~Tailed =>
    LET room(c) == IF got[c].units > 0 THEN (got[c].units - 1) * SLOB_UNIT
                   ELSE Shifted[FindOrder(got[c].size)] * PAGE_SIZE
        span(c) == From(got[c].at, room(c) \div SLOB_UNIT)
        given == {c \in Caller : got[c] # NotGiven}
    IN  \A c \in given :
          /\ room(c) >= got[c].size
          /\ \A d \in given \ {c} : span(c) \intersect span(d) = {}
=============================================================================
