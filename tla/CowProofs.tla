----------------------------- MODULE CowProofs -----------------------------
(***************************************************************************)
(* Page counts and private memories, for any number of processes and pages *)
(***************************************************************************)
EXTENDS Cow, FiniteSetTheorems, TLAPS

States == {"none", "thread", "run", "spins", "zombie"}
Entry == [page : Page \union {0}, w : BOOLEAN, cow : BOOLEAN]

TypeOK ==
  /\ state \in [Proc -> States]
  /\ pte \in [Proc -> [VPage -> Entry]]
  /\ ref \in [Page -> Int]
  /\ data \in [Page -> Value \union {NoValue}]
  /\ shares \in [Page -> Nat]
  /\ gone \in Nat /\ calls \in Nat

\* Who has no memory maps nothing.
NoStray == \A p \in Proc \ WithMemory, v \in VPage : ~Mapped(p, v)

\* Processes share a page at one address only, so one process maps it once.
SamePlace == \A p, q \in Proc, v, u \in VPage :
  Mapped(p, v) /\ pte[p][v].page = pte[q][u].page => v = u

\* A page that can be written is mapped by one process.
WriterAlone == \A p, q \in Proc, v \in VPage :
  p # q /\ Mapped(p, v) /\ pte[p][v].page = pte[q][v].page => ~pte[p][v].w

\* A page that is mapped was written, or filled by the load or the first touch.
Filled == \A p \in Proc, v \in VPage : Mapped(p, v) => data[pte[p][v].page] \in Value

\* An entry with a right maps a page.
Present == \A p \in Proc, v \in VPage : pte[p][v].w \/ pte[p][v].cow => Mapped(p, v)

IInv == TypeOK /\ RefsExact /\ Present /\ NoStray /\ SamePlace /\ WriterAlone /\ Filled

(***************************************************************************)
(* Finite sets of mappings                                                 *)
(***************************************************************************)
\* There are NPAGES pages, and none is numbered 0, which stands for no page.
LEMMA PageFacts == /\ NPAGES \in Nat /\ IsFiniteSet(Page) /\ Cardinality(Page) = NPAGES
                   /\ Page \subseteq Nat \ {0}
<1>1. NPAGES \in Nat
  BY CowAssumption
<1>2. IsFiniteSet(1..NPAGES) /\ Cardinality(1..NPAGES) = NPAGES
  BY <1>1, FS_Interval
<1> QED
  BY <1>1, <1>2 DEF Page

\* A page has finitely many mappings, so they can be counted.
LEMMA FiniteMappings == ASSUME NEW g PROVE IsFiniteSet(Mappings(g)) /\ Cardinality(Mappings(g)) \in Nat
<1>1. IsFiniteSet(VPage)
  <2>1. VPage = {"data"} \union ({"stack"} \union {"deep"})
    BY DEF VPage, High
  <2> QED
    BY <2>1, FS_Singleton, FS_Union
<1>2. IsFiniteSet(Proc \X VPage)
  BY <1>1, CowAssumption, FS_Product
<1>3. Mappings(g) \in SUBSET (Proc \X VPage)
  BY DEF Mappings
<1> QED
  BY <1>2, <1>3, FS_Subset, FS_CardinalityType

\* A page whose count is 0, which alloc_page may return, is mapped by nobody.
LEMMA Unreferenced ==
  ASSUME TypeOK, RefsExact, NEW g \in Page, ref[g] = 0
  PROVE  shares[g] = 0 /\ \A p \in Proc, v \in VPage : pte[p][v].page # g
<1>1. Cardinality(Mappings(g)) = 0 /\ shares[g] = 0
  BY FiniteMappings DEF TypeOK, RefsExact
<1>2. Mappings(g) = {}
  BY <1>1, FiniteMappings, FS_EmptySet
<1>3. ASSUME NEW p \in Proc, NEW v \in VPage, pte[p][v].page = g PROVE <<p, v>> \in Mappings(g)
  BY <1>3 DEF Mappings
<1> QED
  BY <1>1, <1>2, <1>3

\* A page whose count is at most 1, which do_pgfault does not copy, is mapped once
\* at most.
LEMMA ReferencedOnce ==
  ASSUME TypeOK, RefsExact, NEW g \in Page, ref[g] <= 1,
         NEW p \in Proc, NEW v \in VPage, pte[p][v].page = g,
         NEW q \in Proc, NEW u \in VPage, pte[q][u].page = g
  PROVE  p = q /\ v = u
<1>1. Cardinality(Mappings(g)) <= 1
  BY FiniteMappings DEF TypeOK, RefsExact
<1>2. <<p, v>> \in Mappings(g) /\ <<q, u>> \in Mappings(g)
  BY DEF Mappings
<1>3. Cardinality(Mappings(g)) # 0
  BY <1>2, FiniteMappings, FS_EmptySet
<1>4. Cardinality(Mappings(g)) = 1
  BY <1>1, <1>3, FiniteMappings
<1>5. PICK x : Mappings(g) = {x}
  BY <1>4, FiniteMappings, FS_Singleton
<1>6. <<p, v>> = <<q, u>>
  BY <1>2, <1>5
<1> QED
  BY <1>6

(***************************************************************************)
(* The pages that are handed out                                           *)
(***************************************************************************)
Counted(r) == {g \in Page : r[g] # 0}

\* The pages with a count can be counted.
LEMMA FiniteCounted == ASSUME NEW r PROVE IsFiniteSet(Counted(r)) /\ Cardinality(Counted(r)) \in Nat
<1>1. Counted(r) \in SUBSET Page
  BY DEF Counted
<1> QED
  BY <1>1, PageFacts, FS_Subset, FS_CardinalityType

\* nr_free_pages is at most the number of pages without a count.
LEMMA RoomFree ==
  ASSUME gone \in Nat, NEW r, NEW users \in SUBSET Proc
  PROVE  /\ Cardinality(Counted(r)) \in Nat /\ Room(r, users) \in Int
         /\ Room(r, users) <= NPAGES - Cardinality(Counted(r))
<1>1. Cardinality(users) \in Nat
  BY CowAssumption, FS_Subset, FS_CardinalityType
<1>2. Cardinality(Counted(r)) \in Nat
  BY FiniteCounted
<1>3. Room(r, users) = NPAGES - gone - TABLES * Cardinality(users) - Cardinality(Counted(r))
  BY DEF Room, Counted
<1> QED
  BY <1>1, <1>2, <1>3, PageFacts DEF TABLES

\* Where a page without a count exists, alloc_page returns one.
LEMMA FreePageFree ==
  ASSUME NEW r, Cardinality(Counted(r)) < NPAGES
  PROVE  FreePage(r) \in Page /\ r[FreePage(r)] = 0
<1>1. Counted(r) # Page
  BY PageFacts
<1>2. \E g \in Page : r[g] = 0
  BY <1>1 DEF Counted
<1> QED
  BY <1>2 DEF FreePage

\* alloc_page returns a page nobody maps and that was never shared.
LEMMA Allocated ==
  ASSUME IInv, Room(ref, WithMemory) > 0
  PROVE  LET new == FreePage(ref)
         IN  /\ new \in Page /\ ref[new] = 0 /\ shares[new] = 0
             /\ \A p \in Proc, v \in VPage : pte[p][v].page # new
<1>1. WithMemory \in SUBSET Proc
  BY DEF WithMemory
<1>2. /\ Cardinality(Counted(ref)) \in Nat /\ Room(ref, WithMemory) \in Int
      /\ Room(ref, WithMemory) <= NPAGES - Cardinality(Counted(ref))
  BY <1>1, RoomFree DEF IInv, TypeOK
<1>4. Cardinality(Counted(ref)) < NPAGES
  BY <1>2, PageFacts
<1>5. FreePage(ref) \in Page /\ ref[FreePage(ref)] = 0
  BY <1>4, FreePageFree
<1> QED
  BY <1>5, Unreferenced DEF IInv

(***************************************************************************)
(* What exit_mmap takes away                                               *)
(***************************************************************************)
\* The mappings of the other processes.
Rest(p, g) == {m \in Mappings(g) : m[1] # p}
OfProc(p, g) == {v \in VPage : pte[p][v].page = g}

\* The mappings of the other processes can be counted.
LEMMA FiniteRest == ASSUME NEW p, NEW g PROVE IsFiniteSet(Rest(p, g)) /\ Cardinality(Rest(p, g)) \in Nat
<1>1. Rest(p, g) \in SUBSET Mappings(g)
  BY DEF Rest
<1> QED
  BY <1>1, FiniteMappings, FS_Subset, FS_CardinalityType

\* After exit_mmap of p the counts are those of the others' mappings, and of the shares.
LEMMA DroppedCount ==
  ASSUME IInv, NEW p \in Proc, NEW g \in Page
  PROVE  Dropped(p)[g] = Cardinality(Rest(p, g)) + shares[g]
<1>1. ref[g] = Cardinality(Mappings(g)) + shares[g] /\ ref[g] \in Int /\ shares[g] \in Nat
  BY DEF IInv, TypeOK, RefsExact
<1>2. Dropped(p)[g] = ref[g] - Cardinality(OfProc(p, g))
  BY DEF Dropped, OfProc
<1>3. CASE OfProc(p, g) = {}
  <2>1. Rest(p, g) = Mappings(g)
    BY <1>3 DEF Rest, Mappings, OfProc
  <2>2. Cardinality(OfProc(p, g)) = 0
    BY <1>3, FS_EmptySet
  <2> QED
    BY <1>1, <1>2, <2>1, <2>2, FiniteMappings
<1>4. CASE OfProc(p, g) # {}
  <2>1. PICK v \in VPage : pte[p][v].page = g
    BY <1>4 DEF OfProc
  <2>2. \A u \in VPage : pte[p][u].page = g => u = v
    BY <2>1, PageFacts DEF IInv, SamePlace, Mapped
  <2>3. OfProc(p, g) = {v}
    BY <2>1, <2>2 DEF OfProc
  <2>4. Cardinality(OfProc(p, g)) = 1
    BY <2>3, FS_Singleton
  <2>5. <<p, v>> \in Mappings(g)
    BY <2>1 DEF Mappings
  <2>6. Rest(p, g) = Mappings(g) \ {<<p, v>>}
    BY <2>2 DEF Rest, Mappings
  <2>7. Cardinality(Rest(p, g)) = Cardinality(Mappings(g)) - 1
    BY <2>5, <2>6, FiniteMappings, FS_RemoveElement
  <2> QED
    BY <1>1, <1>2, <2>4, <2>7, FiniteMappings
<1> QED
  BY <1>3, <1>4

\* A page exit_mmap frees was never shared, and no other process maps it.
LEMMA DroppedUnreferenced ==
  ASSUME IInv, NEW p \in Proc, NEW g \in Page, Dropped(p)[g] = 0
  PROVE  shares[g] = 0 /\ \A q \in Proc \ {p}, v \in VPage : pte[q][v].page # g
<1>1. Cardinality(Rest(p, g)) = 0 /\ shares[g] = 0
  BY DroppedCount, FiniteRest DEF IInv, TypeOK
<1>2. Rest(p, g) = {}
  BY <1>1, FiniteRest, FS_EmptySet
<1>3. ASSUME NEW q \in Proc \ {p}, NEW v \in VPage, pte[q][v].page = g PROVE <<q, v>> \in Rest(p, g)
  BY <1>3 DEF Rest, Mappings
<1> QED
  BY <1>1, <1>2, <1>3


(***************************************************************************)
(* The steps                                                               *)
(***************************************************************************)
SamePages == \A p \in Proc, v \in VPage : pte'[p][v].page = pte[p][v].page

\* A step that moves no page leaves the mappings of each as they were.
LEMMA SameMappings == ASSUME SamePages, NEW g PROVE Mappings(g)' = Mappings(g)
<1>1. ASSUME NEW m \in Proc \X VPage PROVE pte'[m[1]][m[2]].page = pte[m[1]][m[2]].page
  BY DEF SamePages
<1> QED
  BY <1>1 DEF Mappings

\* Nothing is mapped at first.
LEMMA InitInv == Init => IInv
<1> SUFFICES ASSUME Init PROVE IInv
  OBVIOUS
<1>1. TypeOK
  BY CowAssumption DEF Init, TypeOK, States, Entry, NoPte
<1>2. ASSUME NEW p \in Proc, NEW v \in VPage
      PROVE  pte[p][v].page = 0 /\ ~pte[p][v].w /\ ~pte[p][v].cow
  BY DEF Init, NoPte
<1>3. RefsExact
  <2> SUFFICES ASSUME NEW g \in Page PROVE ref[g] = Cardinality(Mappings(g)) + shares[g]
    BY DEF RefsExact
  <2>1. Mappings(g) = {}
    BY <1>2, PageFacts DEF Mappings
  <2> QED
    BY <2>1, FS_EmptySet DEF Init
<1> QED
  BY <1>1, <1>2, <1>3 DEF IInv, Present, NoStray, SamePlace, WriterAlone, Filled, Mapped

\* Steps that move no page and change no count keep the invariant.
LEMMA StayInv ==
  ASSUME IInv, TypeOK', UNCHANGED <<pte, ref, shares>>,
         \A p \in Proc : p \in WithMemory' <=> p \in WithMemory,
         \A g \in Page : data[g] \in Value => data'[g] \in Value
  PROVE  IInv'
<1>1. SamePages
  BY DEF SamePages
<1>2. RefsExact'
  BY <1>1, SameMappings DEF IInv, RefsExact
<1>3. Present' /\ NoStray' /\ SamePlace' /\ WriterAlone'
  BY DEF IInv, Present, NoStray, SamePlace, WriterAlone, Mapped
<1>4. Filled'
  BY DEF IInv, Filled, Mapped, TypeOK, Entry
<1> QED
  BY <1>2, <1>3, <1>4 DEF IInv

\* A store changes what a page holds only.
LEMMA StoreInv == ASSUME IInv, NEW p \in Proc, NEW v \in VPage, Store(p, v) PROVE IInv'
<1>1. TypeOK'
  BY DEF IInv, TypeOK, Store
<1>2. \A g \in Page : data[g] \in Value => data'[g] \in Value
  BY DEF IInv, TypeOK, Store
<1> QED
  BY <1>1, <1>2, StayInv DEF Store, WithMemory

\* do_wait's store changes what a page holds, and a zombie's slot.
LEMMA WaitStoresInv == ASSUME IInv, NEW q \in Proc, NEW v \in VPage, WaitStores(q, v) PROVE IInv'
<1>1. TypeOK'
  BY DEF IInv, TypeOK, WaitStores, States
<1>2. \A g \in Page : data[g] \in Value => data'[g] \in Value
  BY DEF IInv, TypeOK, WaitStores
<1>3. \A p \in Proc : p \in WithMemory' <=> p \in WithMemory
  BY DEF IInv, TypeOK, WaitStores, WithMemory
<1> QED
  BY <1>1, <1>2, <1>3, StayInv DEF WaitStores

\* A fault that is not resolved changes nothing in memory.
LEMMA FaultsForeverInv == ASSUME IInv, NEW p \in Proc, NEW v \in VPage, FaultsForever(p, v) PROVE IInv'
<1>1. TypeOK'
  BY DEF IInv, TypeOK, FaultsForever, States
<1>2. \A q \in Proc : q \in WithMemory' <=> q \in WithMemory
  BY DEF IInv, TypeOK, FaultsForever, WithMemory
<1> QED
  BY <1>1, <1>2, StayInv DEF FaultsForever

\* do_wait frees a slot whose memory is gone already.
LEMMA ReapInv == ASSUME IInv, NEW q \in Proc, Reap(q) PROVE IInv'
<1>1. TypeOK'
  BY DEF IInv, TypeOK, Reap, States
<1>2. \A p \in Proc : p \in WithMemory' <=> p \in WithMemory
  BY DEF IInv, TypeOK, Reap, WithMemory
<1> QED
  BY <1>1, <1>2, StayInv DEF Reap

\* A failed assertion stops the machine where it is.
LEMMA PanicsInv ==
  ASSUME IInv, NEW p \in Proc, NEW v \in VPage, ExecPanics(p) \/ WaitFaults(p, v)
  PROVE IInv'
<1>1. UNCHANGED <<state, pte, ref, data, gone, shares, calls>>
  BY DEF ExecPanics, WaitFaults
<1>2. TypeOK' /\ WithMemory' = WithMemory
  BY <1>1 DEF IInv, TypeOK, WithMemory
<1> QED
  BY <1>1, <1>2, StayInv

\* A page nobody maps comes to one address, in the place of the page old or of none.
Placed(p, v, old, new) ==
  /\ pte' = [pte EXCEPT ![p][v] = [page |-> new, w |-> TRUE, cow |-> FALSE]]
  /\ pte[p][v].page = old
  /\ new \in Page /\ \A q \in Proc, u \in VPage : pte[q][u].page # new

\* How the mappings of the pages change when new comes to one address in the place of
\* old: by one each, and those of the other pages not at all.
LEMMA PlacedMappings ==
  ASSUME IInv, NEW p \in Proc, NEW v \in VPage, NEW old \in Page \union {0}, NEW new,
         Placed(p, v, old, new), NEW g \in Page
  PROVE  /\ g = new => Cardinality(Mappings(g)') = 1 /\ Cardinality(Mappings(g)) = 0
         /\ g = old => g # new /\ Cardinality(Mappings(g)') = Cardinality(Mappings(g)) - 1
         /\ g \notin {old, new} => Mappings(g)' = Mappings(g)
<1>1. \A q \in Proc, u \in VPage :
        pte'[q][u].page = IF q = p /\ u = v THEN new ELSE pte[q][u].page
  BY DEF Placed, IInv, TypeOK
<1>2. \A m \in Proc \X VPage :
        pte'[m[1]][m[2]].page = IF m = <<p, v>> THEN new ELSE pte[m[1]][m[2]].page
  BY <1>1
<1>3. <<p, v>> \in Proc \X VPage /\ pte[<<p, v>>[1]][<<p, v>>[2]].page = old
  BY DEF Placed
<1>4. ASSUME g = new PROVE Cardinality(Mappings(g)') = 1 /\ Cardinality(Mappings(g)) = 0
  <2>1. \A m \in Proc \X VPage : pte[m[1]][m[2]].page # new
    BY DEF Placed
  <2>2. Mappings(g) = {}
    BY <1>4, <2>1 DEF Mappings
  <2>3. Mappings(g)' = {<<p, v>>}
    BY <1>2, <1>3, <1>4, <2>1 DEF Mappings
  <2> QED
    BY <2>2, <2>3, FS_EmptySet, FS_Singleton
<1>5. ASSUME g = old PROVE g # new /\ Cardinality(Mappings(g)') = Cardinality(Mappings(g)) - 1
  <2>1. g # new
    BY <1>5 DEF Placed
  <2>2. Mappings(g)' = Mappings(g) \ {<<p, v>>}
    BY <1>2, <1>5, <2>1 DEF Mappings
  <2>3. <<p, v>> \in Mappings(g)
    BY <1>3, <1>5 DEF Mappings
  <2> QED
    BY <2>1, <2>2, <2>3, FiniteMappings, FS_RemoveElement
<1>6. ASSUME g \notin {old, new} PROVE Mappings(g)' = Mappings(g)
  BY <1>2, <1>3, <1>6 DEF Mappings
<1> QED
  BY <1>4, <1>5, <1>6

\* The page that comes to an address is its process's own, and holds something.
LEMMA PlacedInv ==
  ASSUME IInv, TypeOK', NEW p \in Proc, NEW v \in VPage, NEW old \in Page \union {0}, NEW new,
         Placed(p, v, old, new), state[p] = "run", UNCHANGED state, data'[new] \in Value,
         \A g \in Page \ {new} : data'[g] = data[g]
  PROVE  Present' /\ NoStray' /\ SamePlace' /\ WriterAlone' /\ Filled'
<1>1. \A q \in Proc, u \in VPage :
        pte'[q][u] = IF q = p /\ u = v THEN [page |-> new, w |-> TRUE, cow |-> FALSE] ELSE pte[q][u]
  BY DEF Placed, IInv, TypeOK
<1>2. new \in Page /\ \A q \in Proc, u \in VPage : pte[q][u].page # new
  BY DEF Placed
<1>3. Present' /\ NoStray'
  BY <1>1, <1>2, PageFacts DEF IInv, Present, NoStray, WithMemory, Mapped
<1>4. SamePlace'
  BY <1>1, <1>2 DEF IInv, SamePlace, Mapped
<1>5. WriterAlone'
  BY <1>1, <1>2 DEF IInv, WriterAlone, Mapped
<1>6. Filled'
  BY <1>1, <1>2 DEF IInv, Filled, Mapped, TypeOK, Entry
<1> QED
  BY <1>3, <1>4, <1>5, <1>6

\* do_pgfault, case 1: the page from alloc_page is nobody else's.
LEMMA FirstTouchInv == ASSUME IInv, NEW p \in Proc, NEW v \in VPage, FirstTouch(p, v) PROVE IInv'
<1> DEFINE new == FreePage(ref)
           old == 0
<1>1. /\ new \in Page /\ ref[new] = 0 /\ shares[new] = 0
      /\ \A q \in Proc, u \in VPage : pte[q][u].page # new
  BY Allocated DEF FirstTouch
<1>2. Placed(p, v, old, new) /\ old \in Page \union {0} /\ old \notin Page
  BY <1>1, PageFacts DEF FirstTouch, Placed, Mapped
<1>3. ref' = [ref EXCEPT ![new] = 1] /\ UNCHANGED <<state, shares>> /\ state[p] = "run"
  BY DEF FirstTouch
<1>4. data'[new] \in Value /\ \A g \in Page \ {new} : data'[g] = data[g]
  BY <1>1 DEF FirstTouch, IInv, TypeOK
<1>5. TypeOK'
  BY <1>1 DEF FirstTouch, IInv, TypeOK, Entry
<1>6. RefsExact'
  <2> SUFFICES ASSUME NEW g \in Page PROVE ref'[g] = Cardinality(Mappings(g)') + shares'[g]
    BY DEF RefsExact
  <2> HIDE DEF new, old
  <2>1. CASE g = new
    BY <2>1, <1>1, <1>2, <1>3, PlacedMappings DEF IInv, TypeOK
  <2>2. CASE g # new
    <3>1. Mappings(g)' = Mappings(g)
      BY <2>2, <1>2, PlacedMappings
    <3> QED
      BY <2>2, <3>1, <1>3 DEF IInv, TypeOK, RefsExact
  <2> QED
    BY <2>1, <2>2
<1> HIDE DEF new, old
<1>7. Present' /\ NoStray' /\ SamePlace' /\ WriterAlone' /\ Filled'
  BY <1>2, <1>3, <1>4, <1>5, PlacedInv
<1> QED
  BY <1>5, <1>6, <1>7 DEF IInv

\* do_pgfault, case 2, with a copy: page_remove takes one count from the old page, and
\* page_insert gives the new one its first.
LEMMA CopyInv ==
  ASSUME IInv, NEW p \in Proc, NEW v \in VPage, CowFault(p, v), ref[pte[p][v].page] > 1,
         Mapped(p, v)
  PROVE  IInv'
<1> DEFINE old == pte[p][v].page
           new == FreePage(ref)
<1>1. /\ new \in Page /\ ref[new] = 0 /\ shares[new] = 0
      /\ \A q \in Proc, u \in VPage : pte[q][u].page # new
  BY Allocated DEF CowFault
<1>2. /\ Placed(p, v, old, new) /\ UNCHANGED <<state, shares, gone, calls>> /\ state[p] = "run"
      /\ ref' = [ref EXCEPT ![old] = @ - 1, ![new] = 1]
      /\ data' = [data EXCEPT ![new] = data[old]]
  BY <1>1 DEF CowFault, Placed, AfterCopy
<1>3. old \in Page /\ old # new /\ data[old] \in Value
  BY <1>1 DEF Mapped, IInv, TypeOK, Entry, Filled
<1> HIDE DEF old, new
<1>4. data'[new] \in Value /\ \A g \in Page \ {new} : data'[g] = data[g]
  BY <1>1, <1>2, <1>3 DEF IInv, TypeOK
<1>5. TypeOK'
  BY <1>1, <1>2, <1>3 DEF IInv, TypeOK, Entry, Placed
<1>6. RefsExact'
  <2> SUFFICES ASSUME NEW g \in Page PROVE ref'[g] = Cardinality(Mappings(g)') + shares'[g]
    BY DEF RefsExact
  <2>0. ref[g] = Cardinality(Mappings(g)) + shares[g] /\ Cardinality(Mappings(g)) \in Nat
    BY FiniteMappings DEF IInv, RefsExact
  <2>1. CASE g = new
    BY <2>1, <1>1, <1>2, <1>3, PlacedMappings DEF IInv, TypeOK
  <2>2. CASE g = old
    <3>1. Cardinality(Mappings(g)') = Cardinality(Mappings(g)) - 1
      BY <2>2, <1>2, <1>3, PlacedMappings
    <3> QED
      BY <2>0, <2>2, <3>1, <1>2, <1>3 DEF IInv, TypeOK
  <2>3. CASE g \notin {old, new}
    <3>1. Mappings(g)' = Mappings(g)
      BY <2>3, <1>2, <1>3, PlacedMappings
    <3> QED
      BY <2>0, <2>3, <3>1, <1>2 DEF IInv, TypeOK
  <2> QED
    BY <2>1, <2>2, <2>3
<1>7. Present' /\ NoStray' /\ SamePlace' /\ WriterAlone' /\ Filled'
  BY <1>2, <1>3, <1>4, <1>5, PlacedInv
<1> QED
  BY <1>5, <1>6, <1>7 DEF IInv

\* do_pgfault, case 2, without a copy: the page has one reference, so its only process
\* may write it from now on.
LEMMA OwnInv ==
  ASSUME IInv, NEW p \in Proc, NEW v \in VPage, CowFault(p, v), ~(ref[pte[p][v].page] > 1),
         Mapped(p, v)
  PROVE  IInv'
<1> DEFINE old == pte[p][v].page
<1>1. old \in Page /\ data[old] \in Value /\ ref[old] <= 1
  BY DEF Mapped, IInv, TypeOK, Entry, Filled
<1>2. /\ pte' = [pte EXCEPT ![p][v] = [page |-> old, w |-> TRUE, cow |-> FALSE]]
      /\ UNCHANGED <<state, ref, shares, gone, calls>>
      /\ data' = [data EXCEPT ![old] = data[old]]
  BY DEF CowFault
<1>3. data' = data
  BY <1>2 DEF IInv, TypeOK
<1>4. TypeOK'
  BY <1>1, <1>2, <1>3 DEF IInv, TypeOK, Entry
<1>5. \A q \in Proc, u \in VPage :
        pte'[q][u] = IF q = p /\ u = v THEN [page |-> old, w |-> TRUE, cow |-> FALSE] ELSE pte[q][u]
  BY <1>2 DEF IInv, TypeOK
<1>6. SamePages
  BY <1>5 DEF SamePages
<1>7. RefsExact'
  BY <1>2, <1>6, SameMappings DEF IInv, RefsExact
<1>8. \A q \in Proc, u \in VPage : pte[q][u].page = old => q = p /\ u = v
  BY <1>1, ReferencedOnce DEF IInv
<1>9. Present' /\ NoStray' /\ SamePlace' /\ Filled'
  BY <1>1, <1>2, <1>3, <1>6 DEF IInv, Present, NoStray, SamePlace, Filled, Mapped, SamePages, WithMemory
<1>10. WriterAlone'
  BY <1>5, <1>8 DEF IInv, WriterAlone, Mapped
<1> QED
  BY <1>4, <1>7, <1>9, <1>10 DEF IInv

\* do_pgfault, case 2.
LEMMA CowFaultInv == ASSUME IInv, NEW p \in Proc, NEW v \in VPage, CowFault(p, v) PROVE IInv'
<1>1. Mapped(p, v)
  BY DEF CowFault, IInv, Present
<1> QED
  BY <1>1, CopyInv, OwnInv

\* The entries after the fork map the same page, and neither can be written.
LEMMA Entries ==
  ASSUME NEW e \in Entry
  PROVE  /\ ParentEntry(e) \in Entry /\ ParentEntry(e).page = e.page /\ ~ParentEntry(e).w
         /\ (ParentEntry(e).cow => e.w \/ e.cow)
         /\ ChildEntry(e) \in Entry /\ ChildEntry(e).page = e.page /\ ~ChildEntry(e).w
         /\ (ChildEntry(e).cow => e.w)
  BY DEF Entry, ParentEntry, ChildEntry

\* A page a fork shares stands at one of the addresses it copies.
LEMMA SharedPlace ==
  ASSUME IInv, NEW p \in Proc, NEW V \in SUBSET VPage, NEW g \in SharedPages(p, V)
  PROVE  g \in Page /\ \E v \in V : pte[p][v].page = g /\ Mapped(p, v)
  BY DEF SharedPages, Mapped, IInv, TypeOK, Entry

\* fork: a page that is shared has one mapping more and two counts more, the second of
\* which stays (shares).
LEMMA ForkInv == ASSUME IInv, NEW p \in Proc, NEW q \in Proc, Fork(p, q) PROVE IInv'
<1>1. /\ p # q /\ state[p] = "run" /\ state[q] = "none" /\ data' = data /\ calls' = calls + 1
      /\ gone' = gone /\ state' = [state EXCEPT ![q] = "run"]
      /\ ref' = AfterSharing(p, VPage) /\ shares' = SharedOnce(p, VPage)
  BY DEF Fork
<1>2. pte' = [pte EXCEPT ![p] = [v \in VPage |-> ParentEntry(pte[p][v])],
                         ![q] = [v \in VPage |-> ChildEntry(pte[p][v])]]
  BY DEF Fork
<1>3. pte \in [Proc -> [VPage -> Entry]] /\ \A r \in Proc, v \in VPage : pte[r][v] \in Entry
  BY DEF IInv, TypeOK
<1>4. /\ \A v \in VPage : pte'[p][v] = ParentEntry(pte[p][v]) /\ pte'[q][v] = ChildEntry(pte[p][v])
      /\ \A r \in Proc \ {p, q} : pte'[r] = pte[r]
  BY <1>1, <1>2, <1>3
<1>5. pte' \in [Proc -> [VPage -> Entry]]
  <2>1. [v \in VPage |-> ParentEntry(pte[p][v])] \in [VPage -> Entry]
    BY <1>3, Entries
  <2>2. [v \in VPage |-> ChildEntry(pte[p][v])] \in [VPage -> Entry]
    BY <1>3, Entries
  <2> QED
    BY <1>2, <1>3, <2>1, <2>2
<1>6. TypeOK'
  <2>1. ref' \in [Page -> Int] /\ shares' \in [Page -> Nat]
    BY <1>1 DEF IInv, TypeOK, AfterSharing, SharedOnce
  <2>2. state' \in [Proc -> States]
    BY <1>1 DEF IInv, TypeOK, States
  <2> QED
    BY <1>1, <1>5, <2>1, <2>2 DEF IInv, TypeOK
<1>7. \A r \in Proc, v \in VPage :
        pte'[r][v].page = IF r = q THEN pte[p][v].page ELSE pte[r][v].page
  BY <1>3, <1>4, Entries
<1>8. \A v \in VPage : ~Mapped(q, v)
  BY <1>1 DEF IInv, NoStray, WithMemory
<1>9. RefsExact'
  <2> SUFFICES ASSUME NEW g \in Page PROVE ref'[g] = Cardinality(Mappings(g)') + shares'[g]
    BY DEF RefsExact
  <2>1. ref[g] = Cardinality(Mappings(g)) + shares[g] /\ ref[g] \in Int /\ shares[g] \in Nat
    BY DEF IInv, TypeOK, RefsExact
  <2>2. \A m \in Proc \X VPage :
          pte'[m[1]][m[2]].page = IF m[1] = q THEN pte[p][m[2]].page ELSE pte[m[1]][m[2]].page
    BY <1>7
  <2>3. \A m \in Mappings(g) : m[1] # q
    BY <1>8, PageFacts DEF Mappings, Mapped
  <2>4. CASE g \in SharedPages(p, VPage)
    <3>1. PICK v \in VPage : pte[p][v].page = g /\ Mapped(p, v)
      BY <2>4, SharedPlace
    <3>2. \A u \in VPage : pte[p][u].page = g => u = v
      BY <3>1 DEF IInv, SamePlace
    <3>3. Mappings(g)' = Mappings(g) \union {<<q, v>>}
      BY <2>2, <2>3, <3>1, <3>2 DEF Mappings
    <3>4. <<q, v>> \notin Mappings(g)
      BY <2>3
    <3>5. Cardinality(Mappings(g)') = Cardinality(Mappings(g)) + 1
      BY <3>3, <3>4, FiniteMappings, FS_AddElement
    <3>6. ref'[g] = ref[g] + 2 /\ shares'[g] = shares[g] + 1
      BY <1>1, <2>4 DEF AfterSharing, SharedOnce
    <3> QED
      BY <2>1, <3>5, <3>6, FiniteMappings
  <2>5. CASE g \notin SharedPages(p, VPage)
    <3>1. \A v \in VPage : pte[p][v].page # g
      BY <2>5, PageFacts DEF SharedPages, Mapped
    <3>2. Mappings(g)' = Mappings(g)
      BY <2>2, <2>3, <3>1 DEF Mappings
    <3>3. ref'[g] = ref[g] /\ shares'[g] = shares[g]
      BY <1>1, <2>5 DEF AfterSharing, SharedOnce
    <3> QED
      BY <2>1, <3>2, <3>3
  <2> QED
    BY <2>4, <2>5
<1>10. Present'
  BY <1>3, <1>4, <1>7, Entries DEF IInv, Present, Mapped
<1>11. NoStray'
  BY <1>1, <1>7 DEF IInv, TypeOK, NoStray, WithMemory, Mapped
<1>12. SamePlace' /\ Filled'
  BY <1>1, <1>7 DEF IInv, SamePlace, Filled, Mapped
<1>13. WriterAlone'
  <2> SUFFICES ASSUME NEW a \in Proc, NEW b \in Proc, NEW v \in VPage, a # b, Mapped(a, v)',
                      pte'[a][v].page = pte'[b][v].page
               PROVE  ~pte'[a][v].w
    BY DEF WriterAlone
  <2>1. CASE a \in {p, q}
    BY <2>1, <1>3, <1>4, Entries
  <2>2. CASE a \notin {p, q}
    <3>1. pte'[a][v] = pte[a][v] /\ Mapped(a, v)
      BY <2>2, <1>4 DEF Mapped
    <3>2. \E c \in Proc \ {a} : pte[c][v].page = pte[a][v].page
      BY <1>7, <2>2, <3>1
    <3> QED
      BY <3>1, <3>2 DEF IInv, WriterAlone
  <2> QED
    BY <2>1, <2>2
<1> QED
  BY <1>6, <1>9, <1>10, <1>11, <1>12, <1>13 DEF IInv

\* A fork that stops half-way leaves its parent's mappings, and a count too many.
LEMMA ForkFailsInv == ASSUME IInv, NEW p \in Proc, ForkFails(p) PROVE IInv'
<1>1. PICK V \in SUBSET VPage :
        /\ pte' = [pte EXCEPT ![p] =
                     [v \in VPage |-> IF v \in V THEN ParentEntry(pte[p][v]) ELSE pte[p][v]]]
        /\ ref' = [g \in Page |-> AfterSharing(p, V)[g] - (IF g \in SharedPages(p, V) THEN 1 ELSE 0)]
        /\ shares' = SharedOnce(p, V)
  <2>1. High \in SUBSET VPage /\ {} \in SUBSET VPage
    BY DEF VPage
  <2> QED
    BY <2>1 DEF ForkFails
<1>2. /\ state' = state /\ data' = data /\ calls' = calls + 1 /\ gone' \in {gone, gone + 1}
  BY DEF ForkFails
<1>3. pte \in [Proc -> [VPage -> Entry]] /\ \A r \in Proc, v \in VPage : pte[r][v] \in Entry
  BY DEF IInv, TypeOK
<1>4. /\ \A v \in VPage : pte'[p][v] \in {pte[p][v], ParentEntry(pte[p][v])}
      /\ \A r \in Proc \ {p} : pte'[r] = pte[r]
  BY <1>1, <1>3
<1>5. TypeOK'
  <2>1. [v \in VPage |-> IF v \in V THEN ParentEntry(pte[p][v]) ELSE pte[p][v]] \in [VPage -> Entry]
    BY <1>3, Entries
  <2>2. pte' \in [Proc -> [VPage -> Entry]]
    BY <1>1, <1>3, <2>1
  <2>3. ref' \in [Page -> Int] /\ shares' \in [Page -> Nat]
    BY <1>1 DEF IInv, TypeOK, AfterSharing, SharedOnce
  <2> QED
    BY <1>2, <2>2, <2>3 DEF IInv, TypeOK
<1>6. SamePages
  BY <1>3, <1>4, Entries DEF SamePages
<1>7. RefsExact'
  <2> SUFFICES ASSUME NEW g \in Page PROVE ref'[g] = Cardinality(Mappings(g)') + shares'[g]
    BY DEF RefsExact
  <2>1. ref[g] = Cardinality(Mappings(g)) + shares[g] /\ ref[g] \in Int /\ shares[g] \in Nat
    BY DEF IInv, TypeOK, RefsExact
  <2>2. Mappings(g)' = Mappings(g)
    BY <1>6, SameMappings
  <2>3. \/ ref'[g] = ref[g] + 1 /\ shares'[g] = shares[g] + 1
        \/ ref'[g] = ref[g] /\ shares'[g] = shares[g]
    BY <1>1, <2>1 DEF AfterSharing, SharedOnce
  <2> QED
    BY <2>1, <2>2, <2>3, FiniteMappings
<1>8. Present'
  BY <1>3, <1>4, <1>6, Entries DEF IInv, Present, Mapped, SamePages
<1>9. NoStray' /\ SamePlace' /\ Filled'
  BY <1>2, <1>6 DEF IInv, NoStray, SamePlace, Filled, Mapped, SamePages, WithMemory
<1>10. WriterAlone'
  <2> SUFFICES ASSUME NEW a \in Proc, NEW b \in Proc, NEW v \in VPage, a # b, Mapped(a, v)',
                      pte'[a][v].page = pte'[b][v].page
               PROVE  ~pte'[a][v].w
    BY DEF WriterAlone
  <2>1. ~pte[a][v].w
    BY <1>6 DEF IInv, WriterAlone, Mapped, SamePages
  <2> QED
    BY <2>1, <1>3, <1>4, Entries
<1> QED
  BY <1>5, <1>7, <1>8, <1>9, <1>10 DEF IInv

\* exit_mmap's counts are numbers.
LEMMA DroppedType == ASSUME IInv, NEW p \in Proc PROVE Dropped(p) \in [Page -> Int]
<1>1. \A g \in Page : Dropped(p)[g] \in Int
  BY DroppedCount, FiniteRest DEF IInv, TypeOK
<1> QED
  BY <1>1 DEF Dropped

\* exit_mmap leaves what the others' pages hold.
LEMMA KeptType ==
  ASSUME IInv, NEW p \in Proc
  PROVE  /\ Kept(p) \in [Page -> Value \union {NoValue}]
         /\ \A q \in Proc \ {p}, v \in VPage : Mapped(q, v) => Kept(p)[pte[q][v].page] = data[pte[q][v].page]
<1>1. Kept(p) \in [Page -> Value \union {NoValue}]
  BY DEF Kept, IInv, TypeOK
<1>2. ASSUME NEW q \in Proc \ {p}, NEW v \in VPage, Mapped(q, v)
      PROVE  Kept(p)[pte[q][v].page] = data[pte[q][v].page]
  <2>1. pte[q][v].page \in Page
    BY <1>2 DEF Mapped, IInv, TypeOK, Entry
  <2> QED
    BY <1>2, <2>1 DEF Kept
<1> QED
  BY <1>1, <1>2

\* exit, or an exec that fails: the others keep their mappings and their pages.
LEMMA LeavesInv ==
  ASSUME IInv, NEW p \in Proc, Leaves(p), gone' \in Nat, calls' \in Nat
  PROVE  IInv'
<1>1. /\ ref' = Dropped(p) /\ data' = Kept(p) /\ shares' = shares
      /\ pte' = [pte EXCEPT ![p] = [v \in VPage |-> NoPte]]
      /\ state' = [state EXCEPT ![p] = "zombie"]
  BY DEF Leaves
<1>2. [v \in VPage |-> NoPte] \in [VPage -> Entry]
  BY DEF NoPte, Entry
<1>3. TypeOK'
  BY <1>1, <1>2, DroppedType, KeptType DEF IInv, TypeOK, States
<1>4. \A v \in VPage : pte'[p][v] = NoPte
  BY <1>1 DEF IInv, TypeOK
<1>5. \A q \in Proc \ {p} : pte'[q] = pte[q] /\ state'[q] = state[q]
  BY <1>1 DEF IInv, TypeOK
<1>6. RefsExact'
  <2> SUFFICES ASSUME NEW g \in Page PROVE ref'[g] = Cardinality(Mappings(g)') + shares'[g]
    BY DEF RefsExact
  <2>1. \A q \in Proc, v \in VPage : pte'[q][v].page = g <=> pte[q][v].page = g /\ q # p
    BY <1>4, <1>5, PageFacts DEF NoPte
  <2>2. \A m \in Proc \X VPage : pte'[m[1]][m[2]].page = g <=> pte[m[1]][m[2]].page = g /\ m[1] # p
    BY <2>1
  <2>3. Mappings(g)' = Rest(p, g)
    BY <2>2 DEF Mappings, Rest
  <2> QED
    BY <1>1, <2>3, DroppedCount
<1>7. \A v \in VPage : pte'[p][v].page = 0 /\ ~pte'[p][v].w /\ ~pte'[p][v].cow
  BY <1>4 DEF NoPte
<1>8. Present' /\ NoStray' /\ SamePlace' /\ WriterAlone'
  BY <1>1, <1>5, <1>7 DEF IInv, TypeOK, Present, NoStray, SamePlace, WriterAlone, WithMemory, Mapped
<1>9. Filled'
  <2> SUFFICES ASSUME NEW q \in Proc, NEW v \in VPage, Mapped(q, v)' PROVE data'[pte'[q][v].page] \in Value
    BY DEF Filled
  <2>1. q # p
    BY <1>7 DEF Mapped
  <2>2. Mapped(q, v) /\ pte'[q][v] = pte[q][v]
    BY <2>1, <1>5 DEF Mapped
  <2> QED
    BY <2>1, <2>2, <1>1, KeptType DEF IInv, Filled
<1> QED
  BY <1>3, <1>6, <1>8, <1>9 DEF IInv

\* The two pages exec takes are free after exit_mmap, and different.
LEMMA ExecPages ==
  ASSUME IInv, NEW p \in Proc, Room(Dropped(p), WithMemory \ {p}) >= TABLES + 2
  PROVE  LET d == FreePage(Dropped(p))
             s == FreePage([Dropped(p) EXCEPT ![d] = 1])
         IN  d \in Page /\ s \in Page /\ d # s /\ Dropped(p)[d] = 0 /\ Dropped(p)[s] = 0
<1> DEFINE r == Dropped(p)
           d == FreePage(r)
           r2 == [r EXCEPT ![d] = 1]
           s == FreePage(r2)
<1>1. r \in [Page -> Int]
  BY DroppedType
<1>2. /\ Cardinality(Counted(r)) \in Nat /\ Room(r, WithMemory \ {p}) \in Int
      /\ Room(r, WithMemory \ {p}) <= NPAGES - Cardinality(Counted(r))
  <2>1. WithMemory \ {p} \in SUBSET Proc /\ gone \in Nat
    BY DEF WithMemory, IInv, TypeOK
  <2> QED
    BY <2>1, RoomFree
<1>3. Cardinality(Counted(r)) + 1 < NPAGES
  BY <1>2, PageFacts DEF TABLES
<1>4. d \in Page /\ r[d] = 0
  BY <1>2, <1>3, PageFacts, FreePageFree
<1>5. Counted(r2) = Counted(r) \union {d} /\ d \notin Counted(r)
  BY <1>1, <1>4 DEF Counted
<1>6. Cardinality(Counted(r2)) = Cardinality(Counted(r)) + 1
  BY <1>5, FiniteCounted, FS_AddElement
<1>7. s \in Page /\ r2[s] = 0
  BY <1>3, <1>6, FreePageFree
<1>8. s # d /\ r[s] = 0
  BY <1>1, <1>4, <1>7
<1> QED
  BY <1>4, <1>7, <1>8

\* exec: the new pages are the process's own.
LEMMA ExecInv == ASSUME IInv, NEW p \in Proc, Exec(p) PROVE IInv'
<1> DEFINE d == FreePage(Dropped(p))
           s == FreePage([Dropped(p) EXCEPT ![d] = 1])
           entry(g) == [page |-> g, w |-> TRUE, cow |-> FALSE]
           image == [v \in VPage |-> IF v = "deep" THEN NoPte
                                     ELSE [page |-> IF v = "data" THEN d ELSE s, w |-> TRUE, cow |-> FALSE]]
<1>1. d \in Page /\ s \in Page /\ d # s /\ Dropped(p)[d] = 0 /\ Dropped(p)[s] = 0
  BY ExecPages DEF Exec
<1>2. /\ ref' = [Dropped(p) EXCEPT ![d] = 1, ![s] = 1]
      /\ \E x, y \in Value : data' = [Kept(p) EXCEPT ![d] = x, ![s] = y]
      /\ pte' = [pte EXCEPT ![p] = image]
      /\ state' = [state EXCEPT ![p] = "run"] /\ calls' = calls + 1
      /\ UNCHANGED <<gone, shares>>
  BY DEF Exec
<1>3. /\ shares[d] = 0 /\ shares[s] = 0
      /\ \A q \in Proc \ {p}, v \in VPage : pte[q][v].page \notin {d, s}
  BY <1>1, DroppedUnreferenced
<1> HIDE DEF d, s
<1>4. /\ VPage = {"data", "stack", "deep"} /\ image \in [VPage -> Entry]
      /\ image["data"] = entry(d) /\ image["stack"] = entry(s) /\ image["deep"] = NoPte
  <2>1. VPage = {"data", "stack", "deep"}
    BY DEF VPage, High
  <2>2. \A v \in VPage : image[v] \in Entry
    BY <1>1 DEF Entry, NoPte
  <2> QED
    BY <2>1, <2>2
<1>5. /\ ref' \in [Page -> Int] /\ data' \in [Page -> Value \union {NoValue}]
      /\ data'[d] \in Value /\ data'[s] \in Value
      /\ \A g \in Page \ {d, s} : data'[g] = Kept(p)[g] /\ ref'[g] = Dropped(p)[g]
      /\ ref'[d] = 1 /\ ref'[s] = 1
  BY <1>1, <1>2, DroppedType, KeptType
<1> HIDE DEF image
<1>6. pte'[p] = image /\ \A q \in Proc \ {p} : pte'[q] = pte[q] /\ state'[q] = state[q]
  BY <1>2 DEF IInv, TypeOK
<1>7. TypeOK'
  BY <1>2, <1>4, <1>5 DEF IInv, TypeOK, States
<1>8. /\ pte'[p]["data"].page = d /\ pte'[p]["stack"].page = s /\ pte'[p]["deep"].page = 0
      /\ ~pte'[p]["deep"].w /\ ~pte'[p]["deep"].cow
  BY <1>4, <1>6 DEF NoPte
<1>9. \A v \in VPage : pte'[p][v].page \in {d, s, 0}
  BY <1>4, <1>8
<1>10. RefsExact'
  <2> SUFFICES ASSUME NEW g \in Page PROVE ref'[g] = Cardinality(Mappings(g)') + shares'[g]
    BY DEF RefsExact
  <2>1. CASE g \in {d, s}
    <3> DEFINE u == IF g = d THEN "data" ELSE "stack"
    <3>1. \A q \in Proc, v \in VPage : pte'[q][v].page = g <=> q = p /\ v = u
      BY <2>1, <1>1, <1>3, <1>4, <1>6, <1>8, PageFacts
    <3>2. u \in VPage
      BY <1>4
    <3> HIDE DEF u
    <3>3. \A m \in Proc \X VPage : pte'[m[1]][m[2]].page = g <=> m = <<p, u>>
      BY <3>1
    <3>4. Mappings(g)' = {<<p, u>>}
      BY <3>2, <3>3 DEF Mappings
    <3>5. Cardinality(Mappings(g)') = 1
      BY <3>4, FS_Singleton
    <3> QED
      BY <2>1, <3>5, <1>2, <1>3, <1>5
  <2>2. CASE g \notin {d, s}
    <3>1. \A q \in Proc, v \in VPage : pte'[q][v].page = g <=> pte[q][v].page = g /\ q # p
      BY <2>2, <1>6, <1>9, PageFacts
    <3>2. \A m \in Proc \X VPage : pte'[m[1]][m[2]].page = g <=> pte[m[1]][m[2]].page = g /\ m[1] # p
      BY <3>1
    <3>3. Mappings(g)' = Rest(p, g)
      BY <3>2 DEF Mappings, Rest
    <3> QED
      BY <2>2, <3>3, <1>2, <1>5, DroppedCount
  <2> QED
    BY <2>1, <2>2
<1>11. Present'
  BY <1>1, <1>4, <1>6, <1>8, PageFacts DEF IInv, Present, Mapped
<1>12. NoStray'
  BY <1>2, <1>6 DEF IInv, TypeOK, NoStray, WithMemory, Mapped
<1>13. \A q \in Proc \ {p}, v \in VPage, u \in VPage :
         Mapped(p, v)' \/ Mapped(q, u)' => pte'[p][v].page # pte'[q][u].page
  BY <1>3, <1>6, <1>9 DEF Mapped
<1>14. \A v, u \in VPage : Mapped(p, v)' /\ pte'[p][v].page = pte'[p][u].page => v = u
  BY <1>1, <1>4, <1>8, PageFacts DEF Mapped
<1>15. SamePlace' /\ WriterAlone'
  BY <1>6, <1>13, <1>14 DEF IInv, SamePlace, WriterAlone, Mapped
<1>16. Filled'
  <2> SUFFICES ASSUME NEW q \in Proc, NEW v \in VPage, Mapped(q, v)' PROVE data'[pte'[q][v].page] \in Value
    BY DEF Filled
  <2>1. CASE q = p
    <3>1. pte'[p][v].page \in {d, s}
      BY <2>1, <1>9 DEF Mapped
    <3> QED
      BY <2>1, <3>1, <1>5
  <2>2. CASE q # p
    <3>1. Mapped(q, v) /\ pte'[q][v] = pte[q][v] /\ pte[q][v].page \in Page \ {d, s}
      BY <2>2, <1>3, <1>6 DEF Mapped, IInv, TypeOK, Entry
    <3> QED
      BY <2>2, <3>1, <1>5, KeptType DEF IInv, Filled
  <2> QED
    BY <2>1, <2>2
<1> QED
  BY <1>7, <1>10, <1>11, <1>12, <1>15, <1>16 DEF IInv

\* Every step of the kernel keeps the invariant.
LEMMA NextInv == ASSUME IInv, [Next]_vars PROVE IInv'
<1>1. CASE UNCHANGED vars
  <2>1. UNCHANGED <<state, pte, ref, data, gone, shares, calls>>
    BY <1>1 DEF vars
  <2>2. TypeOK' /\ WithMemory' = WithMemory
    BY <2>1 DEF IInv, TypeOK, WithMemory
  <2> QED
    BY <2>1, <2>2, StayInv
<1>2. ASSUME NEW p \in Proc, ExecFails(p) \/ Exit(p) PROVE IInv'
  <2>1. Leaves(p) /\ gone' \in Nat /\ calls' \in Nat
    BY <1>2 DEF ExecFails, Exit, IInv, TypeOK
  <2> QED
    BY <2>1, LeavesInv
<1>3. ASSUME NEW p \in Proc, ExecPanics(p) PROVE IInv'
  <2>1. "data" \in VPage
    BY DEF VPage
  <2> QED
    BY <1>3, <2>1, PanicsInv
<1> QED
  BY <1>1, <1>2, <1>3, ForkInv, ForkFailsInv, StoreInv, CowFaultInv, FirstTouchInv, FaultsForeverInv,
     WaitStoresInv, PanicsInv, ExecInv, ReapInv DEF Next

\* In every reachable state, for any number of processes and pages: the counts are exact,
\* a process without memory maps nothing, a page is shared at one address only, and a
\* page that is written is mapped by one process.
THEOREM Inductive == Spec => []IInv
<1>1. Init => IInv
  BY InitInv
<1>2. IInv /\ [Next]_vars => IInv'
  BY NextInv
<1> QED
  BY <1>1, <1>2, PTL DEF Spec

\* page->ref is the number of entries that map the page and one more for every fork that
\* shared it: page_insert, page_remove and copy_range never lose a count, so a page that
\* is mapped is never handed out by alloc_page.
THEOREM PageCounts == Spec => []RefsExact
<1>1. IInv => RefsExact
  BY DEF IInv
<1> QED
  BY <1>1, Inductive, PTL

(***************************************************************************)
(* Each step is a step of MemorySpec                                       *)
(***************************************************************************)
\* What a process reads at an address is a value, or nothing yet.
LEMMA MemType == /\ IInv => Mem \in [Proc -> [VPage -> Value \union {NoValue}]]
                 /\ IInv' => Mem' \in [Proc -> [VPage -> Value \union {NoValue}]]
  BY DEF IInv, Filled, Mem

\* Steps that move no page and store nothing leave the memories as they were.
LEMMA SameMem ==
  ASSUME SamePages, \A p \in Proc, v \in VPage : Mapped(p, v) => data'[pte[p][v].page] = data[pte[p][v].page]
  PROVE  Mem' = Mem
  BY DEF Mem, Mapped, SamePages

\* A function that differs from f at q only, where it is f[p].
LEMMA SameAfterCopy ==
  ASSUME NEW S, NEW f \in [Proc -> [VPage -> S]], NEW h \in [Proc -> [VPage -> S]],
         NEW p \in Proc, NEW q \in Proc,
         \A r \in Proc, v \in VPage : h[r][v] = IF r = q THEN f[p][v] ELSE f[r][v]
  PROVE  h = [f EXCEPT ![q] = f[p]]
<1>1. \A r \in Proc : h[r] \in [VPage -> S] /\ f[r] \in [VPage -> S]
  OBVIOUS
<1>2. h[q] = f[p] /\ \A r \in Proc \ {q} : h[r] = f[r]
  BY <1>1
<1> QED
  BY <1>2

\* A function that differs from f at one address of p only.
LEMMA SameAfterStore ==
  ASSUME NEW S, NEW f \in [Proc -> [VPage -> S]], NEW h \in [Proc -> [VPage -> S]],
         NEW p \in Proc, NEW v \in VPage, NEW x \in S,
         \A r \in Proc, u \in VPage : h[r][u] = IF r = p /\ u = v THEN x ELSE f[r][u]
  PROVE  h = [f EXCEPT ![p][v] = x]
<1>1. \A r \in Proc : h[r] \in [VPage -> S] /\ f[r] \in [VPage -> S]
  OBVIOUS
<1>2. h[p] = [f[p] EXCEPT ![v] = x]
  BY <1>1
<1>3. \A r \in Proc \ {p} : h[r] = f[r]
  BY <1>1
<1> QED
  BY <1>2, <1>3

\* At first no process has a memory.
LEMMA InitRefines == Init => Memory!Init
<1> SUFFICES ASSUME Init PROVE Memory!Init
  OBVIOUS
<1>1. WithMemory = {}
  BY DEF Init, WithMemory
<1>2. \A p \in Proc, v \in VPage : ~Mapped(p, v)
  BY DEF Init, Mapped, NoPte
<1>3. Mem = [p \in Proc |-> [v \in VPage |-> NoValue]]
  BY <1>2 DEF Mem
<1> QED
  BY <1>1, <1>3 DEF Init, Memory!Init, Memory!Untouched

\* fork gives the child the memory of its parent, and nobody else's changes.
LEMMA ForkRefines == ASSUME IInv, IInv', NEW p \in Proc, NEW q \in Proc, Fork(p, q) PROVE Memory!Fork(p, q)
<1>1. /\ p # q /\ state[p] = "run" /\ state[q] = "none" /\ data' = data /\ calls' = calls + 1
      /\ state' = [state EXCEPT ![q] = "run"]
      /\ pte' = [pte EXCEPT ![p] = [v \in VPage |-> ParentEntry(pte[p][v])],
                            ![q] = [v \in VPage |-> ChildEntry(pte[p][v])]]
  BY DEF Fork
<1>2. p \in WithMemory /\ q \notin WithMemory /\ WithMemory' = WithMemory \union {q}
  BY <1>1 DEF IInv, TypeOK, WithMemory
<1>3. \A r \in Proc, v \in VPage :
        pte'[r][v].page = IF r = q THEN pte[p][v].page ELSE pte[r][v].page
  <2>1. \A r \in Proc, v \in VPage : pte[r][v] \in Entry
    BY DEF IInv, TypeOK
  <2>2. /\ \A v \in VPage : pte'[p][v] = ParentEntry(pte[p][v]) /\ pte'[q][v] = ChildEntry(pte[p][v])
        /\ \A r \in Proc \ {p, q} : pte'[r] = pte[r]
    BY <1>1 DEF IInv, TypeOK
  <2> QED
    BY <2>1, <2>2, Entries
<1>4. \A r \in Proc, v \in VPage : Mem'[r][v] = IF r = q THEN Mem[p][v] ELSE Mem[r][v]
  <2> SUFFICES ASSUME NEW r \in Proc, NEW v \in VPage
               PROVE  Mem'[r][v] = IF r = q THEN Mem[p][v] ELSE Mem[r][v]
    OBVIOUS
  <2>1. data' = data
    BY <1>1
  <2>2. CASE r = q
    BY <1>3, <2>1, <2>2 DEF Mem, Mapped
  <2>3. CASE r # q
    BY <1>3, <2>1, <2>3 DEF Mem, Mapped
  <2> QED
    BY <2>2, <2>3
<1>5. Mem' = [Mem EXCEPT ![q] = Mem[p]]
  BY <1>4, MemType, SameAfterCopy
<1> QED
  BY <1>1, <1>2, <1>5 DEF Memory!Fork

\* x goes to the page that stands at v of p, and at no other place.
Wrote(p, v, new, x) ==
  /\ new \in Page /\ x \in Value /\ pte'[p][v].page = new
  /\ data' = [data EXCEPT ![new] = x]
  /\ \A q \in Proc, u \in VPage :
       <<q, u>> # <<p, v>> => pte'[q][u].page = pte[q][u].page /\ pte[q][u].page # new

\* What is written to a page with one mapping is read at that address only.
LEMMA OneWrite ==
  ASSUME IInv, IInv', NEW p \in Proc, NEW v \in VPage, NEW new, NEW x, Wrote(p, v, new, x)
  PROVE  Mem' = [Mem EXCEPT ![p][v] = x]
<1>1. x \in Value /\ data'[new] = x /\ \A g \in Page \ {new} : data'[g] = data[g]
  BY DEF IInv, TypeOK, Wrote
<1>2. \A q \in Proc, u \in VPage : Mapped(q, u) => pte[q][u].page \in Page
  BY DEF Mapped, IInv, TypeOK, Entry
<1>3. \A q \in Proc, u \in VPage : Mem'[q][u] = IF q = p /\ u = v THEN x ELSE Mem[q][u]
  BY <1>1, <1>2, PageFacts DEF Mem, Mapped, Wrote
<1> QED
  BY <1>1, <1>3, MemType, SameAfterStore

\* A page that can be written stands in one entry.
LEMMA OneEntry ==
  ASSUME IInv, NEW p \in Proc, NEW v \in VPage, pte[p][v].w
  PROVE  /\ pte[p][v].page \in Page /\ data[pte[p][v].page] \in Value /\ Mapped(p, v)
         /\ \A q \in Proc, u \in VPage : <<q, u>> # <<p, v>> => pte[q][u].page # pte[p][v].page
<1>1. Mapped(p, v)
  BY DEF IInv, Present
<1>2. pte[p][v].page \in Page /\ data[pte[p][v].page] \in Value
  BY <1>1 DEF IInv, TypeOK, Entry, Filled, Mapped
<1>3. ASSUME NEW q \in Proc, NEW u \in VPage, pte[q][u].page = pte[p][v].page PROVE q = p /\ u = v
  <2>1. u = v
    BY <1>1, <1>3 DEF IInv, SamePlace
  <2> QED
    BY <1>1, <1>3, <2>1 DEF IInv, WriterAlone
<1> QED
  BY <1>1, <1>2, <1>3

\* A store through a writable entry changes one memory: the page is nobody else's.
LEMMA StoreRefines ==
  ASSUME IInv, IInv', NEW p \in Proc, NEW v \in VPage, state[p] = "run", pte[p][v].w,
         NEW x \in Value, data' = [data EXCEPT ![pte[p][v].page] = x],
         UNCHANGED <<pte, calls>>, WithMemory' = WithMemory
  PROVE  Memory!Store(p, v)
<1>1. Mem' = [Mem EXCEPT ![p][v] = x]
  <2>1. Wrote(p, v, pte[p][v].page, x)
    BY OneEntry DEF Wrote
  <2> QED
    BY <2>1, OneWrite
<1>2. Mem[p][v] \in Value
  BY OneEntry DEF Mem
<1>3. p \in WithMemory
  BY DEF WithMemory
<1> QED
  BY <1>1, <1>2, <1>3, CowAssumption DEF Memory!Store

\* The first touch of a page changes one memory.
LEMMA FirstTouchRefines ==
  ASSUME IInv, IInv', NEW p \in Proc, NEW v \in VPage, FirstTouch(p, v)
  PROVE  Memory!FirstTouch(p, v)
<1> DEFINE new == FreePage(ref)
<1>1. /\ new \in Page /\ \A q \in Proc, u \in VPage : pte[q][u].page # new
  BY Allocated DEF FirstTouch
<1>2. PICK x \in Value : data' = [data EXCEPT ![new] = x]
  BY DEF FirstTouch
<1>3. pte' = [pte EXCEPT ![p][v] = [page |-> new, w |-> TRUE, cow |-> FALSE]]
  BY DEF FirstTouch
<1> HIDE DEF new
<1>4. /\ pte'[p][v].page = new
      /\ \A q \in Proc, u \in VPage : <<q, u>> # <<p, v>> => pte'[q][u].page = pte[q][u].page
  BY <1>3 DEF IInv, TypeOK
<1>5. Mem' = [Mem EXCEPT ![p][v] = x]
  <2>1. Wrote(p, v, new, x)
    BY <1>1, <1>2, <1>4 DEF Wrote
  <2> QED
    BY <2>1, OneWrite
<1>6. Mem[p][v] = NoValue /\ p \in WithMemory /\ WithMemory' = WithMemory /\ calls' = calls
  BY DEF FirstTouch, Mem, WithMemory
<1> QED
  BY <1>5, <1>6 DEF Memory!FirstTouch

\* Nobody sees the copy that do_pgfault makes.
LEMMA CowFaultRefines ==
  ASSUME IInv, IInv', NEW p \in Proc, NEW v \in VPage, CowFault(p, v)
  PROVE  Mem' = Mem
<1> DEFINE old == pte[p][v].page
           new == FreePage(ref)
<1>1. Mapped(p, v) /\ old \in Page /\ data[old] \in Value
  BY SMTT(60) DEF CowFault, IInv, Present, TypeOK, Entry, Filled, Mapped
<1>2. CASE ref[old] > 1
  <2>1. /\ new \in Page /\ \A q \in Proc, u \in VPage : pte[q][u].page # new
    BY <1>2, Allocated DEF CowFault
  <2>2. /\ data' = [data EXCEPT ![new] = data[old]]
        /\ pte' = [pte EXCEPT ![p][v] = [page |-> new, w |-> TRUE, cow |-> FALSE]]
    BY <1>2 DEF CowFault
  <2>3. Mem[p][v] = data[old]
    BY <1>1 DEF Mem
  <2> HIDE DEF old, new
  <2>4. /\ pte'[p][v].page = new
        /\ \A q \in Proc, u \in VPage : <<q, u>> # <<p, v>> => pte'[q][u].page = pte[q][u].page
    BY <2>2 DEF IInv, TypeOK
  <2>5. Mem' = [Mem EXCEPT ![p][v] = data[old]]
    <3>1. Wrote(p, v, new, data[old])
      BY <1>1, <2>1, <2>2, <2>4 DEF Wrote
    <3> QED
      BY <3>1, OneWrite
  <2> QED
    BY <2>3, <2>5, MemType
<1>3. CASE ~(ref[old] > 1)
  <2>1. /\ data' = [data EXCEPT ![old] = data[old]]
        /\ pte' = [pte EXCEPT ![p][v] = [page |-> old, w |-> TRUE, cow |-> FALSE]]
    BY <1>3 DEF CowFault
  <2>2. data' = data
    BY <2>1 DEF IInv, TypeOK
  <2>3. SamePages
    BY <2>1 DEF SamePages, IInv, TypeOK
  <2> QED
    BY <2>2, <2>3, SameMem
<1> QED
  BY <1>2, <1>3

\* Steps that change the memory of p as a whole change no other.
LEMMA OneMemory ==
  ASSUME IInv, IInv', NEW p \in Proc,
         \A q \in Proc \ {p} : pte'[q] = pte[q],
         \A q \in Proc \ {p}, v \in VPage : Mapped(q, v) => data'[pte[q][v].page] = data[pte[q][v].page]
  PROVE  Mem' = [Mem EXCEPT ![p] = Mem'[p]]
<1>1. \A q \in Proc \ {p}, v \in VPage : Mem'[q][v] = Mem[q][v]
  BY DEF Mem, Mapped
<1>2. /\ Mem \in [Proc -> [VPage -> Value \union {NoValue}]]
      /\ Mem' \in [Proc -> [VPage -> Value \union {NoValue}]]
  BY MemType
<1>3. \A q \in Proc \ {p} : Mem'[q] = Mem[q]
  <2> SUFFICES ASSUME NEW q \in Proc \ {p} PROVE Mem'[q] = Mem[q]
    OBVIOUS
  <2>1. Mem[q] \in [VPage -> Value \union {NoValue}] /\ Mem'[q] \in [VPage -> Value \union {NoValue}]
    BY <1>2
  <2> QED
    BY <1>1, <2>1
<1> QED
  BY <1>2, <1>3

\* exit takes one memory away.
LEMMA LeavesRefines ==
  ASSUME IInv, IInv', NEW p \in Proc, Leaves(p), calls' \in {calls, calls + 1},
         p \notin WithMemory => calls' = calls + 1
  PROVE  Memory!Leave(p) \/ Memory!Refused
<1>1. /\ data' = Kept(p) /\ pte' = [pte EXCEPT ![p] = [v \in VPage |-> NoPte]]
      /\ state' = [state EXCEPT ![p] = "zombie"]
  BY DEF Leaves
<1>2. WithMemory' = WithMemory \ {p}
  BY <1>1 DEF IInv, TypeOK, WithMemory
<1>3. Mem' = [Mem EXCEPT ![p] = Mem'[p]]
  <2>1. \A q \in Proc \ {p} : pte'[q] = pte[q]
    BY <1>1 DEF IInv, TypeOK
  <2> QED
    BY <2>1, <1>1, KeptType, OneMemory
<1>4. Mem'[p] = [v \in VPage |-> NoValue]
  <2>1. \A v \in VPage : ~Mapped(p, v)'
    BY <1>1 DEF IInv, TypeOK, Mapped, NoPte
  <2> QED
    BY <2>1 DEF Mem
<1>5. CASE p \in WithMemory
  BY <1>2, <1>3, <1>4, <1>5 DEF Memory!Leave, Memory!Untouched
<1>6. CASE p \notin WithMemory
  <2>1. Mem[p] = [v \in VPage |-> NoValue]
    BY <1>6 DEF Mem, IInv, NoStray
  <2>2. Mem' = Mem
    BY <1>3, <1>4, <2>1, MemType
  <2> QED
    BY <1>2, <1>6, <2>2 DEF Memory!Refused
<1> QED
  BY <1>5, <1>6

\* exec loads one memory.
LEMMA ExecRefines == ASSUME IInv, IInv', NEW p \in Proc, Exec(p) PROVE Memory!Load(p)
<1> DEFINE d == FreePage(Dropped(p))
           s == FreePage([Dropped(p) EXCEPT ![d] = 1])
<1>1. d \in Page /\ s \in Page /\ d # s /\ Dropped(p)[d] = 0 /\ Dropped(p)[s] = 0
  BY ExecPages DEF Exec
<1>2. /\ \A q \in Proc \ {p}, v \in VPage : pte[q][v].page \notin {d, s}
  BY <1>1, DroppedUnreferenced
<1>3. /\ \E x, y \in Value : data' = [Kept(p) EXCEPT ![d] = x, ![s] = y]
      /\ \A q \in Proc \ {p} : pte'[q] = pte[q]
      /\ state' = [state EXCEPT ![p] = "run"] /\ calls' = calls + 1
  BY DEF Exec, IInv, TypeOK
<1> HIDE DEF d, s
<1>4. \A g \in Page \ {d, s} : data'[g] = Kept(p)[g]
  BY <1>1, <1>3, KeptType
<1>5. ASSUME NEW q \in Proc \ {p}, NEW v \in VPage, Mapped(q, v)
      PROVE  data'[pte[q][v].page] = data[pte[q][v].page]
  <2>1. pte[q][v].page \in Page \ {d, s}
    BY <1>2, <1>5 DEF Mapped, IInv, TypeOK, Entry
  <2> QED
    BY <2>1, <1>4, <1>5, KeptType
<1>6. Mem' = [Mem EXCEPT ![p] = Mem'[p]]
  BY <1>3, <1>5, OneMemory
<1>7. Mem'[p] \in [VPage -> Value \union {NoValue}]
  BY MemType
<1>8. WithMemory' = WithMemory \union {p}
  BY <1>3 DEF IInv, TypeOK, WithMemory
<1> QED
  BY <1>3, <1>6, <1>7, <1>8 DEF Memory!Load

\* Faults that are not resolved, failed assertions and do_wait without a place for the
\* exit code are seen in no memory.
LEMMA HiddenRefines ==
  ASSUME IInv, NEW p \in Proc, NEW v \in VPage,
         FaultsForever(p, v) \/ WaitFaults(p, v) \/ ExecPanics(p) \/ Reap(p)
  PROVE  UNCHANGED <<WithMemory, Mem, calls>>
<1>1. UNCHANGED <<pte, data, calls>>
  BY DEF FaultsForever, WaitFaults, ExecPanics, Reap
<1>2. WithMemory' = WithMemory
  BY DEF FaultsForever, WaitFaults, ExecPanics, Reap, WithMemory, IInv, TypeOK
<1>3. Mem' = Mem
  BY <1>1 DEF Mem, Mapped
<1> QED
  BY <1>1, <1>2, <1>3

\* A fork that fails, even half-way, is seen in no memory.
LEMMA ForkFailsRefines == ASSUME IInv, NEW p \in Proc, ForkFails(p) PROVE Memory!Refused
<1>1. PICK V \in SUBSET VPage :
        pte' = [pte EXCEPT ![p] = [v \in VPage |-> IF v \in V THEN ParentEntry(pte[p][v]) ELSE pte[p][v]]]
  <2>1. High \in SUBSET VPage /\ {} \in SUBSET VPage
    BY DEF VPage
  <2> QED
    BY <2>1 DEF ForkFails
<1>2. /\ \A v \in VPage : pte'[p][v] \in {pte[p][v], ParentEntry(pte[p][v])}
      /\ \A r \in Proc \ {p} : pte'[r] = pte[r]
      /\ \A r \in Proc, v \in VPage : pte[r][v] \in Entry
  BY <1>1 DEF IInv, TypeOK
<1>3. SamePages
  BY <1>2, Entries DEF SamePages
<1>4. data' = data /\ state' = state /\ calls' = calls + 1
  BY DEF ForkFails
<1>5. Mem' = Mem
  BY <1>3, <1>4, SameMem
<1> QED
  BY <1>4, <1>5 DEF Memory!Refused, WithMemory

\* Every step of the kernel is a step of MemorySpec, or hidden.
LEMMA NextRefines ==
  ASSUME IInv, IInv', [Next]_vars
  PROVE  Memory!Next \/ UNCHANGED <<WithMemory, Mem, calls>>
<1>1. CASE UNCHANGED vars
  BY <1>1 DEF vars, WithMemory, Mem, Mapped
<1>2. CASE Next
  <2>1. PICK p \in Proc :
          \/ \E q \in Proc : Fork(p, q)
          \/ ForkFails(p)
          \/ \E v \in VPage :
               \/ Store(p, v)
               \/ CowFault(p, v) \/ FirstTouch(p, v) \/ FaultsForever(p, v)
               \/ WaitStores(p, v) \/ WaitFaults(p, v)
          \/ Exec(p) \/ ExecFails(p) \/ ExecPanics(p)
          \/ Exit(p) \/ Reap(p)
    BY <1>2 DEF Next
  <2>2. ASSUME NEW q \in Proc, Fork(p, q) PROVE Memory!Next
    BY <2>2, ForkRefines DEF Memory!Next
  <2>3. CASE ForkFails(p)
    BY <2>3, ForkFailsRefines DEF Memory!Next
  <2>4. ASSUME NEW v \in VPage, Store(p, v) PROVE Memory!Next
    <3>1. PICK x \in Value : data' = [data EXCEPT ![pte[p][v].page] = x]
      BY <2>4 DEF Store
    <3>2. state[p] = "run" /\ pte[p][v].w /\ UNCHANGED <<pte, calls>> /\ WithMemory' = WithMemory
      BY <2>4 DEF Store, WithMemory
    <3>3. Memory!Store(p, v)
      BY <3>1, <3>2, StoreRefines
    <3> QED
      BY <3>3 DEF Memory!Next
  <2>5. ASSUME NEW v \in VPage, CowFault(p, v) PROVE UNCHANGED <<WithMemory, Mem, calls>>
    <3>1. UNCHANGED <<state, calls>>
      BY <2>5 DEF CowFault
    <3> QED
      BY <2>5, <3>1, CowFaultRefines DEF WithMemory
  <2>6. ASSUME NEW v \in VPage, FirstTouch(p, v) PROVE Memory!Next
    BY <2>6, FirstTouchRefines DEF Memory!Next
  <2>7. ASSUME NEW v \in VPage, WaitStores(p, v) PROVE Memory!Next
    <3>1. PICK r \in Proc : /\ state[r] = "run" /\ pte[r][v].w
                            /\ \E x \in Value : data' = [data EXCEPT ![pte[r][v].page] = x]
      BY <2>7 DEF WaitStores
    <3>2. PICK x \in Value : data' = [data EXCEPT ![pte[r][v].page] = x]
      BY <3>1
    <3>3. UNCHANGED <<pte, calls>> /\ WithMemory' = WithMemory
      BY <2>7 DEF WaitStores, WithMemory, IInv, TypeOK
    <3>4. Memory!Store(r, v)
      BY <3>1, <3>2, <3>3, StoreRefines
    <3> QED
      BY <3>4 DEF Memory!Next
  <2>8. ASSUME NEW v \in VPage, FaultsForever(p, v) \/ WaitFaults(p, v) \/ ExecPanics(p) \/ Reap(p)
        PROVE  UNCHANGED <<WithMemory, Mem, calls>>
    BY <2>8, HiddenRefines
  <2>9. CASE ExecPanics(p) \/ Reap(p)
    <3>1. "data" \in VPage
      BY DEF VPage
    <3> QED
      BY <2>8, <2>9, <3>1
  <2>10. CASE Exec(p)
    BY <2>10, ExecRefines DEF Memory!Next
  <2>11. CASE ExecFails(p) \/ Exit(p)
    <3>1. /\ Leaves(p) /\ calls' \in {calls, calls + 1}
          /\ p \notin WithMemory => calls' = calls + 1
      BY <2>11 DEF ExecFails, Exit, WithMemory
    <3> QED
      BY <3>1, LeavesRefines DEF Memory!Next
  <2> QED
    BY <2>1, <2>2, <2>3, <2>4, <2>5, <2>6, <2>7, <2>8, <2>9, <2>10, <2>11
<1> QED
  BY <1>1, <1>2 DEF vars

\* Copy on write implements private memories: with fork, do_pgfault, exec, exit and do_wait
\* in any order, and forks that stop half-way for want of memory, each process reads what
\* it stored itself or had from its parent.
THEOREM Refines == Spec => ImplementsMemory
<1>1. Init => Memory!Init
  BY InitRefines
<1>2. IInv /\ IInv' /\ [Next]_vars => [Memory!Next]_<<WithMemory, Mem, calls>>
  BY NextRefines
<1> QED
  BY <1>1, <1>2, Inductive, PTL DEF Spec, ImplementsMemory, Memory!Spec, Memory!vars

=============================================================================
