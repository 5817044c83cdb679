---- MODULE HeapProofs ----
(***************************************************************************)
(* Proofs about the allocators: default_pmm.c (PageAlloc) alone, and below *)
(* kmalloc.c (Kmalloc), for every number of pages, sizes and callers.      *)
(*                                                                         *)
(* The page allocator.  Lists says that the links make one circle through  *)
(* the free blocks in address order; Blocks, that the blocks cover the     *)
(* pages that nobody holds, each once; Apart, that no two adjoin, which    *)
(* free_pages' merging keeps.  With the holders' blocks (HeldOK) and       *)
(* nr_free they are PagesOK, the invariant of alloc_pages and free_pages   *)
(* until a block is freed above all others (PageAlloc says what then).     *)
(*                                                                         *)
(* SLOB.  SlobList and Cells say the same of the list of slob_alloc and    *)
(* slob_free, whose units are those of the pages SLOB took (SlobUnits)     *)
(* except the ones in use.  Pieces says what callers hold: units of SLOB   *)
(* or pages that a bigblock_t tells of, nothing twice.  HeapInv is both.   *)
(*                                                                         *)
(* The loops over lists are functions on Nat in the model; what they end   *)
(* with is proved by least elements (LeastOf), not by an induction scheme. *)
(***************************************************************************)
EXTENDS Kmalloc, FiniteSetTheorems, WellFoundedInduction, TLAPS

(***************************************************************************)
(* Natural numbers: least elements, induction, and functions that follow a *)
(* function from a start, as the loops of the allocators follow links      *)
(***************************************************************************)
\* A set of natural numbers has a least element.
LEMMA LeastOf == ASSUME NEW S \in SUBSET Nat, S # {} PROVE \E n \in S : \A m \in S : n <= m
<1>1. PICK x \in S : \A y \in S : ~(<<y, x>> \in OpToRel(<, Nat))
  BY NatLessThanWellFounded, WFMin, Zenon
<1>2. \A a, b \in Nat : <<b, a>> \in OpToRel(<, Nat) <=> b < a
  BY DEF OpToRel
<1>3. \A y \in S : ~(y < x)
  BY <1>1, <1>2
<1> QED
  BY <1>3

\* A set with 0 that has the successor of each of its members has every natural number.
LEMMA Induct == ASSUME NEW S, 0 \in S, \A n \in Nat : n \in S => n + 1 \in S PROVE \A n \in Nat : n \in S
<1> SUFFICES ASSUME {n \in Nat : n \notin S} # {} PROVE FALSE
  OBVIOUS
<1>1. PICK n \in {k \in Nat : k \notin S} : \A m \in {k \in Nat : k \notin S} : n <= m
  BY LeastOf
<1>2. n # 0 /\ n - 1 \in Nat /\ ~(n <= n - 1)
  BY <1>1
<1>3. n - 1 \in S
  BY <1>1, <1>2
<1> QED
  BY <1>1, <1>2, <1>3

\* g follows nx from a for n steps.
Follows(g, nx, a, n) == g[0] = a /\ \A k \in 1 .. n : g[k] = nx[g[k - 1]]

\* There is one way to follow a function.
LEMMA SameWay ==
  ASSUME NEW D, NEW nx \in [D -> D], NEW a \in D, NEW n \in Nat, NEW l \in Nat, n <= l,
         NEW g, NEW h, Follows(g, nx, a, n), Follows(h, nx, a, l)
  PROVE  \A k \in 0 .. n : g[k] = h[k]
<1> DEFINE S == {k \in Nat : k <= n => g[k] = h[k]}
<1>1. 0 \in S
  BY DEF Follows
<1>2. ASSUME NEW k \in Nat, k \in S PROVE k + 1 \in S
  <2>1. CASE k + 1 <= n
    <3>1. k + 1 \in 1 .. n /\ k + 1 \in 1 .. l /\ (k + 1) - 1 = k /\ g[k] = h[k]
      BY <1>2, <2>1
    <3>2. g[k + 1] = nx[g[k]] /\ h[k + 1] = nx[h[k]]
      BY <3>1 DEF Follows
    <3> QED
      BY <3>1, <3>2
  <2> QED
    BY <2>1
<1> HIDE DEF S
<1>3. \A k \in Nat : k \in S
  BY <1>1, <1>2, Induct
<1> QED
  BY <1>3 DEF S

\* A function can be followed as far as one likes.
LEMMA SomeWay ==
  ASSUME NEW D, NEW nx \in [D -> D], NEW a \in D
  PROVE  \A n \in Nat : \E g \in [0 .. n -> D] : Follows(g, nx, a, n)
<1> DEFINE S == {n \in Nat : \E g \in [0 .. n -> D] : Follows(g, nx, a, n)}
<1>1. 0 \in S
  <2>1. [k \in 0 .. 0 |-> a] \in [0 .. 0 -> D] /\ Follows([k \in 0 .. 0 |-> a], nx, a, 0)
    BY DEF Follows
  <2> QED
    BY <2>1
<1>2. ASSUME NEW n \in Nat, n \in S PROVE n + 1 \in S
  <2>1. PICK g \in [0 .. n -> D] : Follows(g, nx, a, n)
    BY <1>2
  <2> DEFINE h == [k \in 0 .. n + 1 |-> IF k = n + 1 THEN nx[g[n]] ELSE g[k]]
  <2>2. h \in [0 .. n + 1 -> D]
    OBVIOUS
  <2>3. h[0] = a
    BY <2>1 DEF Follows
  <2>4. ASSUME NEW k \in 1 .. n + 1 PROVE h[k] = nx[h[k - 1]]
    <3>1. CASE k = n + 1
      BY <3>1
    <3>2. CASE k # n + 1
      <4>1. k \in 1 .. n /\ k - 1 \in 0 .. n + 1 /\ k - 1 # n + 1
        BY <3>2
      <4> QED
        BY <2>1, <4>1 DEF Follows
    <3> QED
      BY <3>1, <3>2
  <2> HIDE DEF h
  <2>5. Follows(h, nx, a, n + 1)
    BY <2>3, <2>4 DEF Follows
  <2> QED
    BY <2>2, <2>5
<1> HIDE DEF S
<1>3. \A n \in Nat : n \in S
  BY <1>1, <1>2, Induct
<1> QED
  BY <1>3 DEF S

\* Where nx leads from a.
Way(nx, a) == CHOOSE f : f = [k \in Nat |-> IF k = 0 THEN a ELSE nx[f[k - 1]]]

\* The recursive definition that follows a function defines one.
LEMMA WayDefined ==
  ASSUME NEW D, NEW nx, nx \in [D -> D], NEW a, a \in D
  PROVE  Way(nx, a) \in [Nat -> D] /\ Way(nx, a)[0] = a /\ \A k \in Nat : Way(nx, a)[k + 1] = nx[Way(nx, a)[k]]
<1>1. PICK at : at = Way(nx, a)
  OBVIOUS
<1> DEFINE way(n) == CHOOSE g \in [0 .. n -> D] : Follows(g, nx, a, n)
           f == [k \in Nat |-> way(k)[k]]
<1>2. \A n \in Nat : way(n) \in [0 .. n -> D] /\ Follows(way(n), nx, a, n)
  BY SomeWay
<1>3. f \in [Nat -> D]
  <2> HIDE DEF way
  <2>1. \A k \in Nat : k \in 0 .. k
    OBVIOUS
  <2>2. \A k \in Nat : way(k)[k] \in D
    BY <1>2, <2>1
  <2> QED
    BY <2>2
<1>4. f[0] = a
  BY <1>2 DEF Follows
<1>5. ASSUME NEW k \in Nat, k # 0 PROVE f[k] = nx[f[k - 1]]
  <2>1. k - 1 \in Nat /\ k - 1 <= k /\ k - 1 \in 0 .. k - 1 /\ k \in 1 .. k
    BY <1>5
  <2>2. Follows(way(k), nx, a, k) /\ Follows(way(k - 1), nx, a, k - 1)
    BY <1>2, <2>1
  <2> HIDE DEF way
  <2>3. way(k - 1)[k - 1] = way(k)[k - 1]
    BY <2>1, <2>2, SameWay
  <2>4. way(k)[k] = nx[way(k)[k - 1]]
    BY <2>1, <2>2 DEF Follows
  <2> QED
    BY <2>1, <2>3, <2>4
<1> HIDE DEF f
<1>6. f = [k \in Nat |-> IF k = 0 THEN a ELSE nx[f[k - 1]]]
  <2>1. f = [k \in Nat |-> f[k]]
    BY <1>3
  <2>2. \A k \in Nat : f[k] = IF k = 0 THEN a ELSE nx[f[k - 1]]
    BY <1>4, <1>5
  <2> QED
    BY <2>1, <2>2
<1>7. at = [k \in Nat |-> IF k = 0 THEN a ELSE nx[at[k - 1]]]
  BY <1>1, <1>6 DEF Way
<1> DEFINE S == {k \in Nat : at[k] \in D}
<1>8. at[0] = a /\ \A k \in Nat : at[k + 1] = nx[at[k]]
  <2>1. \A k \in Nat : at[k] = IF k = 0 THEN a ELSE nx[at[k - 1]]
    BY <1>7
  <2>2. \A k \in Nat : k + 1 # 0 /\ (k + 1) - 1 = k /\ k + 1 \in Nat
    OBVIOUS
  <2> HIDE <1>7
  <2> QED
    BY <2>1, <2>2
<1>9. 0 \in S /\ \A k \in Nat : k \in S => k + 1 \in S
  BY <1>8
<1> HIDE DEF S
<1>10. \A k \in Nat : k \in S
  BY <1>9, Induct
<1>11. at \in [Nat -> D]
  BY <1>7, <1>10 DEF S
<1> QED
  BY <1>1, <1>8, <1>11

\* nx leads from D to D.
Stays(nx, D) == nx \in [D -> D]

\* The way of a function that stays in D.
LEMMA WayStays ==
  ASSUME NEW D, NEW nx, Stays(nx, D), NEW a, a \in D
  PROVE  Way(nx, a) \in [Nat -> D] /\ Way(nx, a)[0] = a /\ \A k \in Nat : Way(nx, a)[k + 1] = nx[Way(nx, a)[k]]
BY WayDefined DEF Stays

\* A function that follows nx from a.
LEMMA WayGoes ==
  ASSUME NEW D, NEW nx, Stays(nx, D), NEW a, a \in D
  PROVE  \E w \in [Nat -> D] : w[0] = a /\ \A k \in Nat : w[k + 1] = nx[w[k]]
BY WayStays

(***************************************************************************)
(* list.h: the list of the page allocator, link by link                    *)
(***************************************************************************)
\* The state of the page allocator, and that of SLOB further down, with their types.
Pmm == [nxt : [Link -> Link], prv : [Link -> Link], property : [Page -> Int],
        flagged : SUBSET Page, nr_free : Int]

\* The list of m has the pages of S, in address order, both ways.
Lists(m, S) ==
  /\ m \in Pmm /\ S \in SUBSET Page
  /\ \A x \in S \union {HEAD} : m.nxt[x] \in S \union {HEAD} /\ m.prv[x] \in S \union {HEAD}
  /\ \A x \in S \union {HEAD} : m.prv[m.nxt[x]] = x /\ m.nxt[m.prv[x]] = x
  /\ \A x \in S : x < m.nxt[x]
  /\ \A x, y \in S : x < y => m.nxt[x] <= y
  /\ \A y \in S : m.nxt[HEAD] <= y

\* Pages are numbers, and the head of the list is the number after them.
LEMMA Numbers == NPAGES \in Nat \ {0} /\ HEAD = NPAGES /\ Page \subseteq Nat /\ Link = Page \union {HEAD} /\ HEAD \notin Page
  BY PageAllocAssumption DEF Page, HEAD, Link

\* The walk follows the links from the head.
LEMMA WalkIs ==
  ASSUME NEW m \in Pmm
  PROVE  \E at \in [Nat -> Link] : /\ at[0] = HEAD /\ \A k \in Nat : at[k + 1] = m.nxt[at[k]]
                                   /\ Walk(m) = [k \in 1 .. NPAGES + 1 |-> at[k]]
<1>1. PICK nx : nx = m.nxt
  OBVIOUS
<1>2. nx \in [Link -> Link] /\ HEAD \in Link
  BY <1>1, Numbers DEF Pmm
<1>3. Way(nx, HEAD) \in [Nat -> Link] /\ Way(nx, HEAD)[0] = HEAD
      /\ \A k \in Nat : Way(nx, HEAD)[k + 1] = nx[Way(nx, HEAD)[k]]
  BY <1>2, WayDefined
<1>4. Walk(m) = [k \in 1 .. NPAGES + 1 |-> Way(nx, HEAD)[k]]
  BY <1>1 DEF Walk, Way
<1> QED
  BY <1>1, <1>3, <1>4

\* Where a walk leads that has not come back.
LEMMA WalkClimbs ==
  ASSUME NEW m, NEW S, Lists(m, S), NEW at \in [Nat -> Link], at[0] = HEAD,
         \A k \in Nat : at[k + 1] = m.nxt[at[k]]
  PROVE  /\ \A k \in Nat : at[k] \in S \union {HEAD}
         /\ \E z \in 1 .. NPAGES + 1 : at[z] = HEAD /\ \A k \in 1 .. z - 1 : at[k] \in S
<1> DEFINE In == {k \in Nat : at[k] \in S \union {HEAD}}
           Back(k) == \E j \in 1 .. k : at[j] = HEAD
           Up == {k \in Nat : k = 0 \/ Back(k) \/ at[k] >= k - 1}
<1>1. \A k \in Nat : at[k] \in S \union {HEAD}
  <2>1. 0 \in In /\ \A k \in Nat : k \in In => k + 1 \in In
    BY DEF Lists
  <2> HIDE DEF In
  <2>2. \A k \in Nat : k \in In
    BY <2>1, Induct
  <2> QED
    BY <2>2 DEF In
<1>2. \A k \in Nat : k \in Up
  <2>1. ASSUME NEW k \in Nat, k \in Up PROVE k + 1 \in Up
    <3>1. CASE Back(k) \/ at[k + 1] = HEAD
      <4>1. \E j \in 1 .. k + 1 : at[j] = HEAD
        BY <3>1
      <4> QED
        BY <4>1
    <3>2. CASE ~Back(k) /\ at[k + 1] # HEAD
      <4>1. at[k + 1] \in S /\ at[k + 1] \in Nat
        BY <1>1, <3>2, Numbers DEF Lists
      <4>2. CASE k = 0
        BY <4>1, <4>2
      <4>3. CASE k # 0
        <5>1. k \in 1 .. k /\ at[k] # HEAD /\ at[k] >= k - 1
          BY <2>1, <3>2, <4>3
        <5>2. at[k] \in S /\ at[k] \in Nat
          BY <1>1, <5>1, Numbers DEF Lists
        <5>3. at[k] < at[k + 1]
          BY <5>2 DEF Lists
        <5> QED
          BY <4>1, <5>1, <5>2, <5>3
      <4> QED
        BY <4>2, <4>3
    <3> QED
      BY <3>1, <3>2
  <2>2. 0 \in Up
    OBVIOUS
  <2> HIDE DEF Up
  <2> QED
    BY <2>1, <2>2, Induct
<1>3. Back(NPAGES + 1)
  <2>1. NPAGES + 1 \in Nat /\ NPAGES + 1 \in Up /\ (NPAGES + 1) - 1 = NPAGES
    BY <1>2, Numbers
  <2>2. SUFFICES ASSUME ~Back(NPAGES + 1) PROVE FALSE
    OBVIOUS
  <2>3. at[NPAGES + 1] >= NPAGES /\ at[NPAGES + 1] # HEAD
    BY <2>1, <2>2, Numbers
  <2>4. at[NPAGES + 1] \in Page
    BY <1>1, <2>1, <2>3 DEF Lists
  <2> QED
    BY <2>3, <2>4, Numbers DEF Page
<1> DEFINE Z == {j \in 1 .. NPAGES + 1 : at[j] = HEAD}
<1>4. PICK z \in Z : \A j \in Z : z <= j
  <2>1. Z # {} /\ Z \subseteq Nat
    BY <1>3
  <2> HIDE DEF Z
  <2> QED
    BY <2>1, LeastOf
<1>5. \A k \in 1 .. z - 1 : at[k] \in S
  <2>1. ASSUME NEW k \in 1 .. z - 1 PROVE at[k] # HEAD
    <3>1. k \in 1 .. NPAGES + 1 /\ ~(z <= k)
      BY <1>4, Numbers
    <3> QED
      BY <1>4, <3>1
  <2> QED
    BY <1>1, <2>1
<1> QED
  BY <1>1, <1>4, <1>5

\* A list in address order: the walk meets each of its pages once, the lowest first, and
\* comes back to the head.
LEMMA WalkGoes ==
  ASSUME NEW m, NEW S, Lists(m, S)
  PROVE  /\ Length(m) \in 0 .. NPAGES
         /\ \A k \in 1 .. Length(m) : Walk(m)[k] \in S
         /\ \A j, k \in 1 .. Length(m) : j < k => Walk(m)[j] < Walk(m)[k]
         /\ \A p \in S : \E k \in 1 .. Length(m) : Walk(m)[k] = p
<1>1. PICK at \in [Nat -> Link] : /\ at[0] = HEAD /\ \A k \in Nat : at[k + 1] = m.nxt[at[k]]
                                  /\ Walk(m) = [k \in 1 .. NPAGES + 1 |-> at[k]]
  BY WalkIs DEF Lists
<1>2. PICK z \in 1 .. NPAGES + 1 : at[z] = HEAD /\ \A k \in 1 .. z - 1 : at[k] \in S
  BY <1>1, WalkClimbs
<1>3. PICK l : l = z - 1
  OBVIOUS
<1>4. l \in 0 .. NPAGES /\ z = l + 1 /\ \A k \in 1 .. l : at[k] \in S /\ at[k] \in Page /\ at[k] # HEAD
  BY <1>2, <1>3, Numbers DEF Lists
<1>5. \A k \in 1 .. NPAGES + 1 : Walk(m)[k] = at[k]
  BY <1>1
<1>6. Length(m) = l
  <2> DEFINE P(k) == /\ k = NPAGES + 1 \/ Walk(m)[k + 1] = HEAD
                     /\ \A i \in 1 .. k : Walk(m)[i] # HEAD
  <2>1. P(l) /\ l \in 0 .. NPAGES + 1
    <3>1. Walk(m)[l + 1] = HEAD
      BY <1>2, <1>4, <1>5
    <3>2. \A i \in 1 .. l : i \in 1 .. NPAGES + 1
      BY <1>4, Numbers
    <3>3. \A i \in 1 .. l : Walk(m)[i] # HEAD
      BY <1>4, <1>5, <3>2
    <3> QED
      BY <1>4, <3>1, <3>3, Numbers
  <2>2. ASSUME NEW k \in 0 .. NPAGES + 1, P(k) PROVE k = l
    <3>1. CASE k < l
      <4>1. k + 1 \in 1 .. l /\ k + 1 \in 1 .. NPAGES + 1 /\ k # NPAGES + 1
        BY <1>4, <3>1, Numbers
      <4> QED
        BY <1>4, <1>5, <2>2, <4>1
    <3>2. CASE l < k
      <4>1. l + 1 \in 1 .. k /\ l + 1 \in 1 .. NPAGES + 1
        BY <1>4, <3>2, Numbers
      <4> QED
        BY <1>2, <1>4, <1>5, <2>2, <4>1
    <3> QED
      BY <1>4, <3>1, <3>2, Numbers
  <2> HIDE DEF P
  <2>3. Length(m) = CHOOSE k \in 0 .. NPAGES + 1 : P(k)
    BY DEF Length, P
  <2> QED
    BY <2>1, <2>2, <2>3
<1>7. \A j, k \in 1 .. l : j < k => at[j] < at[k]
  <2> SUFFICES ASSUME NEW j \in 1 .. l PROVE \A k \in 1 .. l : j < k => at[j] < at[k]
    OBVIOUS
  <2> DEFINE Up == {k \in Nat : j < k /\ k <= l => at[j] < at[k]}
  <2>1. 0 \in Up
    OBVIOUS
  <2>2. ASSUME NEW k \in Nat, k \in Up PROVE k + 1 \in Up
    <3> SUFFICES ASSUME j < k + 1, k + 1 <= l PROVE at[j] < at[k + 1]
      OBVIOUS
    <3>1. k \in 1 .. l /\ k + 1 \in 1 .. l
      BY <1>4
    <3>2. at[k] < at[k + 1] /\ at[k] \in Nat /\ at[k + 1] \in Nat /\ at[j] \in Nat
      BY <1>1, <1>4, <3>1, Numbers DEF Lists
    <3> QED
      BY <2>2, <3>1, <3>2
  <2> HIDE DEF Up
  <2>3. \A k \in Nat : k \in Up
    BY <2>1, <2>2, Induct
  <2> QED
    BY <1>4, <2>3 DEF Up
<1>8. \A p \in S : \E k \in 1 .. l : at[k] = p
  <2> SUFFICES ASSUME NEW p \in S, \A k \in 1 .. l : at[k] # p PROVE FALSE
    OBVIOUS
  <2> DEFINE Below == {k \in Nat : k = 0 \/ k > l \/ at[k] < p}
  <2>1. p \in Nat /\ p < HEAD
    BY Numbers DEF Lists, Page
  <2>2. 0 \in Below
    OBVIOUS
  <2>3. ASSUME NEW k \in Nat, k \in Below PROVE k + 1 \in Below
    <3> SUFFICES ASSUME k + 1 <= l PROVE at[k + 1] < p
      BY <1>4
    <3>1. k + 1 \in 1 .. l /\ at[k + 1] # p /\ at[k + 1] = m.nxt[at[k]]
      <4>1. k + 1 \in 1 .. l
        BY <1>4, Numbers
      <4> QED
        BY <1>1, <4>1
    <3>2. at[k + 1] \in Nat
      BY <1>4, <3>1, Numbers
    <3>3. at[k + 1] <= p
      <4>1. CASE k = 0
        BY <1>1, <3>1, <4>1 DEF Lists
      <4>2. CASE k # 0
        <5>1. k \in 1 .. l /\ at[k] < p
          BY <1>4, <2>3, <4>2
        <5>2. at[k] \in S
          BY <1>4, <5>1
        <5> QED
          BY <3>1, <5>1, <5>2 DEF Lists
      <4> QED
        BY <4>1, <4>2
    <3> QED
      BY <2>1, <3>2, <3>1, <3>3
  <2> HIDE DEF Below
  <2>4. \A k \in Nat : k \in Below
    BY <2>2, <2>3, Induct
  <2>5. l \in Nat /\ l \in Below /\ at[l + 1] = HEAD /\ at[l + 1] = m.nxt[at[l]]
    BY <1>1, <1>2, <1>4, <2>4
  <2>6. CASE l = 0
    <3>1. m.nxt[HEAD] = HEAD
      BY <1>1, <2>5, <2>6
    <3>2. m.nxt[HEAD] <= p
      BY DEF Lists
    <3> QED
      BY <2>1, <3>1, <3>2, Numbers
  <2>7. CASE l # 0
    <3>1. at[l] \in S /\ at[l] < p
      BY <1>4, <2>5, <2>7 DEF Below
    <3>2. m.nxt[at[l]] <= p
      BY <3>1 DEF Lists
    <3> QED
      BY <2>1, <2>5, <3>2, Numbers
  <2> QED
    BY <2>6, <2>7
<1>9. \A k \in 1 .. l : Walk(m)[k] = at[k]
  BY <1>4, <1>5, Numbers
<1> QED
  BY <1>4, <1>6, <1>7, <1>8, <1>9

\* The free list has the pages it should have, and an end.
LEMMA ListIs == ASSUME NEW m, NEW S, Lists(m, S) PROVE FreeList(m) = S /\ ~Endless(m)
  BY WalkGoes, Numbers DEF FreeList, Endless

\* What a list in address order says of its links.
LEMMA ListLinks ==
  ASSUME NEW m, NEW S, Lists(m, S)
  PROVE  /\ m \in Pmm /\ S \in SUBSET Page
         /\ m.nxt \in [Link -> Link] /\ m.prv \in [Link -> Link]
         /\ \A x \in S : x \in Nat /\ x < HEAD /\ x # HEAD
         /\ \A x \in S \union {HEAD} : x \in Link /\ x \in Nat
<1>1. m \in Pmm /\ S \in SUBSET Page
  BY DEF Lists
<1>2. m.nxt \in [Link -> Link] /\ m.prv \in [Link -> Link]
  BY <1>1 DEF Pmm
<1>3. \A x \in S : x \in Nat /\ x < HEAD /\ x # HEAD
  BY <1>1, Numbers DEF Page
<1>4. \A x \in S \union {HEAD} : x \in Link /\ x \in Nat
  BY <1>1, Numbers
<1> QED
  BY <1>1, <1>2, <1>3, <1>4

\* __list_add between two neighbours, in address order.
LEMMA LinkedLists ==
  ASSUME NEW m, NEW S, Lists(m, S), NEW base \in Page \ S,
         NEW prev \in S \union {HEAD}, NEW next \in S \union {HEAD},
         m.nxt[prev] = next, prev = HEAD \/ prev < base, next = HEAD \/ base < next
  PROVE  /\ Lists(Linked(m, base, prev, next), S \union {base})
         /\ Linked(m, base, prev, next) = [m EXCEPT !.nxt = Linked(m, base, prev, next).nxt,
                                                    !.prv = Linked(m, base, prev, next).prv]
<1>1. PICK r : r = Linked(m, base, prev, next)
  OBVIOUS
<1>2. /\ m \in Pmm /\ S \in SUBSET Page /\ m.nxt \in [Link -> Link] /\ m.prv \in [Link -> Link]
      /\ \A x \in S : x \in Nat /\ x < HEAD /\ x # HEAD
      /\ \A x \in S \union {HEAD} : x \in Link /\ x \in Nat
      /\ base \in Link /\ base # HEAD /\ base \in Nat /\ base < HEAD /\ prev # base /\ next # base
  <2>1. base \in Link /\ base # HEAD /\ base \in Nat /\ base < HEAD
    BY Numbers DEF Page
  <2> QED
    BY <2>1, ListLinks
<1>3. /\ r.nxt = [m.nxt EXCEPT ![prev] = base, ![base] = next]
      /\ r.prv = [m.prv EXCEPT ![next] = base, ![base] = prev]
      /\ r = [m EXCEPT !.nxt = r.nxt, !.prv = r.prv]
  BY <1>1, <1>2 DEF Linked, Pmm
<1>4. r.nxt \in [Link -> Link] /\ r.prv \in [Link -> Link]
  BY <1>2, <1>3
<1>5. r \in Pmm
  BY <1>2, <1>3, <1>4 DEF Pmm
<1>6. /\ r.nxt[prev] = base /\ r.nxt[base] = next /\ \A x \in S \union {HEAD} : x # prev => r.nxt[x] = m.nxt[x]
      /\ r.prv[next] = base /\ r.prv[base] = prev /\ \A x \in S \union {HEAD} : x # next => r.prv[x] = m.prv[x]
  BY <1>2, <1>3
<1>7. /\ \A x \in S \union {HEAD} : m.nxt[x] \in S \union {HEAD} /\ m.prv[x] \in S \union {HEAD}
      /\ \A x \in S \union {HEAD} : m.prv[m.nxt[x]] = x /\ m.nxt[m.prv[x]] = x
      /\ \A x \in S : x < m.nxt[x]
      /\ \A x, y \in S : x < y => m.nxt[x] <= y
      /\ \A y \in S : m.nxt[HEAD] <= y
  BY DEF Lists
<1> DEFINE T == S \union {base}
<1>8. \A x \in T \union {HEAD} : r.nxt[x] \in T \union {HEAD} /\ r.prv[x] \in T \union {HEAD}
  BY <1>6, <1>7
<1>9. \A x \in T \union {HEAD} : r.prv[r.nxt[x]] = x /\ r.nxt[r.prv[x]] = x
  <2>1. ASSUME NEW x \in T \union {HEAD} PROVE r.prv[r.nxt[x]] = x
    <3>1. CASE x = base \/ x = prev
      BY <1>6, <3>1
    <3>2. CASE x # base /\ x # prev
      <4>1. x \in S \union {HEAD} /\ m.nxt[x] # next
        BY <1>7, <3>2
      <4> QED
        BY <1>6, <1>7, <3>2, <4>1
    <3> QED
      BY <3>1, <3>2
  <2>2. ASSUME NEW x \in T \union {HEAD} PROVE r.nxt[r.prv[x]] = x
    <3>1. CASE x = base \/ x = next
      BY <1>6, <3>1
    <3>2. CASE x # base /\ x # next
      <4>1. x \in S \union {HEAD} /\ m.prv[x] # prev
        BY <1>7, <3>2
      <4> QED
        BY <1>6, <1>7, <3>2, <4>1
    <3> QED
      BY <3>1, <3>2
  <2> QED
    BY <2>1, <2>2
<1>10. \A x \in T : x < r.nxt[x]
  <2> SUFFICES ASSUME NEW x \in T PROVE x < r.nxt[x]
    OBVIOUS
  <2>1. CASE x = base
    BY <1>2, <1>6, <2>1
  <2>2. CASE x # base
    BY <1>2, <1>6, <1>7, <2>2
  <2> QED
    BY <2>1, <2>2
<1>11. \A x \in S : x < base /\ x # prev => prev # HEAD /\ x < prev
  BY <1>2, <1>7
<1>12. \A y \in S : base < y => next <= y /\ next # HEAD
  <2> SUFFICES ASSUME NEW y \in S, base < y PROVE next <= y
    BY <1>2
  <2>1. CASE prev = HEAD
    BY <1>7, <2>1
  <2>2. CASE prev # HEAD
    BY <1>2, <1>7, <2>2
  <2> QED
    BY <2>1, <2>2
<1>13. \A x, y \in T : x < y => r.nxt[x] <= y
  <2> SUFFICES ASSUME NEW x \in T, NEW y \in T, x < y PROVE r.nxt[x] <= y
    OBVIOUS
  <2>1. CASE x = base
    <3>1. y \in S
      BY <1>2, <2>1
    <3> QED
      BY <1>6, <1>12, <2>1, <3>1
  <2>2. CASE x = prev
    <3>1. y = base \/ (y \in S /\ next <= y)
      BY <1>2, <1>7, <2>2
    <3> QED
      BY <1>2, <1>6, <2>2, <3>1
  <2>3. CASE x # base /\ x # prev
    <3>1. x \in S /\ r.nxt[x] = m.nxt[x] /\ m.nxt[x] \in Nat
      BY <1>2, <1>6, <1>7, <2>3
    <3>2. CASE y = base
      <4>1. prev \in S /\ x < prev /\ prev < base
        BY <1>11, <2>3, <3>1, <3>2
      <4>2. m.nxt[x] <= prev
        BY <1>7, <3>1, <4>1
      <4>3. prev \in Nat /\ m.nxt[x] < base
        BY <1>2, <3>1, <4>1, <4>2
      <4> QED
        BY <1>2, <3>1, <3>2, <4>3
    <3>3. CASE y \in S
      BY <1>7, <3>1, <3>3
    <3> QED
      BY <3>2, <3>3
  <2> QED
    BY <2>1, <2>2, <2>3
<1>14. \A y \in T : r.nxt[HEAD] <= y
  <2> SUFFICES ASSUME NEW y \in T PROVE r.nxt[HEAD] <= y
    OBVIOUS
  <2>1. CASE prev = HEAD
    <3>1. y = base \/ (y \in S /\ next <= y)
      BY <1>7, <2>1
    <3> QED
      BY <1>2, <1>6, <2>1, <3>1
  <2>2. CASE prev # HEAD
    <3>1. r.nxt[HEAD] = m.nxt[HEAD] /\ m.nxt[HEAD] \in Nat /\ m.nxt[HEAD] <= prev /\ prev < base
      BY <1>2, <1>6, <1>7, <2>2
    <3> QED
      BY <1>2, <1>7, <3>1
  <2> QED
    BY <2>1, <2>2
<1>15. T \in SUBSET Page
  BY <1>2
<1>16. Lists(r, T)
  BY <1>5, <1>8, <1>9, <1>10, <1>13, <1>14, <1>15 DEF Lists
<1> QED
  BY <1>1, <1>3, <1>16

\* list_add and list_add_before add a page where it belongs.
LEMMA AddLists ==
  ASSUME NEW m, NEW S, Lists(m, S), NEW base \in Page \ S, NEW at \in S \union {HEAD}
  PROVE  /\ (at = HEAD \/ at < base) /\ (m.nxt[at] = HEAD \/ base < m.nxt[at])
              => Lists(AddAfter(m, at, base), S \union {base})
         /\ (at = HEAD \/ base < at) /\ (m.prv[at] = HEAD \/ m.prv[at] < base)
              => Lists(AddBefore(m, at, base), S \union {base})
<1>1. m.nxt[at] \in S \union {HEAD} /\ m.prv[at] \in S \union {HEAD} /\ m.nxt[m.prv[at]] = at
  BY DEF Lists
<1> QED
  BY <1>1, LinkedLists DEF AddAfter, AddBefore

\* list_del.
LEMMA UnlinkedLists ==
  ASSUME NEW m, NEW S, Lists(m, S), NEW e \in S
  PROVE  /\ Lists(Unlinked(m, e), S \ {e})
         /\ Unlinked(m, e) = [m EXCEPT !.nxt = Unlinked(m, e).nxt, !.prv = Unlinked(m, e).prv]
         /\ Unlinked(m, e).nxt[m.prv[e]] = m.nxt[e]
<1>1. PICK r, p, q : r = Unlinked(m, e) /\ p = m.prv[e] /\ q = m.nxt[e]
  OBVIOUS
<1>2. /\ m \in Pmm /\ S \in SUBSET Page /\ m.nxt \in [Link -> Link] /\ m.prv \in [Link -> Link]
      /\ \A x \in S : x \in Nat /\ x < HEAD /\ x # HEAD
      /\ \A x \in S \union {HEAD} : x \in Link /\ x \in Nat
  BY ListLinks
<1>3. /\ r.nxt = [m.nxt EXCEPT ![p] = q] /\ r.prv = [m.prv EXCEPT ![q] = p]
      /\ r = [m EXCEPT !.nxt = r.nxt, !.prv = r.prv]
  BY <1>1, <1>2 DEF Unlinked, Pmm
<1>4. /\ \A x \in S \union {HEAD} : m.nxt[x] \in S \union {HEAD} /\ m.prv[x] \in S \union {HEAD}
      /\ \A x \in S \union {HEAD} : m.prv[m.nxt[x]] = x /\ m.nxt[m.prv[x]] = x
      /\ \A x \in S : x < m.nxt[x]
      /\ \A x, y \in S : x < y => m.nxt[x] <= y
      /\ \A y \in S : m.nxt[HEAD] <= y
  BY DEF Lists
<1>5. r.nxt \in [Link -> Link] /\ r.prv \in [Link -> Link] /\ p \in S \union {HEAD} /\ q \in S \union {HEAD}
  BY <1>1, <1>2, <1>3, <1>4
<1>6. r \in Pmm
  BY <1>2, <1>3, <1>5 DEF Pmm
<1>7. /\ r.nxt[p] = q /\ \A x \in S \union {HEAD} : x # p => r.nxt[x] = m.nxt[x]
      /\ r.prv[q] = p /\ \A x \in S \union {HEAD} : x # q => r.prv[x] = m.prv[x]
  BY <1>2, <1>3, <1>5
<1>8. m.nxt[p] = e /\ m.prv[q] = e /\ e < q /\ p # e /\ q # e /\ e # HEAD
  BY <1>1, <1>2, <1>4
<1> DEFINE T == S \ {e}
<1>9. \A x \in T \union {HEAD} : r.nxt[x] \in T \union {HEAD} /\ r.prv[x] \in T \union {HEAD}
  <2> SUFFICES ASSUME NEW x \in T \union {HEAD} PROVE r.nxt[x] \in T \union {HEAD} /\ r.prv[x] \in T \union {HEAD}
    OBVIOUS
  <2>1. x # p => m.nxt[x] # e
    BY <1>1, <1>4, <1>8
  <2>2. x # q => m.prv[x] # e
    BY <1>1, <1>4, <1>8
  <2> QED
    BY <1>4, <1>5, <1>7, <1>8, <2>1, <2>2
<1>10. \A x \in T \union {HEAD} : r.prv[r.nxt[x]] = x /\ r.nxt[r.prv[x]] = x
  <2>1. ASSUME NEW x \in T \union {HEAD} PROVE r.prv[r.nxt[x]] = x
    <3>1. CASE x = p
      BY <1>7, <3>1
    <3>2. CASE x # p
      <4>1. x \in S \union {HEAD} /\ m.nxt[x] # q
        BY <1>4, <1>8, <3>2
      <4> QED
        BY <1>4, <1>7, <3>2, <4>1
    <3> QED
      BY <3>1, <3>2
  <2>2. ASSUME NEW x \in T \union {HEAD} PROVE r.nxt[r.prv[x]] = x
    <3>1. CASE x = q
      BY <1>7, <3>1
    <3>2. CASE x # q
      <4>1. x \in S \union {HEAD} /\ m.prv[x] # p
        BY <1>4, <1>8, <3>2
      <4> QED
        BY <1>4, <1>7, <3>2, <4>1
    <3> QED
      BY <3>1, <3>2
  <2> QED
    BY <2>1, <2>2
<1>11. \A x \in T : x < r.nxt[x]
  <2> SUFFICES ASSUME NEW x \in T PROVE x < r.nxt[x]
    OBVIOUS
  <2>1. CASE x = p
    <3>1. x < e /\ x \in Nat /\ e \in Nat /\ q \in Nat
      BY <1>2, <1>4, <1>5, <1>8, <2>1
    <3> QED
      BY <1>7, <1>8, <2>1, <3>1
  <2>2. CASE x # p
    BY <1>4, <1>7, <2>2
  <2> QED
    BY <2>1, <2>2
<1>12. \A x, y \in T : x < y => r.nxt[x] <= y
  <2> SUFFICES ASSUME NEW x \in T, NEW y \in T, x < y PROVE r.nxt[x] <= y
    OBVIOUS
  <2>1. CASE x = p
    <3>1. e <= y /\ e \in Nat /\ y \in Nat
      BY <1>2, <1>4, <1>8, <2>1
    <3>2. q <= y
      BY <1>1, <1>4, <3>1
    <3> QED
      BY <1>7, <2>1, <3>2
  <2>2. CASE x # p
    BY <1>4, <1>7, <2>2
  <2> QED
    BY <2>1, <2>2
<1>13. \A y \in T : r.nxt[HEAD] <= y
  <2> SUFFICES ASSUME NEW y \in T PROVE r.nxt[HEAD] <= y
    OBVIOUS
  <2>1. CASE HEAD = p
    <3>1. e <= y /\ e \in Nat /\ y \in Nat
      BY <1>2, <1>4, <1>8, <2>1
    <3>2. q <= y
      BY <1>1, <1>4, <3>1
    <3> QED
      BY <1>7, <2>1, <3>2
  <2>2. CASE HEAD # p
    BY <1>4, <1>7, <2>2
  <2> QED
    BY <2>1, <2>2
<1>14. T \in SUBSET Page
  BY <1>2
<1>15. Lists(r, T)
  BY <1>6, <1>9, <1>10, <1>11, <1>12, <1>13, <1>14 DEF Lists
<1> QED
  BY <1>1, <1>3, <1>7, <1>15

\* The order of a list and its pages are in its links.
LEMMA SameLinks ==
  ASSUME NEW m, NEW S, Lists(m, S), NEW r \in Pmm, r.nxt = m.nxt, r.prv = m.prv
  PROVE  Lists(r, S)
  BY DEF Lists

\* The links are all that list.h changes.
SameSizes(r, m) == r.property = m.property /\ r.flagged = m.flagged /\ r.nr_free = m.nr_free

\* list_add, list_add_before and list_del change links and nothing else.
LEMMA LinksOnly ==
  ASSUME NEW m \in Pmm, NEW a, NEW b, NEW c
  PROVE  /\ SameSizes(Linked(m, a, b, c), m) /\ SameSizes(Unlinked(m, a), m)
         /\ SameSizes(AddAfter(m, a, b), m) /\ SameSizes(AddBefore(m, a, b), m)
  BY DEF SameSizes, Linked, Unlinked, AddAfter, AddBefore, Pmm

\* default_init_memmap and default_free_pages find the place of a block that is not above
\* all free blocks.
LEMMA InsertedLists ==
  ASSUME NEW m, NEW S, Lists(m, S), NEW base \in Page \ S, S = {} \/ \E p \in S : base < p
  PROVE  Lists(Inserted(m, base), S \union {base}) /\ SameSizes(Inserted(m, base), m)
<1> DEFINE above == {k \in 1 .. Length(m) : base < Walk(m)[k]}
<1>1. m \in Pmm /\ HEAD \in S \union {HEAD} /\ m.nxt[HEAD] \in S \union {HEAD}
  BY DEF Lists
<1>2. /\ \A x \in S : x \in Nat /\ x < HEAD /\ x # HEAD
      /\ \A x \in S \union {HEAD} : x \in Link /\ x \in Nat
  BY ListLinks
<1>3. CASE m.nxt[HEAD] = HEAD
  <2>1. Lists(AddAfter(m, HEAD, base), S \union {base})
    BY <1>1, <1>3, AddLists
  <2> QED
    BY <1>1, <1>3, <2>1, LinksOnly DEF Inserted
<1>4. CASE m.nxt[HEAD] # HEAD
  <2>1. m.nxt[HEAD] \in S
    BY <1>1, <1>4
  <2>2. PICK p \in S : base < p
    BY <2>1
  <2>3. PICK j \in 1 .. Length(m) : Walk(m)[j] = p
    BY WalkGoes
  <2>4. j \in above /\ above \subseteq Nat
    BY <2>2, <2>3
  <2>5. above # {} /\ above \in SUBSET Nat
    BY <2>4
  <2> HIDE DEF above
  <2>6. PICK k : k = CHOOSE i \in above : \A l \in above : i <= l
    OBVIOUS
  <2>7. k \in above /\ \A l \in above : k <= l
    BY <2>5, <2>6, LeastOf
  <2>8. PICK w : w = Walk(m)[k]
    OBVIOUS
  <2>9. w \in S /\ base < w /\ k \in 1 .. Length(m)
    BY <2>7, <2>8, WalkGoes DEF above
  <2>10. \A x \in S : base < x => w <= x
    <3> SUFFICES ASSUME NEW x \in S, base < x PROVE w <= x
      OBVIOUS
    <3>1. PICK l \in 1 .. Length(m) : Walk(m)[l] = x
      BY WalkGoes
    <3>2. l \in above /\ k <= l /\ k \in Int /\ l \in Int
      BY <2>7, <2>9, <3>1 DEF above
    <3>3. k = l \/ Walk(m)[k] < Walk(m)[l]
      BY <2>9, <3>1, <3>2, WalkGoes
    <3> QED
      BY <1>2, <2>8, <2>9, <3>1, <3>3
  <2>11. m.prv[w] \in S \union {HEAD} /\ m.nxt[m.prv[w]] = w
    BY <2>9 DEF Lists
  <2>12. m.prv[w] = HEAD \/ m.prv[w] < base
    <3> SUFFICES ASSUME m.prv[w] \in S PROVE m.prv[w] < base
      BY <2>11
    <3>1. m.prv[w] < w
      BY <2>11 DEF Lists
    <3>2. m.prv[w] \in Nat /\ w \in Nat /\ base \in Nat /\ m.prv[w] # base
      BY <1>2, <2>9, Numbers
    <3>3. ~(base < m.prv[w])
      BY <2>10, <3>1, <3>2
    <3> QED
      BY <3>2, <3>3
  <2>13. Lists(AddBefore(m, w, base), S \union {base})
    BY <2>9, <2>12, AddLists
  <2>14. Inserted(m, base) = AddBefore(m, w, base)
    BY <1>4, <2>5, <2>6, <2>8 DEF Inserted, above
  <2> QED
    BY <1>1, <2>13, <2>14, LinksOnly
<1> QED
  BY <1>3, <1>4

(***************************************************************************)
(* The blocks of pages                                                     *)
(***************************************************************************)
Within(m, p, i) == p <= i /\ i < p + m.property[p]

\* The free blocks are all pages but those of H, and none overlaps another.
Blocks(m, H) ==
  /\ Lists(m, m.flagged)
  /\ H \in SUBSET Page
  /\ \A p \in m.flagged : m.property[p] >= 1 /\ p + m.property[p] <= NPAGES
  /\ \A p, q \in m.flagged : p < q => p + m.property[p] <= q
  /\ \A i \in Page : i \notin H <=> \E p \in m.flagged : Within(m, p, i)

\* No two free blocks are side by side.
Apart(m) == \A p, q \in m.flagged : p + m.property[p] # q

\* The fields of a pool whose blocks are right have their types.
LEMMA BlockTypes ==
  ASSUME NEW m, NEW H, Blocks(m, H)
  PROVE  /\ m \in Pmm /\ m.property \in [Page -> Int] /\ m.flagged \in SUBSET Page /\ m.nr_free \in Int
         /\ \A p \in m.flagged : p \in Page /\ p \in Nat /\ m.property[p] \in Nat /\ m.property[p] >= 1
         /\ \A i \in Page : i \in Nat /\ i < NPAGES
<1>1. m \in Pmm
  BY DEF Blocks, Lists
<1>2. m.property \in [Page -> Int] /\ m.flagged \in SUBSET Page /\ m.nr_free \in Int
  BY <1>1 DEF Pmm
<1>3. \A i \in Page : i \in Nat /\ i < NPAGES
  BY Numbers DEF Page
<1>4. \A p \in m.flagged : p \in Page /\ p \in Nat /\ m.property[p] \in Nat /\ m.property[p] >= 1
  BY <1>2, <1>3 DEF Blocks
<1> QED
  BY <1>1, <1>2, <1>3, <1>4

\* default_alloc_pages: the pages are taken out of a free block.
LEMMA Split ==
  ASSUME NEW m, NEW H, Blocks(m, H), Apart(m), NEW page \in m.flagged, NEW n \in Nat \ {0}, n <= m.property[page]
  PROVE  /\ Blocks(AllocPages(m, page, n), H \union (page .. page + n - 1)) /\ Apart(AllocPages(m, page, n))
         /\ AllocPages(m, page, n).nr_free = m.nr_free - n
         /\ page .. page + n - 1 \subseteq Page \ H
<1>1. PICK r, out, rest, prev, F : /\ r = AllocPages(m, page, n) /\ out = Unlinked(m, page) /\ rest = page + n
                                   /\ prev = m.prv[page] /\ F = m.flagged
  OBVIOUS
<1>2. /\ m \in Pmm /\ m.property \in [Page -> Int] /\ F \in SUBSET Page /\ m.nr_free \in Int
      /\ \A p \in F : p \in Page /\ p \in Nat /\ m.property[p] \in Nat /\ m.property[p] >= 1
      /\ \A i \in Page : i \in Nat /\ i < NPAGES
      /\ page \in Page /\ page \in Nat /\ rest \in Nat /\ page \in F
  <2>1. /\ m \in Pmm /\ m.property \in [Page -> Int] /\ F \in SUBSET Page /\ m.nr_free \in Int
        /\ \A p \in F : p \in Page /\ p \in Nat /\ m.property[p] \in Nat /\ m.property[p] >= 1
        /\ \A i \in Page : i \in Nat /\ i < NPAGES
    BY <1>1, BlockTypes
  <2> QED
    BY <1>1, <2>1
<1>3. /\ \A p \in F : p + m.property[p] <= NPAGES
      /\ \A p, q \in F : p < q => p + m.property[p] <= q
      /\ \A i \in Page : i \notin H <=> \E p \in F : Within(m, p, i)
      /\ \A p, q \in F : p + m.property[p] # q
      /\ Lists(m, F) /\ H \in SUBSET Page
  BY <1>1 DEF Blocks, Apart
<1>4. Lists(out, F \ {page}) /\ SameSizes(out, m) /\ out \in Pmm /\ out.nxt[prev] = m.nxt[page]
  <2>1. Lists(out, F \ {page}) /\ out.nxt[prev] = m.nxt[page]
    BY <1>1, <1>2, <1>3, UnlinkedLists
  <2>2. SameSizes(out, m)
    BY <1>1, <1>2, LinksOnly
  <2> QED
    BY <2>1, <2>2 DEF Lists
<1>5. \A i \in page .. page + n - 1 : i \in Page /\ i \notin H /\ page <= i /\ i < rest
  <2> SUFFICES ASSUME NEW i \in page .. page + n - 1 PROVE i \in Page /\ i \notin H /\ page <= i /\ i < rest
    OBVIOUS
  <2>1. i \in Page /\ Within(m, page, i) /\ page <= i /\ i < rest
    <3>1. i \in Int /\ page <= i /\ i < rest /\ rest <= page + m.property[page] /\ page + m.property[page] <= NPAGES
      BY <1>1, <1>2, <1>3
    <3>2. i \in Page
      BY <1>2, <3>1, Numbers DEF Page
    <3> QED
      BY <1>2, <3>1, <3>2 DEF Within
  <2> QED
    BY <1>1, <1>3, <2>1
<1>6. CASE m.property[page] = n
  <2>1. r = [out EXCEPT !.nr_free = @ - n, !.flagged = @ \ {page}]
    <3>1. ~(m.property[page] > n)
      BY <1>6
    <3> QED
      BY <1>1, <3>1 DEF AllocPages
  <2>2. /\ r \in Pmm /\ r.nxt = out.nxt /\ r.prv = out.prv /\ r.property = m.property /\ r.flagged = F \ {page}
        /\ r.nr_free = m.nr_free - n
    <3>1. F \ {page} \in SUBSET Page /\ m.nr_free - n \in Int
      BY <1>2
    <3>2. r = [out EXCEPT !.nr_free = m.nr_free - n, !.flagged = F \ {page}]
      BY <1>1, <1>4, <2>1 DEF SameSizes
    <3> QED
      BY <1>1, <1>4, <3>1, <3>2 DEF Pmm, SameSizes
  <2>3. Lists(r, r.flagged)
    BY <1>4, <2>2, SameLinks
  <2>4. \A p, i : Within(r, p, i) <=> Within(m, p, i)
    BY <2>2 DEF Within
  <2>5. \A i \in Page : i \notin H \union (page .. page + n - 1) <=> \E p \in r.flagged : Within(r, p, i)
    <3> SUFFICES ASSUME NEW i \in Page PROVE i \notin H \union (page .. page + n - 1) <=> \E p \in F \ {page} : Within(m, p, i)
      BY <2>2, <2>4
    <3>1. Within(m, page, i) <=> i \in page .. page + n - 1
      BY <1>2, <1>6 DEF Within
    <3>2. ASSUME NEW p \in F \ {page}, Within(m, p, i) PROVE ~Within(m, page, i)
      <4>1. p \in Nat /\ page \in Nat /\ p # page /\ p \in F /\ page \in F /\ m.property[p] \in Nat /\ m.property[page] \in Nat /\ i \in Nat
        BY <1>1, <1>2
      <4>2. p + m.property[p] <= page \/ page + m.property[page] <= p
        BY <1>3, <4>1
      <4> QED
        BY <3>2, <4>1, <4>2 DEF Within
    <3> QED
      BY <1>3, <3>1, <3>2
  <2>6. Blocks(r, H \union (page .. page + n - 1))
    <3>1. H \union (page .. page + n - 1) \in SUBSET Page
      BY <1>3, <1>5
    <3>2. /\ \A p \in r.flagged : r.property[p] >= 1 /\ p + r.property[p] <= NPAGES
          /\ \A p, q \in r.flagged : p < q => p + r.property[p] <= q
      BY <1>2, <1>3, <2>2
    <3> QED
      BY <2>3, <2>5, <3>1, <3>2 DEF Blocks
  <2>7. Apart(r)
    BY <1>3, <2>2 DEF Apart
  <2> QED
    BY <1>1, <1>5, <2>2, <2>6, <2>7
<1>7. CASE m.property[page] # n
  <2> DEFINE cut == [out EXCEPT !.property[rest] = m.property[page] - n, !.flagged = @ \union {rest}]
             size == m.property[page]
             G == (F \ {page}) \union {rest}
             taken == page .. page + n - 1
  <2>1. /\ n < size /\ size \in Nat /\ rest \in Page /\ page < rest /\ rest < page + size /\ page + size <= NPAGES
        /\ page \in F /\ rest + (size - n) = page + size /\ size - n \in Nat \ {0}
    <3>1. n < size /\ size \in Nat /\ page + size <= NPAGES /\ rest = page + n
      BY <1>1, <1>2, <1>3, <1>7
    <3>2. rest < page + size /\ page < rest /\ rest + (size - n) = page + size /\ size - n \in Nat \ {0}
      BY <1>2, <3>1
    <3>3. rest \in Page
      BY <1>2, <3>1, <3>2, Numbers DEF Page
    <3> QED
      BY <1>2, <3>1, <3>2, <3>3
  <2>2. rest \notin F
    BY <1>2, <1>3, <2>1
  <2>3. AddAfter(cut, prev, rest) \in Pmm /\ cut \in Pmm /\ cut.nxt = out.nxt /\ cut.prv = out.prv
        /\ cut.property = [m.property EXCEPT ![rest] = size - n] /\ cut.flagged = F \union {rest} /\ cut.nr_free = m.nr_free
        /\ Lists(AddAfter(cut, prev, rest), G)
    <3>1. /\ cut \in Pmm /\ cut.nxt = out.nxt /\ cut.prv = out.prv
          /\ cut.property = [m.property EXCEPT ![rest] = size - n] /\ cut.flagged = F \union {rest} /\ cut.nr_free = m.nr_free
      <4>1. [m.property EXCEPT ![rest] = size - n] \in [Page -> Int] /\ F \union {rest} \in SUBSET Page
        <5>1. size - n \in Int /\ rest \in Page
          BY <2>1
        <5> HIDE DEF size
        <5> QED
          BY <1>2, <5>1
      <4>2. cut = [out EXCEPT !.property = [m.property EXCEPT ![rest] = size - n], !.flagged = F \union {rest}]
        BY <1>1, <1>4 DEF SameSizes
      <4> HIDE DEF cut
      <4> QED
        BY <1>1, <1>4, <4>1, <4>2 DEF Pmm, SameSizes
    <3> HIDE DEF cut
    <3>2. Lists(cut, F \ {page})
      BY <1>4, <3>1, SameLinks
    <3>3. /\ prev \in (F \ {page}) \union {HEAD} /\ (prev = HEAD \/ (prev \in F /\ prev < page))
          /\ m.nxt[page] \in F \union {HEAD} /\ page < m.nxt[page]
      <4>1. /\ prev \in F \union {HEAD} /\ m.nxt[prev] = page /\ m.nxt[page] \in F \union {HEAD} /\ page < m.nxt[page]
            /\ \A x \in F : x < m.nxt[x]
        BY <1>1, <1>3 DEF Lists
      <4>2. prev # page
        BY <1>2, <4>1
      <4> QED
        BY <4>1, <4>2
    <3>4. prev = HEAD \/ prev < rest
      <4>1. prev \in F => prev \in Nat
        BY <1>2
      <4>2. page \in Nat /\ rest \in Nat /\ page < rest
        BY <1>2, <2>1
      <4> QED
        BY <3>3, <4>1, <4>2
    <3>5. cut.nxt[prev] = HEAD \/ rest < cut.nxt[prev]
      <4>1. cut.nxt[prev] = m.nxt[page]
        BY <1>4, <3>1
      <4>2. CASE m.nxt[page] \in F
        <5>1. page < m.nxt[page]
          BY <3>3
        <5>2. page + size <= m.nxt[page] /\ m.nxt[page] \in Nat
          BY <1>2, <1>3, <2>1, <4>2, <5>1
        <5> QED
          BY <1>2, <2>1, <4>1, <5>2
      <4> QED
        BY <3>3, <4>1, <4>2
    <3>6. Lists(AddAfter(cut, prev, rest), G)
      BY <2>1, <2>2, <3>2, <3>3, <3>4, <3>5, AddLists
    <3>7. AddAfter(cut, prev, rest) \in Pmm
      BY <3>6 DEF Lists
    <3> QED
      BY <3>1, <3>6, <3>7
  <2>4. SameSizes(AddAfter(cut, prev, rest), cut)
    <3> HIDE DEF cut
    <3> QED
      BY <2>3, LinksOnly
  <2>5. r = [AddAfter(cut, prev, rest) EXCEPT !.nr_free = @ - n, !.flagged = @ \ {page}]
    BY <1>1, <2>1 DEF AllocPages
  <2> HIDE DEF cut
  <2>6. /\ r \in Pmm /\ r.nxt = AddAfter(cut, prev, rest).nxt /\ r.prv = AddAfter(cut, prev, rest).prv
        /\ r.property = [m.property EXCEPT ![rest] = size - n] /\ r.flagged = (F \union {rest}) \ {page}
        /\ r.nr_free = m.nr_free - n
    <3>1. /\ AddAfter(cut, prev, rest).flagged = F \union {rest} /\ AddAfter(cut, prev, rest).nr_free = m.nr_free
          /\ AddAfter(cut, prev, rest).property = [m.property EXCEPT ![rest] = size - n]
      BY <2>3, <2>4 DEF SameSizes
    <3>2. PICK d : d = AddAfter(cut, prev, rest)
      OBVIOUS
    <3>3. r = [d EXCEPT !.nr_free = m.nr_free - n, !.flagged = (F \union {rest}) \ {page}]
      BY <2>5, <3>1, <3>2
    <3>4. (F \union {rest}) \ {page} \in SUBSET Page /\ m.nr_free - n \in Int /\ d \in Pmm
      BY <1>2, <2>1, <2>3, <3>2
    <3> QED
      BY <3>1, <3>2, <3>3, <3>4 DEF Pmm
  <2>7. r.flagged = G /\ page # rest
    BY <2>1, <1>2, <2>6
  <2>8. Lists(r, r.flagged)
    BY <2>3, <2>6, <2>7, SameLinks
  <2>9. r.property[rest] = size - n /\ \A p \in F : r.property[p] = m.property[p]
    BY <1>2, <2>1, <2>2, <2>6
  <2>10. \A p \in r.flagged : r.property[p] >= 1 /\ p + r.property[p] <= NPAGES
    <3>1. r.property[rest] >= 1 /\ rest + r.property[rest] <= NPAGES
      BY <2>1, <2>9
    <3>2. \A p \in F : m.property[p] >= 1 /\ p + m.property[p] <= NPAGES
      BY <1>2, <1>3
    <3> QED
      BY <2>7, <2>9, <3>1, <3>2
  <2>11. \A p, q \in r.flagged : p < q => p + r.property[p] <= q /\ p + r.property[p] # q
    <3> SUFFICES ASSUME NEW p \in G, NEW q \in G, p < q PROVE p + r.property[p] <= q /\ p + r.property[p] # q
      BY <2>7
    <3>1. CASE p = rest
      <4>1. q \in F /\ q \in Nat /\ page < q
        BY <1>2, <2>1, <3>1
      <4>2. page + size <= q /\ page + size # q
        BY <1>3, <2>1, <4>1
      <4> QED
        BY <2>1, <2>9, <3>1, <4>2
    <3>2. CASE p # rest /\ q = rest
      <4>1. p \in F /\ p \in Nat /\ p # page /\ m.property[p] \in Nat
        BY <1>2, <3>2
      <4>2. p < page
        <5>1. ~(page < p)
          BY <1>2, <1>3, <2>1, <3>2, <4>1
        <5> QED
          BY <1>2, <4>1, <5>1
      <4>3. p + m.property[p] <= page
        BY <1>3, <2>1, <4>1, <4>2
      <4> QED
        BY <1>2, <2>1, <2>9, <3>2, <4>1, <4>3
    <3>3. CASE p # rest /\ q # rest
      BY <1>3, <2>9, <3>3
    <3> QED
      BY <3>1, <3>2, <3>3
  <2>12. Apart(r)
    <3>1. \A p \in r.flagged : p \in Nat /\ r.property[p] \in Int /\ r.property[p] >= 1
      <4>1. rest \in Nat /\ r.property[rest] \in Int /\ r.property[rest] >= 1
        BY <1>2, <2>1, <2>9
      <4>2. \A p \in F : p \in Nat /\ m.property[p] \in Int /\ m.property[p] >= 1
        BY <1>2
      <4> QED
        BY <2>7, <2>9, <4>1, <4>2
    <3>2. \A p, q \in r.flagged : p + r.property[p] = q => p < q
      BY <3>1
    <3> QED
      BY <2>11, <3>2 DEF Apart
  <2>13. \A i \in Page : i \notin H \union taken <=> \E p \in r.flagged : Within(r, p, i)
    <3> SUFFICES ASSUME NEW i \in Page PROVE i \notin H \union taken <=> \E p \in G : Within(r, p, i)
      BY <2>7
    <3>1. i \in Nat /\ (Within(r, rest, i) <=> rest <= i /\ i < page + size) /\ (i \in taken <=> page <= i /\ i < rest)
          /\ (Within(m, page, i) <=> page <= i /\ i < page + size)
      BY <1>1, <1>2, <2>1, <2>9 DEF Within
    <3>2. \A p \in F : Within(r, p, i) <=> Within(m, p, i)
      BY <2>9 DEF Within
    <3>3. ASSUME NEW p \in F \ {page}, Within(m, p, i) PROVE ~Within(m, page, i)
      <4>1. p \in Nat /\ page \in Nat /\ p # page /\ p \in F /\ page \in F /\ m.property[p] \in Nat /\ m.property[page] \in Nat /\ i \in Nat
        BY <1>1, <1>2
      <4>2. p + m.property[p] <= page \/ page + m.property[page] <= p
        BY <1>3, <4>1
      <4> QED
        BY <3>3, <4>1, <4>2 DEF Within
    <3>4. Within(m, page, i) <=> i \in taken \/ Within(r, rest, i)
      BY <1>2, <2>1, <3>1
    <3>5. ~(i \in taken /\ Within(r, rest, i))
      BY <1>2, <3>1
    <3>6. i \notin H <=> Within(m, page, i) \/ \E p \in F \ {page} : Within(m, p, i)
      BY <1>3, <2>1
    <3>7. (\E p \in G : Within(r, p, i)) <=> Within(r, rest, i) \/ \E p \in F \ {page} : Within(m, p, i)
      BY <3>2
    <3> QED
      BY <3>3, <3>4, <3>5, <3>6, <3>7
  <2>14. Blocks(r, H \union taken)
    BY <1>3, <1>5, <2>8, <2>10, <2>11, <2>13 DEF Blocks
  <2> QED
    BY <1>1, <1>5, <2>6, <2>12, <2>14
<1> QED
  BY <1>6, <1>7

\* A block that another adjoins is next to it in the list.
LEMMA Neighbours ==
  ASSUME NEW m, NEW H, Blocks(m, H), NEW p \in m.flagged, NEW q \in m.flagged, p + m.property[p] = q
  PROVE  m.nxt[p] = q /\ m.prv[q] = p /\ p < q /\ p # HEAD /\ q # HEAD
<1>1. /\ p \in Nat /\ q \in Nat /\ m.property[p] \in Nat /\ m.property[p] >= 1 /\ p \in Page /\ q \in Page
      /\ \A x \in m.flagged : x \in Nat
  BY BlockTypes
<1>2. p < q /\ p # HEAD /\ q # HEAD
  BY <1>1, Numbers
<1>3. /\ m.nxt[p] \in m.flagged \union {HEAD} /\ m.prv[m.nxt[p]] = p /\ p < m.nxt[p] /\ m.nxt[p] <= q
  BY <1>2 DEF Blocks, Lists
<1>4. CASE m.nxt[p] \in m.flagged
  <2>1. q <= m.nxt[p]
    BY <1>3, <1>4 DEF Blocks
  <2> QED
    BY <1>1, <1>2, <1>3, <1>4, <2>1
<1>5. CASE m.nxt[p] = HEAD
  <2>1. q < HEAD /\ HEAD \in Nat
    BY <1>1, Numbers DEF Page
  <2> QED
    BY <1>1, <1>3, <1>5, <2>1
<1> QED
  BY <1>3, <1>4, <1>5

\* The block at high becomes part of the block at low, and no page is lost.
LEMMA MergeBlocks ==
  ASSUME NEW m, NEW H, Blocks(m, H), NEW low \in m.flagged, NEW high \in m.flagged,
         low + m.property[low] = high
  PROVE  /\ Blocks(Merge(m, low, high), H)
         /\ Merge(m, low, high).nr_free = m.nr_free /\ Merge(m, low, high).flagged = m.flagged \ {high}
         /\ Merge(m, low, high).property[low] = m.property[low] + m.property[high]
         /\ \A p \in m.flagged \ {low} : Merge(m, low, high).property[p] = m.property[p]
<1>1. PICK r, out, F, size, sum : /\ r = Merge(m, low, high) /\ out = Unlinked(m, high) /\ F = m.flagged
                                  /\ size = m.property /\ sum = m.property[low] + m.property[high]
  OBVIOUS
<1>2. /\ m \in Pmm /\ size \in [Page -> Int] /\ F \in SUBSET Page /\ m.nr_free \in Int
      /\ \A p \in F : p \in Page /\ p \in Nat /\ size[p] \in Nat /\ size[p] >= 1
      /\ \A i \in Page : i \in Nat /\ i < NPAGES
  BY <1>1, BlockTypes
<1>3. /\ low \in F /\ high \in F /\ low < high /\ low + size[low] = high /\ low # high /\ sum = size[low] + size[high] /\ sum \in Nat
      /\ low + sum = high + size[high] /\ sum >= 1
  BY <1>1, <1>2, Neighbours
<1>4. /\ \A p \in F : p + size[p] <= NPAGES
      /\ \A p, q \in F : p < q => p + size[p] <= q
      /\ \A i \in Page : i \notin H <=> \E p \in F : Within(m, p, i)
      /\ Lists(m, F) /\ H \in SUBSET Page
  BY <1>1 DEF Blocks
<1>5. Lists(out, F \ {high}) /\ SameSizes(out, m) /\ out \in Pmm
  <2>1. Lists(out, F \ {high})
    BY <1>1, <1>3, <1>4, UnlinkedLists
  <2>2. SameSizes(out, m)
    BY <1>1, <1>2, LinksOnly
  <2> QED
    BY <2>1, <2>2 DEF Lists
<1>6. /\ r \in Pmm /\ r.nxt = out.nxt /\ r.prv = out.prv /\ r.property = [size EXCEPT ![low] = sum]
      /\ r.flagged = F \ {high} /\ r.nr_free = m.nr_free
  <2>1. F \ {high} \in SUBSET Page /\ [size EXCEPT ![low] = sum] \in [Page -> Int]
    BY <1>2, <1>3
  <2>2. r = [out EXCEPT !.property = [size EXCEPT ![low] = sum], !.flagged = F \ {high}]
    BY <1>1, <1>5 DEF Merge, SameSizes
  <2> QED
    BY <1>1, <1>5, <2>1, <2>2 DEF Pmm, SameSizes
<1>7. r.property[low] = sum /\ \A p \in F \ {low} : r.property[p] = size[p]
  BY <1>2, <1>3, <1>6
<1>8. Lists(r, r.flagged)
  BY <1>5, <1>6, SameLinks
<1>9. \A p \in r.flagged : r.property[p] >= 1 /\ p + r.property[p] <= NPAGES
  <2>1. r.property[low] >= 1 /\ low + r.property[low] <= NPAGES
    BY <1>3, <1>4, <1>7
  <2> QED
    BY <1>2, <1>4, <1>6, <1>7, <2>1
<1>10. \A p, q \in r.flagged : p < q => p + r.property[p] <= q
  <2> SUFFICES ASSUME NEW p \in F \ {high}, NEW q \in F \ {high}, p < q PROVE p + r.property[p] <= q
    BY <1>6
  <2>1. CASE p = low
    <3>1. low + size[low] <= q /\ q \in Nat /\ high \in Nat /\ q # high
      BY <1>2, <1>3, <1>4, <2>1
    <3>2. high < q
      BY <1>3, <3>1
    <3>3. high + size[high] <= q
      BY <1>3, <1>4, <3>2
    <3> QED
      BY <1>3, <1>7, <2>1, <3>3
  <2>2. CASE p # low
    BY <1>4, <1>7, <2>2
  <2> QED
    BY <2>1, <2>2
<1>11. \A i \in Page : i \notin H <=> \E p \in r.flagged : Within(r, p, i)
  <2> SUFFICES ASSUME NEW i \in Page PROVE i \notin H <=> \E p \in F \ {high} : Within(r, p, i)
    BY <1>6
  <2>1. Within(r, low, i) <=> Within(m, low, i) \/ Within(m, high, i)
    BY <1>1, <1>2, <1>3, <1>7 DEF Within
  <2>2. \A p \in F \ {low} : Within(r, p, i) <=> Within(m, p, i)
    BY <1>1, <1>7 DEF Within
  <2>3. (\E p \in F \ {high} : Within(r, p, i)) <=> \E p \in F : Within(m, p, i)
    BY <1>3, <2>1, <2>2
  <2> QED
    BY <1>4, <2>3
<1>12. Blocks(r, H)
  BY <1>4, <1>8, <1>9, <1>10, <1>11 DEF Blocks
<1> QED
  BY <1>1, <1>6, <1>7, <1>12

\* Where two free blocks are side by side, it is at base.
Beside(m, base) == \A p, q \in m.flagged : p + m.property[p] = q => p = base \/ q = base

\* The list with a block that was held, before it is joined with others.
Put(m, base, n) ==
  Inserted([m EXCEPT !.property[base] = n, !.flagged = @ \union {base}, !.nr_free = @ + n], base)

\* A block that was held is put in the list.
LEMMA PutBack ==
  ASSUME NEW m, NEW H, Blocks(m, H), Apart(m), NEW base \in Page, NEW n \in Nat, n >= 1,
         base .. base + n - 1 \subseteq H, m.flagged = {} \/ \E p \in m.flagged : base < p
  PROVE  /\ Blocks(Put(m, base, n), H \ (base .. base + n - 1)) /\ Beside(Put(m, base, n), base)
         /\ Put(m, base, n).nr_free = m.nr_free + n /\ base \in Put(m, base, n).flagged
<1>1. PICK in : in = Put(m, base, n)
  OBVIOUS
<1>2. PICK set, F, size, taken : /\ set = [m EXCEPT !.property[base] = n, !.flagged = @ \union {base}, !.nr_free = @ + n]
                                 /\ F = m.flagged /\ size = m.property /\ taken = base .. base + n - 1
  OBVIOUS
<1>3. /\ m \in Pmm /\ size \in [Page -> Int] /\ F \in SUBSET Page /\ m.nr_free \in Int
      /\ \A p \in F : p \in Page /\ p \in Nat /\ size[p] \in Nat /\ size[p] >= 1
      /\ \A i \in Page : i \in Nat /\ i < NPAGES
      /\ base \in Nat /\ base + n \in Nat
  BY <1>2, BlockTypes
<1>4. /\ \A p \in F : p + size[p] <= NPAGES
      /\ \A p, q \in F : p < q => p + size[p] <= q
      /\ \A i \in Page : i \notin H <=> \E p \in F : Within(m, p, i)
      /\ Lists(m, F) /\ H \in SUBSET Page /\ taken \subseteq H
      /\ \A p, q \in F : p + size[p] # q
  BY <1>2 DEF Blocks, Apart
<1>5. \A i \in Page : i \in taken <=> base <= i /\ i < base + n
  BY <1>2, <1>3
<1>6. base + n <= NPAGES
  <2>1. base + n - 1 \in taken
    BY <1>2, <1>3
  <2>2. base + n - 1 \in Page
    BY <1>4, <2>1
  <2> QED
    BY <1>3, <2>2, Numbers
<1>7. \A p \in F : p + size[p] <= base \/ base + n <= p
  <2> SUFFICES ASSUME NEW p \in F, base < p + size[p], p < base + n PROVE FALSE
    BY <1>3
  <2>1. CASE p <= base
    <3>1. Within(m, p, base) /\ base \in taken
      BY <1>2, <1>3, <1>5, <2>1 DEF Within
    <3> QED
      BY <1>4, <3>1
  <2>2. CASE base < p
    <3>1. Within(m, p, p) /\ p \in taken /\ p \in Page
      BY <1>2, <1>3, <1>5, <2>2 DEF Within
    <3> QED
      BY <1>4, <3>1
  <2> QED
    BY <1>3, <2>1, <2>2
<1>8. base \notin F
  BY <1>3, <1>7
<1>9. /\ set \in Pmm /\ set.nxt = m.nxt /\ set.prv = m.prv /\ set.property = [size EXCEPT ![base] = n]
      /\ set.flagged = F \union {base} /\ set.nr_free = m.nr_free + n
  <2>1. [size EXCEPT ![base] = n] \in [Page -> Int] /\ F \union {base} \in SUBSET Page /\ m.nr_free + n \in Int
    BY <1>3
  <2>2. set = [m EXCEPT !.property = [size EXCEPT ![base] = n], !.flagged = F \union {base}, !.nr_free = m.nr_free + n]
    BY <1>2
  <2> QED
    BY <1>2, <1>3, <2>1, <2>2 DEF Pmm
<1>10. Lists(set, F)
  BY <1>4, <1>9, SameLinks
<1>11. Lists(in, F \union {base}) /\ SameSizes(in, set)
  <2>1. in = Inserted(set, base)
    BY <1>1, <1>2 DEF Put
  <2>2. F = {} \/ \E p \in F : base < p
    BY <1>2
  <2> QED
    BY <1>8, <1>10, <2>1, <2>2, InsertedLists
<1>12. /\ in.flagged = F \union {base} /\ in.nr_free = m.nr_free + n /\ in.property = [size EXCEPT ![base] = n]
  BY <1>9, <1>11 DEF SameSizes
<1>13. in.property[base] = n /\ \A p \in F : in.property[p] = size[p]
  BY <1>3, <1>8, <1>12
<1>14. \A p \in in.flagged : in.property[p] >= 1 /\ p + in.property[p] <= NPAGES
  BY <1>3, <1>4, <1>6, <1>12, <1>13
<1>15. \A p, q \in in.flagged : p < q => p + in.property[p] <= q
  <2> SUFFICES ASSUME NEW p \in F \union {base}, NEW q \in F \union {base}, p < q PROVE p + in.property[p] <= q
    BY <1>12
  <2>1. CASE p = base
    <3>1. q \in F /\ q \in Nat /\ size[q] \in Nat /\ size[q] >= 1 /\ ~(q + size[q] <= base)
      BY <1>3, <2>1
    <3> QED
      BY <1>3, <1>7, <1>13, <2>1, <3>1
  <2>2. CASE p # base /\ q = base
    <3>1. p \in F /\ p \in Nat /\ ~(base + n <= p)
      BY <1>3, <2>2
    <3> QED
      BY <1>7, <1>13, <2>2, <3>1
  <2>3. CASE p # base /\ q # base
    BY <1>4, <1>13, <2>3
  <2> QED
    BY <2>1, <2>2, <2>3
<1>16. \A i \in Page : i \notin H \ taken <=> \E p \in in.flagged : Within(in, p, i)
  <2> SUFFICES ASSUME NEW i \in Page PROVE i \notin H \ taken <=> \E p \in F \union {base} : Within(in, p, i)
    BY <1>12
  <2>1. \A p \in F : Within(in, p, i) <=> Within(m, p, i)
    BY <1>2, <1>13 DEF Within
  <2>2. Within(in, base, i) <=> i \in taken
    BY <1>5, <1>13 DEF Within
  <2> QED
    BY <1>4, <2>1, <2>2
<1>17. Beside(in, base)
  <2> SUFFICES ASSUME NEW p \in F \union {base}, NEW q \in F \union {base}, p # base, q # base PROVE p + in.property[p] # q
    BY <1>12 DEF Beside
  <2> QED
    BY <1>4, <1>13
<1>18. Blocks(in, H \ taken)
  <2>1. H \ taken \in SUBSET Page
    BY <1>4
  <2> QED
    BY <1>11, <1>12, <1>14, <1>15, <1>16, <2>1 DEF Blocks
<1> QED
  BY <1>1, <1>2, <1>12, <1>17, <1>18

\* default_free_pages: the block is put back and joined with the blocks beside it.
LEMMA Join ==
  ASSUME NEW m, NEW H, Blocks(m, H), Apart(m), NEW base \in Page, NEW n \in Nat, n >= 1,
         base .. base + n - 1 \subseteq H, m.flagged = {} \/ \E p \in m.flagged : base < p
  PROVE  /\ Blocks(FreePages(m, base, n), H \ (base .. base + n - 1)) /\ Apart(FreePages(m, base, n))
         /\ FreePages(m, base, n).nr_free = m.nr_free + n
<1>1. PICK in : in = Put(m, base, n)
  OBVIOUS
<1>2. PICK G : G = H \ (base .. base + n - 1)
  OBVIOUS
<1>3. Blocks(in, G) /\ Beside(in, base) /\ in.nr_free = m.nr_free + n /\ base \in in.flagged
  BY <1>1, <1>2, PutBack
<1>4. PICK low : low = in.prv[base]
  OBVIOUS
<1>5. low \in in.flagged \union {HEAD}
  BY <1>3, <1>4 DEF Blocks, Lists
<1>6. PICK down, here : /\ down = IF Adjoin(in, low, base) THEN Merge(in, low, base) ELSE in
                        /\ here = IF Adjoin(in, low, base) THEN low ELSE base
  OBVIOUS
<1>7. /\ Blocks(down, G) /\ down.nr_free = m.nr_free + n /\ here \in down.flagged
      /\ \A p, q \in down.flagged : p + down.property[p] = q => p = here
  <2>1. CASE Adjoin(in, low, base)
    <3>1. low \in in.flagged /\ low + in.property[low] = base
      BY <1>5, <2>1 DEF Adjoin
    <3>2. /\ Blocks(down, G) /\ down.nr_free = in.nr_free /\ down.flagged = in.flagged \ {base}
          /\ down.property[low] = in.property[low] + in.property[base] /\ here = low
          /\ \A p \in in.flagged \ {low} : down.property[p] = in.property[p]
      BY <1>3, <1>6, <2>1, <3>1, MergeBlocks
    <3>3. low # base
      <4>1. low \in Nat /\ in.property[low] \in Nat /\ in.property[low] >= 1
        BY <1>3, <3>1, BlockTypes
      <4> QED
        BY <3>1, <4>1
    <3>4. ASSUME NEW p \in down.flagged, NEW q \in down.flagged, p + down.property[p] = q, p # here PROVE FALSE
      <4>1. p \in in.flagged /\ q \in in.flagged /\ p # base /\ q # base /\ p + in.property[p] = q
        BY <3>2, <3>4
      <4> QED
        BY <1>3, <4>1 DEF Beside
    <3> QED
      BY <1>3, <3>1, <3>2, <3>3, <3>4
  <2>2. CASE ~Adjoin(in, low, base)
    <3>1. down = in /\ here = base
      BY <1>6, <2>2
    <3>2. ASSUME NEW p \in in.flagged, NEW q \in in.flagged, p + in.property[p] = q, p # base PROVE FALSE
      <4>1. q = base
        BY <1>3, <3>2 DEF Beside
      <4>2. p = low /\ p # HEAD /\ base # HEAD
        BY <1>3, <1>4, <3>2, <4>1, Neighbours
      <4> QED
        BY <2>2, <3>2, <4>1, <4>2 DEF Adjoin
    <3> QED
      BY <1>3, <3>1, <3>2
  <2> QED
    BY <2>1, <2>2
<1>8. PICK high : high = down.nxt[here]
  OBVIOUS
<1>9. high \in down.flagged \union {HEAD}
  BY <1>7, <1>8 DEF Blocks, Lists
<1>10. FreePages(m, base, n) = IF Adjoin(down, here, high) THEN Merge(down, here, high) ELSE down
  BY <1>1, <1>4, <1>6, <1>8 DEF FreePages, Put
<1>11. PICK r : r = FreePages(m, base, n)
  OBVIOUS
<1>12. CASE Adjoin(down, here, high)
  <2>1. high \in down.flagged /\ here + down.property[here] = high
    BY <1>9, <1>12 DEF Adjoin
  <2>2. /\ Blocks(r, G) /\ r.nr_free = down.nr_free /\ r.flagged = down.flagged \ {high}
        /\ r.property[here] = down.property[here] + down.property[high]
        /\ \A p \in down.flagged \ {here} : r.property[p] = down.property[p]
    BY <1>7, <1>10, <1>11, <1>12, <2>1, MergeBlocks
  <2>3. /\ here \in Nat /\ down.property[here] \in Nat /\ down.property[high] \in Nat /\ high \in Nat
    BY <1>7, <2>1, BlockTypes
  <2>4. here # high
    <3>1. down.property[here] >= 1
      BY <1>7, BlockTypes
    <3> QED
      BY <2>1, <2>3, <3>1
  <2>5. ASSUME NEW p \in r.flagged, NEW q \in r.flagged, p + r.property[p] = q PROVE FALSE
    <3>1. p \in down.flagged /\ q \in down.flagged
      BY <2>2
    <3>2. CASE p = here
      <4>1. high + down.property[high] = q
        BY <2>1, <2>2, <2>3, <2>5, <3>2
      <4> QED
        BY <1>7, <2>1, <2>4, <3>1, <4>1
    <3>3. CASE p # here
      BY <1>7, <2>2, <2>5, <3>1, <3>3
    <3> QED
      BY <3>2, <3>3
  <2> QED
    BY <1>2, <1>7, <1>11, <2>2, <2>5 DEF Apart
<1>13. CASE ~Adjoin(down, here, high)
  <2>1. r = down
    BY <1>10, <1>11, <1>13
  <2>2. ASSUME NEW p \in down.flagged, NEW q \in down.flagged, p + down.property[p] = q PROVE FALSE
    <3>1. p = here
      BY <1>7, <2>2
    <3>2. q = high /\ p # HEAD /\ q # HEAD
      BY <1>7, <1>8, <2>2, <3>1, Neighbours
    <3> QED
      BY <1>13, <2>2, <3>1, <3>2 DEF Adjoin
  <2> QED
    BY <1>2, <1>7, <1>11, <2>1, <2>2 DEF Apart
<1> QED
  BY <1>12, <1>13

(***************************************************************************)
(* The blocks that are held                                                *)
(***************************************************************************)
\* A block of pages, and the pages that somebody holds.
Block == [base : Link, n : Nat]
Own(hd) == UNION {Extent(hd[u]) : u \in User}

\* b is below d.
Under(b, d) == b.base + b.n <= d.base

\* Each holder has nothing or a block of pages that are there, apart from those of the others.
HeldOK(hd) ==
  /\ hd \in [User -> Block]
  /\ \A u \in User : hd[u] = NoBlock \/ (hd[u].base \in Page /\ hd[u].n >= 1 /\ hd[u].base + hd[u].n <= NPAGES)
  /\ \A u, w \in User : u # w /\ hd[u] # NoBlock /\ hd[w] # NoBlock => Under(hd[u], hd[w]) \/ Under(hd[w], hd[u])

\* What the list, the sizes and nr_free say of the pages is true.
PagesOK(m, hd) ==
  /\ Blocks(m, Own(hd)) /\ Apart(m) /\ HeldOK(hd)
  /\ m.nr_free = NPAGES - Cardinality(Own(hd))

\* Whoever holds no block holds no pages.
LEMMA NoBlockIs == NoBlock \in Block /\ Extent(NoBlock) = {} /\ NoBlock.n = 0
  BY Numbers DEF NoBlock, Block, Extent, Link

\* The pages of a block, and of two.
LEMMA ExtentIs ==
  ASSUME NEW hd, HeldOK(hd)
  PROVE  /\ \A u \in User : hd[u] # NoBlock =>
              /\ hd[u].base \in Page /\ hd[u].n \in Nat /\ hd[u].n >= 1 /\ hd[u].base + hd[u].n <= NPAGES
              /\ Extent(hd[u]) \subseteq Page /\ hd[u].base \in Extent(hd[u])
         /\ \A u, w \in User : u # w => Extent(hd[u]) \intersect Extent(hd[w]) = {}
         /\ Own(hd) \subseteq Page
<1>1. ASSUME NEW u \in User, hd[u] # NoBlock
      PROVE  /\ hd[u].base \in Page /\ hd[u].n \in Nat /\ hd[u].n >= 1 /\ hd[u].base + hd[u].n <= NPAGES
             /\ Extent(hd[u]) \subseteq Page /\ hd[u].base \in Extent(hd[u])
  <2>1. hd[u].base \in Page /\ hd[u].n \in Nat /\ hd[u].n >= 1 /\ hd[u].base + hd[u].n <= NPAGES
    BY <1>1 DEF HeldOK, Block
  <2>2. PICK b, n : b = hd[u].base /\ n = hd[u].n
    OBVIOUS
  <2>3. Extent(hd[u]) = b .. b + n - 1
    BY <2>2 DEF Extent
  <2> QED
    BY <2>1, <2>2, <2>3, Numbers DEF Page
<1>2. ASSUME NEW u \in User, NEW w \in User, u # w PROVE Extent(hd[u]) \intersect Extent(hd[w]) = {}
  <2>1. CASE hd[u] = NoBlock \/ hd[w] = NoBlock
    BY <2>1, NoBlockIs
  <2>2. CASE hd[u] # NoBlock /\ hd[w] # NoBlock
    <3>1. Under(hd[u], hd[w]) \/ Under(hd[w], hd[u])
      BY <1>2, <2>2 DEF HeldOK
    <3>2. hd[u].base \in Nat /\ hd[w].base \in Nat /\ hd[u].n \in Nat /\ hd[w].n \in Nat
      BY <1>1, <2>2, Numbers
    <3> QED
      BY <3>1, <3>2 DEF Under, Extent
  <2> QED
    BY <2>1, <2>2
<1>3. Own(hd) \subseteq Page
  BY <1>1, NoBlockIs DEF Own
<1> QED
  BY <1>1, <1>2, <1>3

\* The pages that are held are finitely many.
LEMMA OwnFinite == ASSUME NEW hd, HeldOK(hd) PROVE IsFiniteSet(Own(hd)) /\ Cardinality(Own(hd)) \in Nat
<1>1. IsFiniteSet(0 .. NPAGES - 1)
  <2>1. NPAGES - 1 \in Int
    BY Numbers
  <2> QED
    BY <2>1, FS_Interval
<1>2. IsFiniteSet(Page) /\ Own(hd) \in SUBSET Page
  BY <1>1, ExtentIs DEF Page
<1>3. IsFiniteSet(Own(hd))
  BY <1>2, FS_Subset
<1> QED
  BY <1>3, FS_CardinalityType

\* The number of pages when a run of them is added, and when it is taken away.
LEMMA MorePages ==
  ASSUME NEW S, IsFiniteSet(S), NEW a \in Nat, NEW n \in Nat, n >= 1
  PROVE  /\ S \intersect (a .. a + n - 1) = {} => Cardinality(S \union (a .. a + n - 1)) = Cardinality(S) + n
         /\ a .. a + n - 1 \subseteq S => Cardinality(S \ (a .. a + n - 1)) = Cardinality(S) - n
<1>1. PICK T : T = a .. a + n - 1
  OBVIOUS
<1>2. IsFiniteSet(T) /\ Cardinality(T) = n
  <2>1. a + n - 1 \in Int /\ ~(a > a + n - 1) /\ (a + n - 1) - a + 1 = n
    OBVIOUS
  <2> QED
    BY <1>1, <2>1, FS_Interval
<1>3. Cardinality(S) \in Nat
  BY FS_CardinalityType
<1>4. ASSUME S \intersect T = {} PROVE Cardinality(S \union T) = Cardinality(S) + n
  <2>1. Cardinality(S \union T) = Cardinality(S) + Cardinality(T) - Cardinality(S \intersect T)
    BY <1>2, FS_Union
  <2>2. Cardinality(S \intersect T) = 0
    BY <1>4, FS_EmptySet
  <2> QED
    BY <1>2, <1>3, <2>1, <2>2
<1>5. ASSUME T \subseteq S PROVE Cardinality(S \ T) = Cardinality(S) - n
  <2>1. Cardinality(S \ T) = Cardinality(S) - Cardinality(S \intersect T)
    BY FS_Difference
  <2>2. S \intersect T = T
    BY <1>5
  <2> QED
    BY <1>2, <2>1, <2>2
<1> QED
  BY <1>1, <1>4, <1>5

\* The blocks when u is given n pages.
Given(hd, u, page, n) == [hd EXCEPT ![u] = [base |-> page, n |-> n]]

\* A user that holds nothing is given pages that nobody holds.
LEMMA OwnGrows ==
  ASSUME NEW hd, HeldOK(hd), NEW u \in User, hd[u] = NoBlock, NEW page \in Page, NEW n \in Nat, n >= 1,
         page .. page + n - 1 \subseteq Page \ Own(hd),
         NEW new, new = Given(hd, u, page, n)
  PROVE  /\ HeldOK(new) /\ Own(new) = Own(hd) \union (page .. page + n - 1)
         /\ Cardinality(Own(new)) = Cardinality(Own(hd)) + n
<1>1. PICK b, taken : b = [base |-> page, n |-> n] /\ taken = page .. page + n - 1
  OBVIOUS
<1>2. page \in Nat /\ b.base = page /\ b.n = n /\ b \in Block /\ Extent(b) = taken /\ b # NoBlock
  BY <1>1, Numbers DEF Block, Extent, NoBlock, Link
<1>3. new \in [User -> Block] /\ new[u] = b /\ \A w \in User \ {u} : new[w] = hd[w]
  BY <1>1, <1>2 DEF HeldOK, Given
<1>4. page + n <= NPAGES
  <2>1. page + n - 1 \in taken
    BY <1>1, <1>2
  <2>2. page + n - 1 \in Page
    BY <1>1, <2>1
  <2> QED
    BY <1>2, <2>2, Numbers DEF Page
<1>5. ASSUME NEW w \in User \ {u}, hd[w] # NoBlock PROVE Under(b, hd[w]) \/ Under(hd[w], b)
  <2>1. /\ hd[w].base \in Nat /\ hd[w].n \in Nat /\ hd[w].n >= 1
        /\ Extent(hd[w]) \subseteq Own(hd)
    BY <1>5, ExtentIs, Numbers DEF Own
  <2>2. PICK c, k : c = hd[w].base /\ k = hd[w].n
    OBVIOUS
  <2>3. Extent(hd[w]) = c .. c + k - 1 /\ c \in Nat /\ k \in Nat /\ k >= 1
    BY <2>1, <2>2 DEF Extent
  <2>4. \A i \in taken : i \notin c .. c + k - 1
    BY <1>1, <2>1, <2>3
  <2>5. SUFFICES ASSUME page < c + k, c < page + n PROVE FALSE
    BY <1>2, <2>2, <2>3 DEF Under
  <2>6. CASE page <= c
    <3>1. c \in taken /\ c \in c .. c + k - 1
      BY <1>1, <1>2, <2>3, <2>5, <2>6
    <3> QED
      BY <2>4, <3>1
  <2>7. CASE c < page
    <3>1. page \in taken /\ page \in c .. c + k - 1
      BY <1>1, <1>2, <2>3, <2>5, <2>7
    <3> QED
      BY <2>4, <3>1
  <2> QED
    BY <1>2, <2>3, <2>6, <2>7
<1>6. HeldOK(new)
  <2>1. \A w \in User : new[w] = NoBlock \/ (new[w].base \in Page /\ new[w].n >= 1 /\ new[w].base + new[w].n <= NPAGES)
    BY <1>2, <1>3, <1>4 DEF HeldOK
  <2>2. \A w, x \in User : w # x /\ new[w] # NoBlock /\ new[x] # NoBlock => Under(new[w], new[x]) \/ Under(new[x], new[w])
    <3> SUFFICES ASSUME NEW w \in User, NEW x \in User, w # x, new[w] # NoBlock, new[x] # NoBlock
                 PROVE  Under(new[w], new[x]) \/ Under(new[x], new[w])
      OBVIOUS
    <3>1. CASE w = u
      BY <1>3, <1>5, <3>1
    <3>2. CASE x = u
      BY <1>3, <1>5, <3>2
    <3>3. CASE w # u /\ x # u
      BY <1>3, <3>3 DEF HeldOK
    <3> QED
      BY <3>1, <3>2, <3>3
  <2> QED
    BY <1>3, <2>1, <2>2 DEF HeldOK
<1>7. Own(new) = Own(hd) \union taken
  <2>1. Extent(hd[u]) = {}
    BY NoBlockIs
  <2> QED
    BY <1>2, <1>3, <2>1 DEF Own
<1>8. Cardinality(Own(new)) = Cardinality(Own(hd)) + n
  <2>1. Own(hd) \intersect (page .. page + n - 1) = {}
    OBVIOUS
  <2>2. Cardinality(Own(hd) \union (page .. page + n - 1)) = Cardinality(Own(hd)) + n
    BY <1>2, <2>1, OwnFinite, MorePages
  <2> QED
    BY <1>1, <1>7, <2>2
<1> QED
  BY <1>1, <1>6, <1>7, <1>8

\* A user gives its pages back.
LEMMA OwnShrinks ==
  ASSUME NEW hd, HeldOK(hd), NEW u \in User, hd[u] # NoBlock, NEW new, new = [hd EXCEPT ![u] = NoBlock]
  PROVE  /\ HeldOK(new) /\ Own(new) = Own(hd) \ Extent(hd[u]) /\ Extent(hd[u]) \subseteq Own(hd)
         /\ Cardinality(Own(new)) = Cardinality(Own(hd)) - hd[u].n
<1>1. new \in [User -> Block] /\ new[u] = NoBlock /\ \A w \in User \ {u} : new[w] = hd[w]
  BY NoBlockIs DEF HeldOK
<1>2. HeldOK(new)
  <2>1. \A w, x \in User : w # x /\ new[w] # NoBlock /\ new[x] # NoBlock => Under(new[w], new[x]) \/ Under(new[x], new[w])
    BY <1>1 DEF HeldOK
  <2> QED
    BY <1>1, <2>1 DEF HeldOK
<1>3. Own(new) = Own(hd) \ Extent(hd[u]) /\ Extent(hd[u]) \subseteq Own(hd)
  <2>1. \A w \in User \ {u} : Extent(new[w]) = Extent(hd[w]) /\ Extent(hd[w]) \intersect Extent(hd[u]) = {}
    BY <1>1, ExtentIs
  <2>2. Extent(new[u]) = {}
    BY <1>1, NoBlockIs
  <2> QED
    BY <2>1, <2>2 DEF Own
<1>4. Cardinality(Own(new)) = Cardinality(Own(hd)) - hd[u].n
  <2>1. PICK b, n : b = hd[u].base /\ n = hd[u].n
    OBVIOUS
  <2>2. Extent(hd[u]) = b .. b + n - 1 /\ b \in Nat /\ n \in Nat /\ n >= 1
    BY <2>1, ExtentIs, Numbers DEF Extent
  <2>3. Cardinality(Own(hd) \ (b .. b + n - 1)) = Cardinality(Own(hd)) - n
    BY <1>3, <2>2, OwnFinite, MorePages
  <2> QED
    BY <1>3, <2>1, <2>2, <2>3
<1> QED
  BY <1>2, <1>3, <1>4

\* alloc_pages keeps the pages right.
LEMMA AllocKeeps ==
  ASSUME NEW m, NEW hd, PagesOK(m, hd), NEW u \in User, hd[u] = NoBlock, NEW n \in Nat, n >= 1,
         NEW page \in m.flagged, n <= m.property[page]
  PROVE  PagesOK(AllocPages(m, page, n), Given(hd, u, page, n))
<1>1. page \in Page /\ n \in Nat \ {0} /\ m.nr_free \in Int
  BY BlockTypes DEF PagesOK
<1>2. PICK r, new, taken, H : /\ r = AllocPages(m, page, n) /\ new = Given(hd, u, page, n)
                              /\ taken = page .. page + n - 1 /\ H = Own(hd)
  OBVIOUS
<1>3. Blocks(r, H \union taken) /\ Apart(r) /\ r.nr_free = m.nr_free - n /\ taken \subseteq Page \ H
  <2>1. Blocks(m, Own(hd)) /\ Apart(m)
    BY DEF PagesOK
  <2>2. /\ Blocks(AllocPages(m, page, n), Own(hd) \union (page .. page + n - 1)) /\ Apart(AllocPages(m, page, n))
        /\ AllocPages(m, page, n).nr_free = m.nr_free - n
        /\ page .. page + n - 1 \subseteq Page \ Own(hd)
    BY <1>1, <2>1, Split
  <2> QED
    BY <1>2, <2>2
<1>4. HeldOK(new) /\ Own(new) = H \union taken /\ Cardinality(Own(new)) = Cardinality(H) + n
  <2>1. page .. page + n - 1 \subseteq Page \ Own(hd) /\ HeldOK(hd)
    BY <1>2, <1>3 DEF PagesOK
  <2>2. /\ HeldOK(new) /\ Own(new) = Own(hd) \union (page .. page + n - 1)
        /\ Cardinality(Own(new)) = Cardinality(Own(hd)) + n
    BY <1>1, <1>2, <2>1, OwnGrows
  <2> QED
    BY <1>2, <2>2
<1>5. Cardinality(H) \in Nat
  BY <1>2, OwnFinite DEF PagesOK
<1>6. r.nr_free = NPAGES - Cardinality(Own(new))
  <2>1. m.nr_free = NPAGES - Cardinality(H)
    BY <1>2 DEF PagesOK
  <2> QED
    BY <1>1, <1>3, <1>4, <1>5, <2>1, Numbers
<1> QED
  BY <1>2, <1>3, <1>4, <1>6 DEF PagesOK

\* free_pages keeps the pages right.
LEMMA FreeKeeps ==
  ASSUME NEW m, NEW hd, PagesOK(m, hd), NEW u \in User, hd[u] # NoBlock,
         m.flagged = {} \/ \E p \in m.flagged : hd[u].base < p
  PROVE  PagesOK(FreePages(m, hd[u].base, hd[u].n), [hd EXCEPT ![u] = NoBlock])
<1>1. PICK r, new, b, n, H : /\ r = FreePages(m, hd[u].base, hd[u].n) /\ new = [hd EXCEPT ![u] = NoBlock]
                             /\ b = hd[u].base /\ n = hd[u].n /\ H = Own(hd)
  OBVIOUS
<1>2. b \in Page /\ n \in Nat /\ n >= 1 /\ m.nr_free \in Int /\ Extent(hd[u]) = b .. b + n - 1
  BY <1>1, ExtentIs, BlockTypes DEF PagesOK, Extent
<1>3. /\ HeldOK(new) /\ Own(new) = H \ (b .. b + n - 1) /\ b .. b + n - 1 \subseteq H
      /\ Cardinality(Own(new)) = Cardinality(H) - n
  BY <1>1, <1>2, OwnShrinks DEF PagesOK
<1>4. Blocks(r, H \ (b .. b + n - 1)) /\ Apart(r) /\ r.nr_free = m.nr_free + n
  <2>1. Blocks(m, H) /\ Apart(m) /\ (m.flagged = {} \/ \E p \in m.flagged : b < p)
    BY <1>1 DEF PagesOK
  <2>2. /\ Blocks(FreePages(m, b, n), H \ (b .. b + n - 1)) /\ Apart(FreePages(m, b, n))
        /\ FreePages(m, b, n).nr_free = m.nr_free + n
    BY <1>2, <1>3, <2>1, Join
  <2> QED
    BY <1>1, <2>2
<1>5. Cardinality(H) \in Nat
  BY <1>1, OwnFinite DEF PagesOK
<1>6. r.nr_free = NPAGES - Cardinality(Own(new))
  <2>1. m.nr_free = NPAGES - Cardinality(H)
    BY <1>1 DEF PagesOK
  <2> QED
    BY <1>2, <1>3, <1>4, <1>5, <2>1, Numbers
<1> QED
  BY <1>1, <1>3, <1>4, <1>6 DEF PagesOK

(***************************************************************************)
(* The choice of a block                                                   *)
(***************************************************************************)
\* First and best fit find a free block that is large enough, and one of them if there is any.
LEMMA ChosenFits ==
  ASSUME NEW m, NEW H, Blocks(m, H), NEW n \in Nat
  PROVE  /\ \A page \in Chosen(m, n) : page \in m.flagged /\ n <= m.property[page]
         /\ (\E p \in m.flagged : n <= m.property[p] /\ m.property[p] <= m.nr_free) => Chosen(m, n) # {}
<1> DEFINE size(k) == m.property[Walk(m)[k]]
           small == {k \in Fitting(m, n) : size(k) <= m.nr_free}
<1>1. /\ \A k \in 1 .. Length(m) : Walk(m)[k] \in m.flagged
      /\ \A p \in m.flagged : \E k \in 1 .. Length(m) : Walk(m)[k] = p
  BY WalkGoes DEF Blocks
<1>2. \A p \in m.flagged : m.property[p] \in Nat
  BY BlockTypes
<1>3. Fitting(m, n) \in SUBSET Nat /\ \A k \in Fitting(m, n) : k \in 1 .. Length(m) /\ size(k) \in Nat /\ n <= size(k)
  BY <1>1, <1>2 DEF Fitting
<1>4. \A k \in FirstFit(m, n) \union BestFit(m, n) : k \in Fitting(m, n)
  BY DEF FirstFit, BestFit
<1>5. \A page \in Chosen(m, n) : page \in m.flagged /\ n <= m.property[page]
  <2> SUFFICES ASSUME NEW page \in Chosen(m, n) PROVE page \in m.flagged /\ n <= m.property[page]
    OBVIOUS
  <2>1. PICK k \in FirstFit(m, n) \union BestFit(m, n) : page = Walk(m)[k]
    BY DEF Chosen
  <2> QED
    BY <1>1, <1>3, <1>4, <2>1
<1>6. ASSUME NEW p \in m.flagged, n <= m.property[p], m.property[p] <= m.nr_free PROVE Chosen(m, n) # {}
  <2>1. PICK j \in 1 .. Length(m) : Walk(m)[j] = p
    BY <1>1
  <2>2. j \in Fitting(m, n) /\ j \in small
    BY <1>2, <1>6, <2>1 DEF Fitting
  <2>3. FirstFit(m, n) # {}
    <3>1. PICK k \in Fitting(m, n) : \A l \in Fitting(m, n) : k <= l
      BY <1>3, <2>2, LeastOf
    <3> QED
      BY <3>1 DEF FirstFit
  <2>4. BestFit(m, n) # {}
    <3> DEFINE sizes == {size(k) : k \in small}
    <3>1. sizes \in SUBSET Nat /\ sizes # {}
      BY <1>3, <2>2
    <3> HIDE DEF sizes
    <3>2. PICK s \in sizes : \A t \in sizes : s <= t
      BY <3>1, LeastOf
    <3> DEFINE best == {k \in small : size(k) = s}
    <3>3. best \in SUBSET Nat /\ best # {}
      BY <1>3, <3>2 DEF sizes
    <3> HIDE DEF best
    <3>4. PICK k \in best : \A l \in best : k <= l
      BY <3>3, LeastOf
    <3>5. \A l \in small : size(k) < size(l) \/ (size(k) = size(l) /\ k <= l)
      <4> SUFFICES ASSUME NEW l \in small PROVE size(k) < size(l) \/ (size(k) = size(l) /\ k <= l)
        OBVIOUS
      <4>1. size(l) \in Nat /\ s \in Nat /\ s <= size(l) /\ size(k) = s
        BY <1>3, <3>1, <3>2, <3>4 DEF sizes, best
      <4>2. size(l) = s => l \in best
        BY DEF best
      <4> QED
        BY <3>4, <4>1, <4>2
    <3>6. k \in small
      BY <3>4 DEF best
    <3> QED
      BY <3>5, <3>6 DEF BestFit
  <2> QED
    BY <2>3, <2>4 DEF Chosen
<1> QED
  BY <1>5, <1>6

(***************************************************************************)
(* alloc_pages and free_pages                                              *)
(***************************************************************************)
\* Until a block is freed above all free blocks, the pages are right and nothing stops.
PoolOK ==
  /\ tail \in Nat
  /\ ~Tailed => PagesOK(pmm, held) /\ halt \notin {"search", "PageProperty"}

\* A call leaves the pages right only if no call before it, nor itself, freed above all blocks.
LEMMA Tails == ASSUME PoolOK, NEW above, Counts(above) PROVE tail' \in Nat /\ (~Tailed' => ~Tailed /\ ~above)
  BY DEF PoolOK, Counts, Tailed

\* alloc_pages keeps PoolOK.
LEMMA AllocPool == ASSUME PoolOK, NEW u \in User, NEW n \in Sizes, Alloc(u, n) PROVE PoolOK'
<1>1. tail' \in Nat /\ (~Tailed' => ~Tailed)
  BY Tails DEF Alloc
<1>2. n \in Nat /\ n >= 1
  BY PageAllocAssumption
<1>3. ASSUME ~Tailed PROVE PagesOK(pmm', held') /\ halt' \notin {"search", "PageProperty"}
  <2>1. PagesOK(pmm, held) /\ Blocks(pmm, Own(held)) /\ halt = "none" /\ held[u] = NoBlock
    BY <1>3 DEF PoolOK, PagesOK, Alloc
  <2>2. ~Searches(pmm, n)
    BY <2>1, ListIs DEF Blocks, Searches
  <2>3. PICK page \in Chosen(pmm, n) : /\ pmm' = AllocPages(pmm, page, n)
                                       /\ held' = [held EXCEPT ![u] = [base |-> page, n |-> n]]
                                       /\ halt' = halt
    BY <2>2 DEF Alloc
  <2>4. page \in pmm.flagged /\ n <= pmm.property[page]
    BY <1>2, <2>1, <2>3, ChosenFits
  <2>5. PagesOK(AllocPages(pmm, page, n), Given(held, u, page, n))
    BY <1>2, <2>1, <2>4, AllocKeeps
  <2> QED
    BY <2>1, <2>3, <2>5 DEF Given
<1> QED
  BY <1>1, <1>3 DEF PoolOK

\* free_pages keeps PoolOK, and its assertion on PageProperty does not fail.
LEMMA FreePool == ASSUME PoolOK, NEW u \in User, Free(u) PROVE PoolOK' /\ (~Tailed' => halt' = "none")
<1> DEFINE above == FreeList(pmm) # {} /\ \A p \in FreeList(pmm) : p < held[u].base
<1>1. tail' \in Nat /\ (~Tailed' => ~Tailed /\ ~above)
  BY Tails DEF Free
<1>2. ASSUME ~Tailed, ~above PROVE PagesOK(pmm', held') /\ halt' = "none"
  <2>1. /\ PagesOK(pmm, held) /\ Blocks(pmm, Own(held)) /\ HeldOK(held) /\ halt = "none" /\ held[u] # NoBlock
        /\ Lists(pmm, pmm.flagged)
    BY <1>2 DEF PoolOK, PagesOK, Blocks, Free
  <2>2. FreeList(pmm) = pmm.flagged /\ ~Endless(pmm)
    BY <2>1, ListIs
  <2>3. \A p \in pmm.flagged : p \notin Own(held)
    <3>1. \A p \in pmm.flagged : Within(pmm, p, p) /\ p \in Page
      BY <2>1, BlockTypes DEF Within
    <3> QED
      BY <2>1, <3>1 DEF Blocks
  <2>4. ~InFreeBlock(held[u])
    BY <2>3 DEF InFreeBlock, Own
  <2>5. /\ pmm' = FreePages(pmm, held[u].base, held[u].n)
        /\ held' = [held EXCEPT ![u] = NoBlock] /\ halt' = halt
    BY <2>2, <2>4 DEF Free
  <2>6. pmm.flagged = {} \/ \E p \in pmm.flagged : held[u].base < p
    <3> SUFFICES ASSUME pmm.flagged # {} PROVE \E p \in pmm.flagged : held[u].base < p
      OBVIOUS
    <3>1. PICK p \in pmm.flagged : ~(p < held[u].base)
      BY <1>2, <2>2
    <3>2. p \in Nat /\ held[u].base \in Nat /\ held[u].base \in Own(held)
      <4>1. held[u].base \in Page /\ held[u].base \in Extent(held[u])
        BY <2>1, ExtentIs
      <4>2. p \in Nat
        BY <2>1, BlockTypes
      <4> QED
        BY <4>1, <4>2, Numbers DEF Own
    <3>3. p # held[u].base
      BY <2>3, <3>2
    <3> QED
      BY <3>1, <3>2, <3>3
  <2> QED
    BY <2>1, <2>5, <2>6, FreeKeeps
<1> QED
  BY <1>1, <1>2 DEF PoolOK

\* After page_init all pages are one free block.
LEMMA StartPool == ASSUME Start PROVE PoolOK
<1>1. Lists(Empty, {}) /\ Empty.flagged = {} /\ Empty.nr_free = 0
  <2>1. Empty \in Pmm
    BY Numbers DEF Empty, Pmm
  <2> QED
    BY <2>1, Numbers DEF Lists, Empty
<1>2. Blocks(Empty, Page) /\ Apart(Empty)
  BY <1>1 DEF Blocks, Apart
<1>3. 0 \in Page /\ NPAGES \in Nat /\ NPAGES >= 1 /\ 0 .. 0 + NPAGES - 1 = Page
  BY Numbers DEF Page
<1>4. 0 .. 0 + NPAGES - 1 \subseteq Page
  BY <1>3
<1>5. /\ Blocks(FreePages(Empty, 0, NPAGES), Page \ (0 .. 0 + NPAGES - 1)) /\ Apart(FreePages(Empty, 0, NPAGES))
      /\ FreePages(Empty, 0, NPAGES).nr_free = Empty.nr_free + NPAGES
  <2>1. PICK m : m = Empty
    OBVIOUS
  <2>2. Blocks(m, Page) /\ Apart(m) /\ m.flagged = {}
    BY <1>1, <1>2, <2>1
  <2>3. /\ Blocks(FreePages(m, 0, NPAGES), Page \ (0 .. 0 + NPAGES - 1)) /\ Apart(FreePages(m, 0, NPAGES))
        /\ FreePages(m, 0, NPAGES).nr_free = m.nr_free + NPAGES
    BY <1>3, <1>4, <2>2, Join
  <2> QED
    BY <2>1, <2>3
<1>6. Blocks(pmm, {}) /\ Apart(pmm) /\ pmm.nr_free = NPAGES
  <2>1. pmm = FreePages(Empty, 0, NPAGES)
    BY DEF Start
  <2>2. Page \ (0 .. 0 + NPAGES - 1) = {} /\ Empty.nr_free + NPAGES = NPAGES
    BY <1>1, <1>3
  <2> QED
    BY <1>5, <2>1, <2>2
<1>7. held \in [User -> Block] /\ \A u \in User : held[u] = NoBlock
  BY NoBlockIs DEF Start
<1>8. HeldOK(held) /\ Own(held) = {}
  BY <1>7, NoBlockIs DEF HeldOK, Own
<1>9. PagesOK(pmm, held)
  BY <1>3, <1>6, <1>8, FS_EmptySet DEF PagesOK
<1> QED
  BY <1>9 DEF Start, PoolOK

(***************************************************************************)
(* EveryPageOnce and RefusedForWant                                        *)
(***************************************************************************)
\* A set all of whose members are the same has one.
LEMMA OnlyOne == ASSUME NEW S, NEW x \in S, \A y \in S : y = x PROVE Cardinality(S) = 1
<1>1. S = {x}
  OBVIOUS
<1> QED
  BY <1>1, FS_Singleton

\* Each page is free or held once when the pages are right.
LEMMA PageOnce == PoolOK => EveryPageOnce
<1> SUFFICES ASSUME PoolOK, ~Tailed PROVE EveryPageOnce
  BY DEF EveryPageOnce
<1>1. /\ PagesOK(pmm, held) /\ Blocks(pmm, Own(held)) /\ HeldOK(held) /\ Lists(pmm, pmm.flagged)
      /\ halt \notin {"search", "PageProperty"}
  BY DEF PoolOK, PagesOK, Blocks
<1>2. FreeList(pmm) = pmm.flagged /\ ~Endless(pmm)
  BY <1>1, ListIs
<1>3. \A p \in FreeList(pmm) : pmm.nxt[pmm.prv[p]] = p /\ pmm.prv[pmm.nxt[p]] = p
  BY <1>1, <1>2 DEF Lists
<1>4. ASSUME NEW i \in Page
      PROVE  Cardinality({p \in pmm.flagged : i \in Extent(FreeBlock(p))})
             + Cardinality({u \in User : i \in Extent(held[u])}) = 1
  <2> DEFINE free == {p \in pmm.flagged : i \in Extent(FreeBlock(p))}
             mine == {u \in User : i \in Extent(held[u])}
  <2>1. \A p \in pmm.flagged : i \in Extent(FreeBlock(p)) <=> Within(pmm, p, i)
    <3> SUFFICES ASSUME NEW p \in pmm.flagged PROVE i \in Extent(FreeBlock(p)) <=> Within(pmm, p, i)
      OBVIOUS
    <3>1. Extent(FreeBlock(p)) = p .. p + pmm.property[p] - 1
      BY DEF Extent, FreeBlock
    <3>2. i \in Nat /\ p \in Nat /\ pmm.property[p] \in Nat
      BY <1>1, BlockTypes
    <3> QED
      BY <3>1, <3>2 DEF Within
  <2>2. free # {} <=> mine = {}
    <3>1. i \in Own(held) <=> mine # {}
      BY DEF Own
    <3>2. i \notin Own(held) <=> free # {}
      BY <1>1, <2>1 DEF Blocks
    <3> QED
      BY <3>1, <3>2
  <2>3. \A p, q \in free : p = q
    <3> SUFFICES ASSUME NEW p \in free, NEW q \in free, p # q PROVE FALSE
      OBVIOUS
    <3>1. p \in pmm.flagged /\ q \in pmm.flagged /\ Within(pmm, p, i) /\ Within(pmm, q, i)
      BY <2>1
    <3>2. i \in Nat /\ p \in Nat /\ q \in Nat /\ pmm.property[p] \in Nat /\ pmm.property[q] \in Nat
      BY <1>1, <3>1, BlockTypes
    <3>3. p + pmm.property[p] <= q \/ q + pmm.property[q] <= p
      BY <1>1, <3>1, <3>2 DEF Blocks
    <3> QED
      BY <3>1, <3>2, <3>3 DEF Within
  <2>4. \A u, w \in mine : u = w
    BY <1>1, ExtentIs
  <2> HIDE DEF free, mine
  <2>5. CASE mine = {}
    <3>1. PICK p : p \in free
      BY <2>2, <2>5
    <3>2. Cardinality(free) = 1
      BY <2>3, <3>1, OnlyOne
    <3>3. Cardinality(mine) = 0
      BY <2>5, FS_EmptySet
    <3>4. Cardinality(free) + Cardinality(mine) = 1
      BY <3>2, <3>3
    <3> QED
      BY <3>4 DEF free, mine
  <2>6. CASE mine # {}
    <3>1. PICK u : u \in mine
      BY <2>6
    <3>2. Cardinality(mine) = 1
      BY <2>4, <3>1, OnlyOne
    <3>3. Cardinality(free) = 0
      BY <2>2, <2>6, FS_EmptySet
    <3>4. Cardinality(free) + Cardinality(mine) = 1
      BY <3>2, <3>3
    <3> QED
      BY <3>4 DEF free, mine
  <2> QED
    BY <2>5, <2>6
<1>5. pmm.nr_free = NPAGES - Cardinality(UNION {Extent(held[u]) : u \in User})
  BY <1>1 DEF PagesOK, Own
<1> QED
  BY <1>1, <1>2, <1>3, <1>4, <1>5 DEF EveryPageOnce

\* nr_free and the free blocks tell the same when the pages are right.
LEMMA ForWant == PoolOK => RefusedForWant
<1>1. ASSUME PoolOK, ~Tailed PROVE pmm.nr_free \in Int
  <2>1. Blocks(pmm, Own(held))
    BY <1>1 DEF PoolOK, PagesOK
  <2> QED
    BY <2>1, BlockTypes
<1> SUFFICES ASSUME PoolOK, ~Tailed, NEW n \in 1 .. NPAGES, NEW i \in Page,
                    \A j \in i .. i + n - 1 : j \in Page /\ \A u \in User : j \notin Extent(held[u])
             PROVE  Chosen(pmm, n) # {} /\ n <= pmm.nr_free
  BY <1>1, Numbers DEF RefusedForWant
<1>2. /\ PagesOK(pmm, held) /\ Blocks(pmm, Own(held)) /\ HeldOK(held) /\ Apart(pmm)
  BY DEF PoolOK, PagesOK
<1>3. n \in Nat /\ n >= 1 /\ i \in Nat
  BY Numbers
<1>4. ASSUME NEW k \in Nat, k < n PROVE \E p \in pmm.flagged : Within(pmm, p, i + k)
  <2>1. i + k \in i .. i + n - 1
    BY <1>3, <1>4
  <2>2. i + k \in Page /\ i + k \notin Own(held)
    BY <2>1 DEF Own
  <2> QED
    BY <1>2, <2>2 DEF Blocks
<1>5. PICK p \in pmm.flagged : Within(pmm, p, i + 0)
  BY <1>3, <1>4
<1>6. p \in Nat /\ pmm.property[p] \in Nat /\ pmm.property[p] >= 1
  BY <1>2, BlockTypes
<1> DEFINE S == {k \in Nat : k < n => Within(pmm, p, i + k)}
<1>7. ASSUME NEW k \in Nat, k \in S PROVE k + 1 \in S
  <2> SUFFICES ASSUME k + 1 < n PROVE Within(pmm, p, i + (k + 1))
    OBVIOUS
  <2>1. k < n /\ Within(pmm, p, i + k)
    BY <1>3, <1>7
  <2>2. PICK q \in pmm.flagged : Within(pmm, q, i + (k + 1))
    BY <1>4
  <2>3. q \in Nat /\ pmm.property[q] \in Nat /\ pmm.property[q] >= 1
    BY <1>2, BlockTypes
  <2>4. CASE q = p
    BY <2>2, <2>4
  <2>5. CASE q # p
    <3>1. p + pmm.property[p] <= q \/ q + pmm.property[q] <= p
      BY <1>2, <1>6, <2>3, <2>5 DEF Blocks
    <3>2. p + pmm.property[p] # q
      BY <1>2 DEF Apart
    <3> QED
      BY <1>3, <1>6, <2>1, <2>2, <2>3, <3>1, <3>2 DEF Within
  <2> QED
    BY <2>4, <2>5
<1>8. 0 \in S
  BY <1>5
<1> HIDE DEF S
<1>9. \A k \in Nat : k \in S
  BY <1>7, <1>8, Induct
<1>10. n <= pmm.property[p]
  <2>1. n - 1 \in Nat /\ n - 1 < n
    BY <1>3
  <2>2. Within(pmm, p, i + (n - 1))
    BY <1>9, <2>1 DEF S
  <2>3. p <= i
    BY <1>3, <1>5 DEF Within
  <2> QED
    BY <1>3, <1>6, <2>2, <2>3 DEF Within
<1>11. pmm.property[p] <= pmm.nr_free
  <2>1. PICK k, T : k = pmm.property[p] /\ T = p .. p + k - 1
    OBVIOUS
  <2>2. T \subseteq Page \ Own(held)
    <3> SUFFICES ASSUME NEW j \in T PROVE j \in Page /\ j \notin Own(held)
      OBVIOUS
    <3>1. p + k <= NPAGES
      BY <1>2, <2>1 DEF Blocks
    <3>2. j \in Page /\ Within(pmm, p, j)
      BY <1>6, <2>1, <3>1, Numbers DEF Page, Within
    <3> QED
      BY <1>2, <3>2 DEF Blocks
  <2>3. k \in Nat /\ k >= 1 /\ Own(held) \intersect (p .. p + k - 1) = {}
    BY <1>6, <2>1, <2>2
  <2>4. Cardinality(Own(held) \union T) = Cardinality(Own(held)) + k
    BY <1>2, <1>6, <2>1, <2>3, OwnFinite, MorePages
  <2>5. Cardinality(Own(held) \union T) <= NPAGES
    <3>1. Own(held) \union T \in SUBSET Page
      BY <1>2, <2>2, ExtentIs
    <3>2. IsFiniteSet(Page) /\ Cardinality(Page) = NPAGES
      <4>1. NPAGES - 1 \in Int /\ ~(0 > NPAGES - 1) /\ (NPAGES - 1) - 0 + 1 = NPAGES
        BY Numbers
      <4> QED
        BY <4>1, FS_Interval DEF Page
    <3> QED
      BY <3>1, <3>2, FS_Subset
  <2>6. pmm.nr_free = NPAGES - Cardinality(Own(held)) /\ Cardinality(Own(held)) \in Nat
    BY <1>2, OwnFinite DEF PagesOK
  <2> QED
    BY <2>1, <2>3, <2>4, <2>5, <2>6, Numbers
<1>12. Chosen(pmm, n) # {}
  BY <1>2, <1>3, <1>10, <1>11, ChosenFits
<1>13. pmm.nr_free \in Int
  BY <1>2, BlockTypes
<1> QED
  BY <1>3, <1>6, <1>10, <1>11, <1>12, <1>13

(***************************************************************************)
(* The page allocator alone                                                *)
(***************************************************************************)
\* What a step of the page allocator keeps.
LEMMA PoolSteps == Spec => []PoolOK
<1>1. PoolOK /\ [Next]_vars => PoolOK'
  <2> SUFFICES ASSUME PoolOK, [Next]_vars PROVE PoolOK'
    OBVIOUS
  <2>1. ASSUME NEW u \in User, Free(u) PROVE PoolOK'
    BY <2>1, FreePool
  <2>2. ASSUME NEW u \in User, NEW n \in Sizes, Alloc(u, n) PROVE PoolOK'
    BY <2>2, AllocPool
  <2>3. CASE UNCHANGED vars
    BY <2>3 DEF vars, PoolOK, Tailed
  <2> QED
    BY <2>1, <2>2, <2>3 DEF Next
<1> QED
  BY <1>1, StartPool, PTL DEF Spec

\* Whatever is taken and freed in whatever order, until a block is freed above all free
\* blocks every page is in one free block or in one held block, the free list has exactly
\* the free blocks and comes back to its head, and nr_free counts them: for first and best
\* fit, any number of pages and any users (default_alloc_pages, default_free_pages).
THEOREM PagesOnce == Spec => []EveryPageOnce
  BY PoolSteps, PageOnce, PTL

\* Until then alloc_pages refuses only what no run of free pages is long enough for:
\* default_free_pages leaves no two free blocks side by side.
THEOREM PagesForWant == Spec => []RefusedForWant
  BY PoolSteps, ForWant, PTL

(***************************************************************************)
(* Units, pages and sizes                                                  *)
(***************************************************************************)
\* The number of units there are.
UNITS == NPAGES * UnitsPerPage

\* A page is a whole number of units, and a bigblock_t needs two of them or more.
LEMMA UnitNumbers ==
  /\ UnitsPerPage \in Nat /\ UnitsPerPage >= 1 /\ PAGE_SIZE = SLOB_UNIT * UnitsPerPage
  /\ SLOB_UNIT \in Nat /\ SLOB_UNIT >= 1 /\ PAGE_SIZE \in Nat
  /\ UNITS \in Nat /\ UNITS >= 1 /\ Addr = 0 .. UNITS - 1 /\ ARENA = -2
<1>1. SLOB_UNIT \in Nat /\ SLOB_UNIT >= 1 /\ PAGE_SIZE \in Nat /\ PAGE_SIZE >= 1 /\ PAGE_SIZE % SLOB_UNIT = 0
  BY KmallocAssumption
<1>2. UnitsPerPage \in Nat /\ PAGE_SIZE = SLOB_UNIT * UnitsPerPage
  BY <1>1 DEF UnitsPerPage
<1>3. UnitsPerPage >= 1
  BY <1>1, <1>2
<1>4. NPAGES \in Nat /\ NPAGES >= 1
  BY Numbers
<1>5. UNITS \in Nat /\ UNITS >= 1
  BY <1>2, <1>3, <1>4 DEF UNITS
<1> QED
  BY <1>1, <1>2, <1>3, <1>5 DEF Addr, UNITS, ARENA

\* The blocks of the list, arena included.
LEMMA Nodes == Node = Addr \union {-2} /\ -2 \notin Addr /\ Cardinality(Node) = UNITS + 1
<1>1. PICK u : u = UNITS
  OBVIOUS
<1>2. Addr = 0 .. u - 1 /\ u \in Nat /\ u >= 1 /\ ARENA = -2
  BY <1>1, UnitNumbers
<1>3. IsFiniteSet(0 .. u - 1) /\ Cardinality(0 .. u - 1) = u
  <2>1. u - 1 \in Int /\ ~(0 > u - 1) /\ (u - 1) - 0 + 1 = u
    BY <1>2
  <2> QED
    BY <2>1, FS_Interval
<1>4. -2 \notin Addr
  BY <1>2
<1>5. Cardinality(Addr \union {-2}) = u + 1
  BY <1>2, <1>3, <1>4, FS_AddElement
<1> QED
  BY <1>1, <1>2, <1>4, <1>5 DEF Node

\* The units of a block of n pages are those of its pages.
LEMMA UnitIn ==
  ASSUME NEW p \in Nat, NEW n \in Nat, NEW a \in Nat
  PROVE  /\ a \in From(PageAt(p), n * UnitsPerPage) <=> a \div UnitsPerPage \in p .. p + n - 1
         /\ PageAt(p) \div UnitsPerPage = p /\ PageAt(p) \in Nat /\ n * UnitsPerPage \in Nat
<1>1. PICK w : w = UnitsPerPage
  OBVIOUS
<1>2. w \in Nat /\ w >= 1
  BY <1>1, UnitNumbers
<1>3. PICK q, r : q = a \div w /\ r = a % w
  OBVIOUS
<1>4. q \in Nat /\ r \in Nat /\ r < w /\ a = w * q + r
  BY <1>2, <1>3
<1>5. p * w \in Nat /\ n * w \in Nat /\ (p * w) \div w = p
  BY <1>2
<1>6. (p + n) * w = p * w + n * w
  BY <1>2
<1>7. p <= q <=> p * w <= a
  <2>1. p <= q => p * w <= w * q
    BY <1>2, <1>4
  <2>2. q < p => q + 1 <= p /\ (q + 1) * w <= p * w /\ (q + 1) * w = w * q + w
    BY <1>2, <1>4
  <2> QED
    BY <1>2, <1>4, <1>5, <2>1, <2>2
<1>8. q < p + n <=> a < p * w + n * w
  <2>1. p + n <= q => (p + n) * w <= w * q
    BY <1>2, <1>4
  <2>2. q < p + n => q + 1 <= p + n /\ (q + 1) * w <= (p + n) * w /\ (q + 1) * w = w * q + w
    BY <1>2, <1>4
  <2> QED
    BY <1>2, <1>4, <1>5, <1>6, <2>1, <2>2
<1>9. a \in p * w .. p * w + n * w - 1 <=> q \in p .. p + n - 1
  BY <1>4, <1>5, <1>7, <1>8
<1> QED
  BY <1>1, <1>3, <1>5, <1>9 DEF From, PageAt

\* The units of a page.
LEMMA PageUnits ==
  ASSUME NEW p \in Page
  PROVE  /\ PageAt(p) \in Addr /\ PageAt(p) + UnitsPerPage <= UNITS
         /\ \A a \in Addr : a \in From(PageAt(p), UnitsPerPage) <=> a \div UnitsPerPage = p
         /\ \A a \in Addr : a \div UnitsPerPage \in Page
<1>1. PICK w, u : w = UnitsPerPage /\ u = NPAGES * w
  OBVIOUS
<1>2. /\ w \in Nat /\ w >= 1 /\ NPAGES \in Nat /\ p \in Nat /\ p + 1 <= NPAGES /\ u \in Nat
      /\ Addr = 0 .. u - 1 /\ UNITS = u
  BY <1>1, UnitNumbers, Numbers DEF UNITS, Page
<1>3. (p + 1) * w <= u /\ (p + 1) * w = p * w + w /\ p * w \in Nat
  BY <1>1, <1>2
<1>4. PageAt(p) \in Addr /\ PageAt(p) + w <= UNITS
  BY <1>1, <1>2, <1>3 DEF PageAt
<1>5. ASSUME NEW a \in Addr PROVE (a \in From(PageAt(p), w) <=> a \div w = p) /\ a \div w \in Page
  <2>1. a \in Nat /\ 1 * w = w /\ 0 * w = 0 /\ 0 \in Nat /\ 1 \in Nat
    BY <1>2
  <2>2. a \in From(PageAt(p), w) <=> a \div w \in p .. p + 1 - 1
    BY <1>1, <1>2, <2>1, UnitIn
  <2>3. a \in From(PageAt(0), u) <=> a \div w \in 0 .. 0 + NPAGES - 1
    BY <1>1, <1>2, <2>1, UnitIn
  <2>4. a \in From(PageAt(0), u)
    BY <1>1, <1>2, <2>1 DEF From, PageAt
  <2>5. a \div w \in Nat
    BY <1>2, <2>1
  <2> QED
    BY <1>2, <2>2, <2>3, <2>4, <2>5 DEF Page
<1> QED
  BY <1>1, <1>4, <1>5

\* A bigblock_t and a small block with its header fit in a page.
LEMMA SizesInUnits ==
  /\ SLOB_UNITS(BIGBLOCK) \in Nat /\ SLOB_UNITS(BIGBLOCK) >= 2 /\ SLOB_UNITS(BIGBLOCK) <= UnitsPerPage
  /\ \A size \in Nat : size >= 1 =>
       /\ SLOB_UNITS(size + SLOB_UNIT) \in Nat /\ SLOB_UNITS(size + SLOB_UNIT) >= 2
       /\ Small(size) => SLOB_UNITS(size + SLOB_UNIT) <= UnitsPerPage
       /\ (SLOB_UNITS(size + SLOB_UNIT) - 1) * SLOB_UNIT >= size
<1>1. PICK s, w, pg : s = SLOB_UNIT /\ w = UnitsPerPage /\ pg = PAGE_SIZE
  OBVIOUS
<1>2. s \in Nat /\ s >= 1 /\ w \in Nat /\ pg = s * w
  BY <1>1, UnitNumbers
<1>3. ASSUME NEW x \in Nat, s < x, x < pg
      PROVE  (x + s - 1) \div s \in Nat /\ (x + s - 1) \div s >= 2 /\ (x + s - 1) \div s <= w
  <2>1. PICK q, r : q = (x + s - 1) \div s /\ r = (x + s - 1) % s
    OBVIOUS
  <2>2. x + s - 1 \in Nat
    BY <1>2
  <2>3. q \in Nat /\ r \in Nat /\ r < s /\ x + s - 1 = s * q + r
    BY <1>2, <2>1, <2>2
  <2>4. q <= 1 => s * q <= s
    BY <1>2, <2>3
  <2>5. w < q => w + 1 <= q /\ s * (w + 1) <= s * q /\ s * (w + 1) = s * w + s
    BY <1>2, <2>3
  <2> QED
    BY <1>2, <1>3, <2>1, <2>3, <2>4, <2>5
<1>4. ASSUME NEW size \in Nat, size >= 1
      PROVE  /\ ((size + s) + s - 1) \div s \in Nat /\ ((size + s) + s - 1) \div s >= 2
             /\ (((size + s) + s - 1) \div s - 1) * s >= size
  <2>1. PICK q, r, x : x = size + s /\ q = (x + s - 1) \div s /\ r = (x + s - 1) % s
    OBVIOUS
  <2>2. x \in Nat /\ x + s - 1 \in Nat
    BY <1>2, <2>1
  <2>3. q \in Nat /\ r \in Nat /\ r < s /\ x + s - 1 = s * q + r
    BY <1>2, <2>1, <2>2
  <2>4. q <= 1 => s * q <= s
    BY <1>2, <2>3
  <2>5. (q - 1) * s = s * q - s
    BY <1>2, <2>3
  <2> QED
    BY <1>2, <1>4, <2>1, <2>3, <2>4, <2>5
<1>5. BIGBLOCK \in Nat /\ s < BIGBLOCK /\ BIGBLOCK < pg
  BY <1>1, <1>2, KmallocAssumption
<1>6. SLOB_UNITS(BIGBLOCK) \in Nat /\ SLOB_UNITS(BIGBLOCK) >= 2 /\ SLOB_UNITS(BIGBLOCK) <= UnitsPerPage
  BY <1>1, <1>3, <1>5 DEF SLOB_UNITS
<1>7. ASSUME NEW size \in Nat, size >= 1
      PROVE  /\ SLOB_UNITS(size + SLOB_UNIT) \in Nat /\ SLOB_UNITS(size + SLOB_UNIT) >= 2
             /\ Small(size) => SLOB_UNITS(size + SLOB_UNIT) <= UnitsPerPage
             /\ (SLOB_UNITS(size + SLOB_UNIT) - 1) * SLOB_UNIT >= size
  <2>1. Small(size) => s < size + s /\ size + s < pg /\ size + s \in Nat
    BY <1>1, <1>2, <1>7 DEF Small
  <2> QED
    BY <1>1, <1>3, <1>4, <1>7, <2>1 DEF SLOB_UNITS
<1> QED
  BY <1>6, <1>7

\* 1 << order is a number of pages.
LEMMA ShiftedIs ==
  \A k \in Nat : Shifted[k] \in Nat /\ Shifted[k] >= 1 /\ (k # 0 => Shifted[k] >= 2) /\ (k # 0 /\ k # 1 => Shifted[k] >= 4)
<1>1. PICK nx : nx = [i \in Nat |-> 2 * i]
  OBVIOUS
<1>2. nx \in [Nat -> Nat]
  BY <1>1
<1>3. PICK w \in [Nat -> Nat] : w[0] = 1 /\ \A k \in Nat : w[k + 1] = 2 * w[k]
  <2>1. PICK D, c : D = Nat /\ c = 1
    OBVIOUS
  <2>2. Stays(nx, D) /\ c \in D
    BY <1>2, <2>1 DEF Stays
  <2>3. PICK w \in [Nat -> D] : w[0] = c /\ \A k \in Nat : w[k + 1] = nx[w[k]]
    BY <2>2, WayGoes
  <2>4. w \in [Nat -> Nat] /\ w[0] = 1 /\ \A k \in Nat : w[k + 1] = 2 * w[k]
    BY <1>1, <2>1, <2>3
  <2> QED
    BY <2>4
<1>4. w = [k \in Nat |-> IF k = 0 THEN 1 ELSE 2 * w[k - 1]]
  <2>1. w = [k \in Nat |-> w[k]]
    BY <1>3
  <2>2. ASSUME NEW k \in Nat PROVE w[k] = IF k = 0 THEN 1 ELSE 2 * w[k - 1]
    <3>1. k # 0 => k - 1 \in Nat /\ (k - 1) + 1 = k
      OBVIOUS
    <3> QED
      BY <1>3, <3>1
  <2> QED
    BY <2>1, <2>2
<1>5. PICK f : f = Shifted
  OBVIOUS
<1>6. f = [k \in Nat |-> IF k = 0 THEN 1 ELSE 2 * f[k - 1]]
  BY <1>4, <1>5 DEF Shifted
<1> DEFINE S == {k \in Nat : f[k] \in Nat /\ f[k] >= 1 /\ (k # 0 => f[k] >= 2) /\ (k # 0 /\ k # 1 => f[k] >= 4)}
<1>7. f[0] = 1 /\ \A k \in Nat : f[k + 1] = 2 * f[k]
  <2>1. \A k \in Nat : f[k] = IF k = 0 THEN 1 ELSE 2 * f[k - 1]
    BY <1>6
  <2>2. \A k \in Nat : k + 1 # 0 /\ (k + 1) - 1 = k /\ k + 1 \in Nat
    OBVIOUS
  <2> HIDE <1>6
  <2> QED
    BY <2>1, <2>2
<1>8. 0 \in S /\ \A k \in Nat : k \in S => k + 1 \in S
  BY <1>7
<1> HIDE DEF S
<1>9. \A k \in Nat : k \in S
  BY <1>8, Induct
<1> QED
  BY <1>5, <1>9 DEF S

\* find_order ends, and its order is a number, zero only for a page or less, and
\* one only for two pages or little more.
LEMMA FindOrderIs ==
  ASSUME NEW size \in Nat
  PROVE  /\ FindOrder(size) \in Nat
         /\ FindOrder(size) = 0 => size <= PAGE_SIZE
         /\ FindOrder(size) = 1 => size <= 2 * PAGE_SIZE + 1
<1>1. PICK nx : nx = [i \in Nat |-> i \div 2]
  OBVIOUS
<1>2. nx \in [Nat -> Nat]
  BY <1>1
<1>3. PICK w \in [Nat -> Nat] : w[0] = size /\ \A k \in Nat : w[k + 1] = w[k] \div 2
  <2>1. PICK D, c : D = Nat /\ c = size
    OBVIOUS
  <2>2. Stays(nx, D) /\ c \in D
    BY <1>2, <2>1 DEF Stays
  <2>3. Way(nx, c) \in [Nat -> D] /\ Way(nx, c)[0] = c /\ \A k \in Nat : Way(nx, c)[k + 1] = nx[Way(nx, c)[k]]
    BY <2>2, WayStays
  <2>4. PICK w : w = Way(nx, c)
    OBVIOUS
  <2>5. w \in [Nat -> Nat] /\ w[0] = size /\ \A k \in Nat : w[k + 1] = w[k] \div 2
    BY <1>1, <2>1, <2>3, <2>4
  <2> QED
    BY <2>5
<1>4. w = [k \in Nat |-> IF k = 0 THEN size ELSE w[k - 1] \div 2]
  <2>1. w = [k \in Nat |-> w[k]]
    BY <1>3
  <2>2. ASSUME NEW k \in Nat PROVE w[k] = IF k = 0 THEN size ELSE w[k - 1] \div 2
    <3>1. k # 0 => k - 1 \in Nat /\ (k - 1) + 1 = k
      OBVIOUS
    <3> QED
      BY <1>3, <3>1
  <2> QED
    BY <2>1, <2>2
<1>5. PICK f : f = CHOOSE h : h = [k \in Nat |-> IF k = 0 THEN size ELSE h[k - 1] \div 2]
  OBVIOUS
<1>6. f = [k \in Nat |-> IF k = 0 THEN size ELSE f[k - 1] \div 2]
  BY <1>4, <1>5
<1>7. f[0] = size /\ \A k \in Nat : f[k + 1] = f[k] \div 2
  <2>1. \A k \in Nat : f[k] = IF k = 0 THEN size ELSE f[k - 1] \div 2
    BY <1>6
  <2>2. \A k \in Nat : k + 1 # 0 /\ (k + 1) - 1 = k /\ k + 1 \in Nat
    OBVIOUS
  <2> HIDE <1>6
  <2> QED
    BY <2>1, <2>2
<1> DEFINE S == {k \in Nat : f[k] \in Nat /\ (f[k] = 0 \/ f[k] + k <= size)}
<1>8. 0 \in S /\ \A k \in Nat : k \in S => k + 1 \in S
  <2>1. ASSUME NEW k \in Nat, k \in S PROVE k + 1 \in S
    <3>1. PICK x : x = f[k]
      OBVIOUS
    <3>2. x \in Nat /\ (x = 0 \/ x + k <= size) /\ f[k + 1] = x \div 2
      BY <1>7, <2>1, <3>1
    <3>3. x \div 2 \in Nat /\ (x = 0 => x \div 2 = 0) /\ (x # 0 => x \div 2 <= x - 1)
      BY <3>2
    <3>4. f[k + 1] \in Nat /\ (f[k + 1] = 0 \/ f[k + 1] + (k + 1) <= size)
      BY <3>2, <3>3
    <3> QED
      BY <3>4
  <2> QED
    BY <1>7, <2>1
<1> HIDE DEF S
<1>9. \A k \in Nat : k \in S
  BY <1>8, Induct
<1>10. \A k \in Nat : f[k] \in Nat
  BY <1>9 DEF S
<1>11. f[size] = 0 /\ PAGE_SIZE \in Nat
  <2>1. size \in S
    BY <1>9
  <2> QED
    BY <2>1, UnitNumbers DEF S
<1> DEFINE ends == {k \in 0 .. size : f[k] <= PAGE_SIZE}
<1>12. ends \in SUBSET Nat /\ size \in ends
  BY <1>11
<1>13. PICK k \in ends : \A j \in ends : k <= j
  BY <1>12, LeastOf
<1>14. f[k] <= PAGE_SIZE /\ \A j \in 0 .. k - 1 : f[j] > PAGE_SIZE
  <2>1. ASSUME NEW j \in 0 .. k - 1 PROVE f[j] > PAGE_SIZE
    <3>1. k \in 0 .. size
      BY <1>13
    <3>2. j \in 0 .. size /\ ~(k <= j) /\ j \in Nat
      BY <3>1
    <3>3. j \notin ends /\ f[j] \in Nat
      BY <1>10, <1>13, <3>2
    <3> QED
      BY <1>11, <3>2, <3>3
  <2> QED
    BY <1>13, <2>1
<1>15. FindOrder(size) = CHOOSE i \in 0 .. size : f[i] <= PAGE_SIZE /\ \A j \in 0 .. i - 1 : f[j] > PAGE_SIZE
  BY <1>5 DEF FindOrder
<1>16. PICK o : o = FindOrder(size)
  OBVIOUS
<1>17. o \in 0 .. size /\ f[o] <= PAGE_SIZE
  BY <1>13, <1>14, <1>15, <1>16
<1>18. f[0] = size /\ f[1] = size \div 2
  <2>1. f[0 + 1] = f[0] \div 2 /\ 0 + 1 = 1
    BY <1>7
  <2> QED
    BY <1>7, <2>1
<1>19. o = 1 => size <= 2 * PAGE_SIZE + 1
  BY <1>11, <1>17, <1>18
<1> QED
  BY <1>16, <1>17, <1>18, <1>19

(***************************************************************************)
(* The circular list of SLOB                                               *)
(***************************************************************************)
\* The state of SLOB with its types, and what its list passes.
Slob == [nxt : [Node -> Node], units : [Node -> Int], slobfree : Node]
Ring(S) == S \union {ARENA}

\* The list of s has the arena and the blocks of S, in address order.
SlobList(s, S) ==
  /\ s \in Slob /\ S \in SUBSET Addr /\ s.slobfree \in Ring(S)
  /\ \A x \in Ring(S) : s.nxt[x] \in Ring(S) /\ (s.nxt[x] = ARENA \/ x < s.nxt[x])
  /\ \A x, y \in Ring(S) : x < y => x < s.nxt[x] /\ s.nxt[x] <= y

\* at follows the list of s.
Goes(at, s) == at \in [Nat -> Node] /\ \A k \in Nat : at[k + 1] = s.nxt[at[k]]

\* The addresses of the list are numbers.
LEMMA RingTypes ==
  ASSUME NEW s, NEW S, SlobList(s, S)
  PROVE  /\ s.nxt \in [Node -> Node] /\ s.units \in [Node -> Int]
         /\ \A x \in Ring(S) : x \in Int /\ x \in Node /\ x < UNITS /\ (x = ARENA \/ (x \in Nat /\ x \in Addr /\ x \in S))
         /\ ARENA \in Ring(S) /\ ARENA = -2
         /\ \A b \in Addr : b \in Nat /\ b < UNITS /\ b \in Node /\ b # ARENA
<1>1. s.nxt \in [Node -> Node] /\ s.units \in [Node -> Int]
  BY DEF SlobList, Slob
<1>2. Addr = 0 .. UNITS - 1 /\ UNITS \in Nat /\ UNITS >= 1 /\ ARENA = -2 /\ Node = Addr \union {ARENA}
  BY UnitNumbers DEF Node
<1>3. S \subseteq Addr
  BY DEF SlobList
<1>4. \A b \in Addr : b \in Nat /\ b < UNITS /\ b \in Node /\ b # ARENA
  BY <1>2
<1> QED
  BY <1>1, <1>2, <1>3, <1>4 DEF Ring

\* Round follows the list.
LEMMA RoundIs ==
  ASSUME NEW s, s \in Slob, NEW from, from \in Node
  PROVE  \E at : /\ Goes(at, s) /\ at[0] = from
                 /\ Round(s, from) = [k \in 0 .. UNITS + 1 |-> at[k]]
<1>1. PICK nx : nx = s.nxt
  OBVIOUS
<1>2. nx \in [Node -> Node]
  BY <1>1 DEF Slob
<1>3. Stays(nx, Node)
  BY <1>2 DEF Stays
<1>4. /\ Way(nx, from) \in [Nat -> Node] /\ Way(nx, from)[0] = from
      /\ \A k \in Nat : Way(nx, from)[k + 1] = nx[Way(nx, from)[k]]
  BY <1>3, WayStays
<1>5. Round(s, from) = [k \in 0 .. UNITS + 1 |-> Way(nx, from)[k]]
  BY <1>1, Nodes DEF Round, Way
<1>6. Goes(Way(nx, from), s)
  BY <1>1, <1>4 DEF Goes
<1> QED
  BY <1>4, <1>5, <1>6

\* The way from a to c, round the arena if need be.
Rank(a) == IF a = ARENA THEN 0 ELSE a + 1
Distance(a, c) == IF Rank(a) <= Rank(c) THEN Rank(c) - Rank(a) ELSE Rank(c) - Rank(a) + UNITS + 1

\* Each step of the list comes nearer to a block that is not reached yet.
LEMMA Nearer ==
  ASSUME NEW s, NEW S, SlobList(s, S), NEW a \in Ring(S), NEW c \in Ring(S)
  PROVE  /\ Distance(a, c) \in Nat /\ Distance(a, c) <= UNITS /\ (Distance(a, c) = 0 => a = c)
         /\ a # c => Distance(s.nxt[a], c) + 1 <= Distance(a, c)
<1>1. /\ a \in Int /\ c \in Int /\ ARENA = -2 /\ UNITS \in Nat /\ a < UNITS /\ c < UNITS
      /\ (a = ARENA \/ a \in Nat) /\ (c = ARENA \/ c \in Nat) /\ ARENA \in Ring(S)
  BY RingTypes, UnitNumbers
<1>2. Rank(a) \in Nat /\ Rank(c) \in Nat /\ Rank(a) <= UNITS /\ Rank(c) <= UNITS /\ (Rank(a) = Rank(c) => a = c)
  BY <1>1 DEF Rank
<1>3. ASSUME a # c PROVE Distance(s.nxt[a], c) + 1 <= Distance(a, c)
  <2>1. PICK b : b = s.nxt[a]
    OBVIOUS
  <2>2. b \in Ring(S) /\ (b = ARENA \/ a < b) /\ (a < c => a < b /\ b <= c)
    BY <2>1 DEF SlobList
  <2>3. b \in Int /\ b < UNITS /\ (b = ARENA \/ b \in Nat)
    BY <2>2, RingTypes
  <2>4. Rank(b) \in Nat /\ Rank(b) <= UNITS /\ (b # ARENA => Rank(b) > Rank(a)) /\ (b = ARENA => Rank(b) = 0)
    BY <1>1, <2>2, <2>3 DEF Rank
  <2>5. a < c => Rank(a) < Rank(c) /\ Rank(a) < Rank(b) /\ Rank(b) <= Rank(c)
    BY <1>1, <2>2, <2>3 DEF Rank
  <2>6. ~(a < c) => Rank(c) < Rank(a)
    BY <1>1, <1>3 DEF Rank
  <2> QED
    BY <1>1, <1>2, <2>1, <2>4, <2>5, <2>6 DEF Distance
<1> QED
  BY <1>1, <1>2, <1>3 DEF Distance

\* The list is followed all the way round.
LEMMA RingMeets ==
  ASSUME NEW s, NEW S, SlobList(s, S), NEW at, Goes(at, s), at[0] \in Ring(S)
  PROVE  /\ \A k \in Nat : at[k] \in Ring(S)
         /\ \A i \in Nat : \A c \in Ring(S) : \E k \in Nat : i <= k /\ k <= i + UNITS /\ at[k] = c
<1> DEFINE T == {k \in Nat : at[k] \in Ring(S)}
<1>1. 0 \in T /\ \A k \in Nat : k \in T => k + 1 \in T
  BY DEF SlobList, Goes
<1> HIDE DEF T
<1>2. \A k \in Nat : k \in T
  BY <1>1, Induct
<1>3. \A k \in Nat : at[k] \in Ring(S)
  BY <1>2 DEF T
<1>4. ASSUME NEW i \in Nat, NEW c \in Ring(S)
      PROVE  \E k \in Nat : i <= k /\ k <= i + UNITS /\ at[k] = c
  <2> DEFINE met(k) == \E j \in Nat : i <= j /\ j <= i + k /\ at[j] = c
             V == {k \in Nat : met(k) \/ Distance(at[i + k], c) + k <= UNITS}
  <2>1. 0 \in V
    <3>1. i + 0 = i /\ at[i] \in Ring(S)
      BY <1>3
    <3>2. Distance(at[i], c) \in Nat /\ Distance(at[i], c) <= UNITS
      BY <3>1, Nearer
    <3> QED
      BY <3>1, <3>2, UnitNumbers
  <2>2. ASSUME NEW k \in Nat, k \in V PROVE k + 1 \in V
    <3>1. CASE met(k)
      BY <3>1
    <3>2. CASE ~met(k)
      <4>1. i + k \in Nat /\ at[i + k] \in Ring(S) /\ (i + k) + 1 = i + (k + 1) /\ (i + k) + 1 \in Nat
        BY <1>3
      <4>2. at[i + (k + 1)] = s.nxt[at[i + k]] /\ at[i + (k + 1)] \in Ring(S)
        BY <1>3, <4>1 DEF Goes
      <4>3. at[i + k] # c
        BY <3>2, <4>1
      <4>4. Distance(at[i + k], c) + k <= UNITS
        BY <2>2, <3>2
      <4>5. PICK d, e : d = Distance(at[i + k], c) /\ e = Distance(at[i + (k + 1)], c)
        OBVIOUS
      <4>6. d \in Nat /\ e \in Nat /\ e + 1 <= d
        BY <4>1, <4>2, <4>3, <4>5, Nearer
      <4>7. e + (k + 1) <= UNITS
        BY <4>4, <4>5, <4>6, UnitNumbers
      <4> QED
        BY <4>5, <4>7
    <3> QED
      BY <3>1, <3>2
  <2> HIDE DEF V
  <2>3. \A k \in Nat : k \in V
    BY <2>1, <2>2, Induct
  <2>4. UNITS \in V /\ UNITS \in Nat
    BY <2>3, UnitNumbers
  <2>5. CASE met(UNITS)
    BY <2>5
  <2>6. CASE Distance(at[i + UNITS], c) + UNITS <= UNITS
    <3>1. i + UNITS \in Nat /\ at[i + UNITS] \in Ring(S)
      BY <1>3, <2>4
    <3>2. Distance(at[i + UNITS], c) \in Nat
      BY <3>1, Nearer
    <3>3. Distance(at[i + UNITS], c) = 0
      BY <2>4, <2>6, <3>2
    <3>4. at[i + UNITS] = c
      BY <3>1, <3>3, Nearer
    <3> QED
      BY <2>4, <3>1, <3>4
  <2> QED
    BY <2>4, <2>5, <2>6 DEF V
<1> QED
  BY <1>3, <1>4

\* slob_free finds the block of the list that comes before b.
LEMMA BeforeIs ==
  ASSUME NEW s, NEW S, SlobList(s, S), NEW b \in Addr, b \notin S
  PROVE  /\ Before(s, b) \in Ring(S) /\ Before(s, b) < b
         /\ s.nxt[Before(s, b)] = ARENA \/ b < s.nxt[Before(s, b)]
<1>1. s \in Slob /\ s.slobfree \in Ring(S) /\ s.slobfree \in Node /\ UNITS \in Nat
  BY UnitNumbers DEF SlobList, Slob
<1>2. PICK at : Goes(at, s) /\ at[0] = s.slobfree /\ Round(s, s.slobfree) = [k \in 0 .. UNITS + 1 |-> at[k]]
  BY <1>1, RoundIs
<1>3. /\ \A k \in Nat : at[k] \in Ring(S)
      /\ \A i \in Nat : \A c \in Ring(S) : \E k \in Nat : i <= k /\ k <= i + UNITS /\ at[k] = c
  <2>1. Goes(at, s) /\ at[0] \in Ring(S)
    BY <1>1, <1>2
  <2> QED
    BY <2>1, RingMeets
<1>4. b \in Nat /\ b # ARENA /\ ARENA = -2 /\ ARENA \in Ring(S)
  BY RingTypes
<1> DEFINE fits(c) == \/ c < b /\ b < s.nxt[c]
                      \/ c >= s.nxt[c] /\ (b > c \/ b < s.nxt[c])
           low == {d \in Nat : \E y \in Ring(S) : y < b /\ d = b - y}
<1>5. ASSUME NEW c \in Ring(S)
      PROVE  fits(c) <=> c < b /\ (s.nxt[c] = ARENA \/ b < s.nxt[c])
  <2>1. PICK d : d = s.nxt[c]
    OBVIOUS
  <2>2. d \in Ring(S) /\ (d = ARENA \/ c < d)
    BY <2>1 DEF SlobList
  <2>3. c \in Int /\ d \in Int /\ (c = ARENA \/ c \in Nat) /\ (d = ARENA \/ d \in Nat)
    BY <2>2, RingTypes
  <2> QED
    BY <1>4, <2>1, <2>2, <2>3
<1>6. PICK c \in Ring(S) : fits(c)
  <2>1. low \in SUBSET Nat /\ low # {}
    <3>1. ARENA < b /\ b - ARENA \in Nat
      BY <1>4
    <3> QED
      BY <1>4, <3>1
  <2> HIDE DEF low
  <2>2. PICK d \in low : \A e \in low : d <= e
    BY <2>1, LeastOf
  <2>3. PICK c \in Ring(S) : c < b /\ d = b - c
    BY <2>2 DEF low
  <2>4. PICK e : e = s.nxt[c]
    OBVIOUS
  <2>5. e \in Ring(S) /\ (e = ARENA \/ c < e)
    BY <2>4 DEF SlobList
  <2>6. c \in Int /\ e \in Int /\ e # b
    <3>1. b \notin Ring(S)
      BY <1>4 DEF Ring
    <3> QED
      BY <2>5, <3>1, RingTypes
  <2>7. e = ARENA \/ b < e
    <3> SUFFICES ASSUME e # ARENA, e < b PROVE FALSE
      BY <1>4, <2>6
    <3>1. b - e \in low
      BY <1>4, <2>5, <2>6 DEF low
    <3> QED
      BY <1>4, <2>2, <2>3, <2>5, <2>6, <3>1
  <2> QED
    BY <1>5, <2>3, <2>4, <2>7
<1> HIDE DEF fits
<1> DEFINE found == {k \in Nat : k <= UNITS + 1 /\ fits(at[k])}
<1>7. found \in SUBSET Nat /\ found # {}
  <2>1. PICK k \in Nat : 0 <= k /\ k <= 0 + UNITS /\ at[k] = c
    BY <1>3
  <2> QED
    BY <1>1, <1>6, <2>1
<1> HIDE DEF found
<1>8. PICK k \in found : \A j \in found : k <= j
  BY <1>7, LeastOf
<1> DEFINE first(i) == fits(Round(s, s.slobfree)[i]) /\ \A j \in 0 .. i - 1 : ~fits(Round(s, s.slobfree)[j])
<1>9. /\ DOMAIN Round(s, s.slobfree) = 0 .. UNITS + 1
      /\ \A i \in 0 .. UNITS + 1 : Round(s, s.slobfree)[i] = at[i]
  BY <1>2
<1>10. k \in 0 .. UNITS + 1 /\ first(k)
  <2>1. k \in Nat /\ k <= UNITS + 1 /\ fits(at[k])
    BY <1>8 DEF found
  <2>2. k \in 0 .. UNITS + 1
    BY <1>1, <2>1
  <2>3. ASSUME NEW j \in 0 .. k - 1 PROVE ~fits(Round(s, s.slobfree)[j])
    <3>1. j \in Nat /\ j <= UNITS + 1 /\ ~(k <= j) /\ j \in 0 .. UNITS + 1
      BY <1>1, <2>1
    <3>2. ~fits(at[j])
      BY <1>8, <3>1 DEF found
    <3> QED
      BY <1>9, <3>1, <3>2
  <2> QED
    BY <1>9, <2>1, <2>2, <2>3
<1>11. PICK i : i = CHOOSE j \in 0 .. UNITS + 1 : first(j)
  OBVIOUS
<1>12. i \in 0 .. UNITS + 1 /\ first(i)
  BY <1>10, <1>11
<1>13. Before(s, b) = Round(s, s.slobfree)[i]
  BY <1>9, <1>11 DEF Before, fits
<1>14. Before(s, b) = at[i] /\ i \in Nat /\ fits(at[i])
  BY <1>1, <1>9, <1>12, <1>13
<1> QED
  BY <1>3, <1>5, <1>14

\* slob_alloc looks at every block once, from the one after slobfree, and finds the first
\* that has room.
LEMMA SlobFitsIs ==
  ASSUME NEW s, NEW S, SlobList(s, S), NEW u \in Int
  PROVE  /\ \A k \in SlobFits(s, u) :
              /\ k \in Nat /\ Round(s, s.slobfree)[k - 1] \in Ring(S)
              /\ s.units[s.nxt[Round(s, s.slobfree)[k - 1]]] >= u
         /\ (\E p \in Ring(S) : s.units[p] >= u) => SlobFits(s, u) # {}
<1>1. s \in Slob /\ s.slobfree \in Ring(S) /\ s.slobfree \in Node /\ UNITS \in Nat
  BY UnitNumbers DEF SlobList, Slob
<1>2. PICK at : Goes(at, s) /\ at[0] = s.slobfree /\ Round(s, s.slobfree) = [k \in 0 .. UNITS + 1 |-> at[k]]
  BY <1>1, RoundIs
<1>3. /\ \A k \in Nat : at[k] \in Ring(S)
      /\ \A i \in Nat : \A c \in Ring(S) : \E k \in Nat : i <= k /\ k <= i + UNITS /\ at[k] = c
  <2>1. Goes(at, s) /\ at[0] \in Ring(S)
    BY <1>1, <1>2
  <2> QED
    BY <2>1, RingMeets
<1>4. PICK R : R = Round(s, s.slobfree)
  OBVIOUS
<1>5. DOMAIN R = 0 .. UNITS + 1 /\ \A i \in 0 .. UNITS + 1 : R[i] = at[i]
  BY <1>2, <1>4
<1> DEFINE back(k) == at[k] = s.slobfree /\ \A j \in 1 .. k - 1 : at[j] # s.slobfree
           turn == CHOOSE k \in DOMAIN R \ {0} : R[k] = s.slobfree /\ \A j \in 1 .. k - 1 : R[j] # s.slobfree
<1>6. turn \in Nat /\ turn >= 1 /\ turn <= UNITS + 1 /\ back(turn)
  <2> DEFINE home == {k \in Nat : 1 <= k /\ k <= UNITS + 1 /\ at[k] = s.slobfree}
  <2>1. home \in SUBSET Nat /\ home # {}
    <3>1. PICK k \in Nat : 1 <= k /\ k <= 1 + UNITS /\ at[k] = s.slobfree
      BY <1>1, <1>3
    <3> QED
      BY <1>1, <3>1
  <2> HIDE DEF home
  <2>2. PICK k \in home : \A j \in home : k <= j
    BY <2>1, LeastOf
  <2>3. k \in Nat /\ 1 <= k /\ k <= UNITS + 1 /\ at[k] = s.slobfree
    BY <2>2 DEF home
  <2>4. ASSUME NEW j \in 1 .. k - 1 PROVE R[j] # s.slobfree
    <3>1. j \in Nat /\ 1 <= j /\ j <= UNITS + 1 /\ ~(k <= j) /\ j \in 0 .. UNITS + 1
      BY <1>1, <2>3
    <3> QED
      BY <1>5, <2>2, <3>1 DEF home
  <2>5. k \in DOMAIN R \ {0} /\ R[k] = s.slobfree
    BY <1>1, <1>5, <2>3
  <2>6. turn \in DOMAIN R \ {0} /\ R[turn] = s.slobfree /\ \A j \in 1 .. turn - 1 : R[j] # s.slobfree
    BY <2>4, <2>5
  <2> HIDE DEF turn
  <2>7. turn \in Nat /\ turn >= 1 /\ turn <= UNITS + 1 /\ at[turn] = s.slobfree
    BY <1>1, <1>5, <2>6
  <2>8. ASSUME NEW j \in 1 .. turn - 1 PROVE at[j] # s.slobfree
    <3>1. j \in 0 .. UNITS + 1
      BY <1>1, <2>7
    <3> QED
      BY <1>5, <2>6, <3>1
  <2> QED
    BY <2>7, <2>8
<1>7. SlobFits(s, u) = {k \in 1 .. turn : s.units[R[k]] >= u /\ \A j \in 1 .. k - 1 : s.units[R[j]] < u}
  BY <1>4 DEF SlobFits
<1> HIDE DEF turn
<1>8. ASSUME NEW k \in SlobFits(s, u)
      PROVE  /\ k \in Nat /\ R[k - 1] \in Ring(S)
             /\ s.units[s.nxt[R[k - 1]]] >= u
  <2>1. k \in 1 .. turn /\ s.units[R[k]] >= u
    BY <1>7
  <2>2. k \in Nat /\ k - 1 \in Nat /\ k \in 0 .. UNITS + 1 /\ k - 1 \in 0 .. UNITS + 1 /\ (k - 1) + 1 = k
    BY <1>1, <1>6, <2>1
  <2>3. R[k] = at[k] /\ R[k - 1] = at[k - 1] /\ at[k - 1] \in Ring(S)
    BY <1>3, <1>5, <2>2
  <2>4. at[(k - 1) + 1] = s.nxt[at[k - 1]]
    BY <1>2, <2>2 DEF Goes
  <2> QED
    BY <2>1, <2>2, <2>3, <2>4
<1>9. ASSUME NEW p \in Ring(S), s.units[p] >= u PROVE SlobFits(s, u) # {}
  <2>1. ASSUME NEW i \in Nat PROVE at[turn + i] = at[i]
    <3> DEFINE V == {j \in Nat : at[turn + j] = at[j]}
    <3>1. 0 \in V
      BY <1>2, <1>6
    <3>2. ASSUME NEW j \in Nat, j \in V PROVE j + 1 \in V
      <4>1. at[turn + j] = at[j] /\ turn + j \in Nat /\ (turn + j) + 1 = turn + (j + 1)
        BY <1>6, <3>2
      <4>2. at[(turn + j) + 1] = s.nxt[at[turn + j]] /\ at[j + 1] = s.nxt[at[j]]
        BY <1>2, <4>1 DEF Goes
      <4> QED
        BY <4>1, <4>2
    <3> HIDE DEF V
    <3>3. \A j \in Nat : j \in V
      BY <3>1, <3>2, Induct
    <3> QED
      BY <3>3 DEF V
  <2> DEFINE roomy == {k \in Nat : 1 <= k /\ s.units[at[k]] >= u}
  <2>2. roomy \in SUBSET Nat /\ roomy # {}
    <3>1. PICK k \in Nat : 1 <= k /\ k <= 1 + UNITS /\ at[k] = p
      BY <1>3
    <3> QED
      BY <1>9, <3>1
  <2> HIDE DEF roomy
  <2>3. PICK k \in roomy : \A j \in roomy : k <= j
    BY <2>2, LeastOf
  <2>4. k \in Nat /\ 1 <= k /\ s.units[at[k]] >= u
    BY <2>3 DEF roomy
  <2>5. k <= turn
    <3> SUFFICES ASSUME turn < k PROVE FALSE
      BY <1>6, <2>4
    <3>1. k - turn \in Nat /\ 1 <= k - turn /\ turn + (k - turn) = k /\ ~(k <= k - turn)
      BY <1>6, <2>4
    <3>2. at[k - turn] = at[k]
      BY <2>1, <3>1
    <3> QED
      BY <2>3, <2>4, <3>1, <3>2 DEF roomy
  <2>6. k \in 1 .. turn /\ k \in 0 .. UNITS + 1
    BY <1>1, <1>6, <2>4, <2>5
  <2>7. ASSUME NEW j \in 1 .. k - 1 PROVE s.units[R[j]] < u
    <3>1. j \in Nat /\ 1 <= j /\ ~(k <= j) /\ j \in 0 .. UNITS + 1
      BY <1>1, <2>6
    <3>2. ~(s.units[at[j]] >= u)
      BY <2>3, <3>1 DEF roomy
    <3>3. s.units[at[j]] \in Int
      BY <1>3, <3>1, RingTypes
    <3> QED
      BY <1>5, <3>1, <3>2, <3>3
  <2>8. s.units[R[k]] >= u
    BY <1>5, <2>4, <2>6
  <2> QED
    BY <1>7, <2>6, <2>7, <2>8
<1> QED
  BY <1>4, <1>8, <1>9

(***************************************************************************)
(* The blocks of SLOB                                                      *)
(***************************************************************************)
\* a is a unit of the block at p.
InCell(s, p, a) == p <= a /\ a < p + s.units[p]

\* The free blocks are the units of H, none overlaps or adjoins another.
Cells(s, S, H) ==
  /\ SlobList(s, S) /\ H \in SUBSET Addr /\ s.units[ARENA] = 1
  /\ \A p \in S : s.units[p] >= 1 /\ p + s.units[p] <= UNITS
  /\ \A p, q \in S : p < q => p + s.units[p] < q
  /\ \A a \in Addr : a \in H <=> \E p \in S : InCell(s, p, a)

\* The types of what Cells tells of.
LEMMA CellTypes ==
  ASSUME NEW s, NEW S, NEW H, Cells(s, S, H)
  PROVE  /\ SlobList(s, S) /\ s \in Slob /\ s.nxt \in [Node -> Node] /\ s.units \in [Node -> Int]
         /\ \A p \in S : p \in Nat /\ p \in Addr /\ p \in Node /\ p < UNITS /\ p # ARENA /\ s.units[p] \in Nat /\ p \in H
         /\ \A x \in Ring(S) : x \in Int /\ x \in Node /\ x < UNITS /\ (x = ARENA \/ (x \in Nat /\ x \in Addr /\ x \in S))
         /\ ARENA \in Ring(S) /\ ARENA = -2 /\ S \subseteq Ring(S)
         /\ \A b \in Addr : b \in Nat /\ b < UNITS /\ b \in Node /\ b # ARENA
<1>1. /\ SlobList(s, S) /\ s \in Slob /\ S \subseteq Addr /\ s.nxt \in [Node -> Node] /\ s.units \in [Node -> Int]
      /\ \A x \in Ring(S) : x \in Int /\ x \in Node /\ x < UNITS /\ (x = ARENA \/ (x \in Nat /\ x \in Addr /\ x \in S))
      /\ ARENA \in Ring(S) /\ ARENA = -2 /\ S \subseteq Ring(S)
      /\ \A b \in Addr : b \in Nat /\ b < UNITS /\ b \in Node /\ b # ARENA
  <2>1. SlobList(s, S)
    BY DEF Cells
  <2> QED
    BY <2>1, RingTypes DEF SlobList, Ring
<1>2. ASSUME NEW p \in S PROVE s.units[p] \in Nat /\ p \in H
  <2>1. p \in Addr /\ p \in Node /\ p \in Nat /\ s.units[p] \in Int /\ s.units[p] >= 1
    BY <1>1 DEF Cells
  <2>2. InCell(s, p, p)
    BY <2>1 DEF InCell
  <2> QED
    BY <2>1, <2>2 DEF Cells
<1> QED
  BY <1>1, <1>2

\* What slob_alloc writes when it takes a block whole, and when it splits one.
LEMMA TakeFields ==
  ASSUME NEW s, s \in Slob, NEW u \in Nat, NEW k, NEW prev \in Node, prev = Round(s, s.slobfree)[k - 1],
         NEW cur \in Node, cur = s.nxt[prev], prev # cur
  PROVE  LET r == SlobTake(s, u, k) IN
         /\ s.units[cur] = u =>
              /\ r \in Slob /\ r.slobfree = prev
              /\ \A x \in Node : r.nxt[x] = IF x = prev THEN s.nxt[cur] ELSE IF x = cur THEN ARENA ELSE s.nxt[x]
              /\ \A x \in Node : r.units[x] = IF x = cur THEN 0 ELSE s.units[x]
         /\ s.units[cur] # u /\ cur + u \in Node \ {cur, prev} =>
              /\ r \in Slob /\ r.slobfree = prev
              /\ \A x \in Node : r.nxt[x] = IF x = cur + u THEN s.nxt[cur] ELSE IF x = prev THEN cur + u
                                            ELSE IF x = cur THEN ARENA ELSE s.nxt[x]
              /\ \A x \in Node : r.units[x] = IF x = cur + u THEN s.units[cur] - u
                                              ELSE IF x = cur THEN 0 ELSE s.units[x]
<1> DEFINE r == SlobTake(s, u, k)
           rest == cur + u
           tidy == [s EXCEPT !.units[cur] = 0, !.nxt[cur] = ARENA, !.slobfree = prev]
<1>1. s.nxt \in [Node -> Node] /\ s.units \in [Node -> Int] /\ ARENA \in Node
  BY Nodes DEF Slob, Node
<1>2. PICK nx, un : nx = [s.nxt EXCEPT ![cur] = ARENA] /\ un = [s.units EXCEPT ![cur] = 0]
  OBVIOUS
<1>3. tidy = [nxt |-> nx, units |-> un, slobfree |-> prev]
  <2>1. tidy = [s EXCEPT !.units = un, !.nxt = nx, !.slobfree = prev]
    BY <1>2
  <2> HIDE DEF tidy
  <2>2. s = [nxt |-> s.nxt, units |-> s.units, slobfree |-> s.slobfree]
    BY DEF Slob
  <2>3. PICK a, b, c : a = s.nxt /\ b = s.units /\ c = s.slobfree
    OBVIOUS
  <2>4. s = [nxt |-> a, units |-> b, slobfree |-> c]
    BY <2>2, <2>3
  <2> QED
    BY <2>1, <2>4
<1>4. nx \in [Node -> Node] /\ un \in [Node -> Int]
  BY <1>1, <1>2
<1>5. r = IF s.units[cur] = u THEN [tidy EXCEPT !.nxt[prev] = s.nxt[cur]]
          ELSE [tidy EXCEPT !.nxt[prev] = rest, !.units[rest] = s.units[cur] - u, !.nxt[rest] = s.nxt[cur]]
  BY DEF SlobTake
<1> HIDE DEF tidy, r
<1>6. ASSUME s.units[cur] = u
      PROVE  /\ r \in Slob /\ r.slobfree = prev
             /\ \A x \in Node : r.nxt[x] = IF x = prev THEN s.nxt[cur] ELSE IF x = cur THEN ARENA ELSE s.nxt[x]
             /\ \A x \in Node : r.units[x] = IF x = cur THEN 0 ELSE s.units[x]
  <2>1. PICK n2 : n2 = [nx EXCEPT ![prev] = s.nxt[cur]]
    OBVIOUS
  <2>2. r = [nxt |-> n2, units |-> un, slobfree |-> prev]
    BY <1>3, <1>5, <1>6, <2>1
  <2>3. n2 \in [Node -> Node]
    BY <1>1, <1>4, <2>1
  <2>4. r \in Slob /\ r.slobfree = prev /\ r.nxt = n2 /\ r.units = un
    BY <1>4, <2>2, <2>3 DEF Slob
  <2>5. \A x \in Node : n2[x] = IF x = prev THEN s.nxt[cur] ELSE IF x = cur THEN ARENA ELSE s.nxt[x]
    BY <1>1, <1>2, <2>1
  <2>6. \A x \in Node : un[x] = IF x = cur THEN 0 ELSE s.units[x]
    BY <1>1, <1>2
  <2> QED
    BY <2>4, <2>5, <2>6
<1>7. ASSUME s.units[cur] # u, rest \in Node \ {cur, prev}
      PROVE  /\ r \in Slob /\ r.slobfree = prev
             /\ \A x \in Node : r.nxt[x] = IF x = rest THEN s.nxt[cur] ELSE IF x = prev THEN rest
                                           ELSE IF x = cur THEN ARENA ELSE s.nxt[x]
             /\ \A x \in Node : r.units[x] = IF x = rest THEN s.units[cur] - u
                                             ELSE IF x = cur THEN 0 ELSE s.units[x]
  <2>1. PICK t, z : t = rest /\ z = s.units[cur] - u
    OBVIOUS
  <2> HIDE DEF rest
  <2>2. PICK n2, u2 : n2 = [[nx EXCEPT ![prev] = t] EXCEPT ![t] = s.nxt[cur]] /\ u2 = [un EXCEPT ![t] = z]
    OBVIOUS
  <2>3. r = [nxt |-> n2, units |-> u2, slobfree |-> prev]
    BY <1>3, <1>5, <1>7, <2>1, <2>2
  <2>4. z \in Int /\ t \in Node /\ t # cur /\ t # prev
    BY <1>1, <1>7, <2>1
  <2>5. n2 \in [Node -> Node] /\ u2 \in [Node -> Int]
    BY <1>1, <1>4, <2>2, <2>4
  <2>6. r \in Slob /\ r.slobfree = prev /\ r.nxt = n2 /\ r.units = u2
    BY <2>3, <2>5 DEF Slob
  <2>7. \A x \in Node : n2[x] = IF x = t THEN s.nxt[cur] ELSE IF x = prev THEN t ELSE IF x = cur THEN ARENA ELSE s.nxt[x]
    BY <1>1, <1>2, <1>4, <2>2, <2>4
  <2>8. \A x \in Node : u2[x] = IF x = t THEN z ELSE IF x = cur THEN 0 ELSE s.units[x]
    BY <1>1, <1>2, <1>4, <2>2, <2>4
  <2> QED
    BY <2>1, <2>6, <2>7, <2>8
<1> QED
  BY <1>6, <1>7 DEF r

\* Where a block that is found with room lies.
LEMMA FoundBlock ==
  ASSUME NEW s, NEW S, NEW H, Cells(s, S, H), NEW u \in Nat, u >= 2, NEW k \in SlobFits(s, u),
         NEW prev, prev = Round(s, s.slobfree)[k - 1], NEW cur, cur = s.nxt[prev]
  PROVE  /\ prev \in Ring(S) /\ cur \in S /\ prev < cur /\ u <= s.units[cur]
         /\ \A x \in Ring(S) : s.nxt[x] = cur => x = prev
         /\ \A x \in Ring(S) : prev < x => cur <= x
         /\ s.nxt[cur] \in Ring(S) \ {cur} /\ (s.nxt[cur] = ARENA \/ cur < s.nxt[cur])
         /\ \A x \in Ring(S) : cur < x => cur + s.units[cur] < x /\ s.nxt[cur] <= x /\ cur < s.nxt[cur]
<1>1. /\ SlobList(s, S) /\ s.units[ARENA] = 1 /\ ARENA = -2 /\ ARENA \in Ring(S)
      /\ \A x \in Ring(S) : x \in Int /\ (x = ARENA \/ (x \in Nat /\ x \in S))
  <2>1. s.units[ARENA] = 1
    BY DEF Cells
  <2> QED
    BY <2>1, CellTypes
<1>2. prev \in Ring(S) /\ s.units[cur] >= u
  BY <1>1, SlobFitsIs
<1>3. cur \in Ring(S) /\ (cur = ARENA \/ prev < cur)
  BY <1>1, <1>2 DEF SlobList
<1>4. cur # ARENA
  BY <1>1, <1>2
<1>5. cur \in S /\ prev < cur /\ cur \in Nat /\ prev \in Int
  BY <1>1, <1>2, <1>3, <1>4
<1>6. s.nxt[cur] \in Ring(S) /\ (s.nxt[cur] = ARENA \/ cur < s.nxt[cur])
  BY <1>1, <1>3 DEF SlobList
<1>7. s.nxt[cur] # cur
  BY <1>1, <1>5, <1>6
<1>8. ASSUME NEW x \in Ring(S), prev < x PROVE cur <= x
  BY <1>1, <1>2, <1>8 DEF SlobList
<1>9. ASSUME NEW x \in Ring(S), s.nxt[x] = cur PROVE x = prev
  <2>1. x < cur /\ x \in Int
    BY <1>1, <1>4, <1>9 DEF SlobList
  <2>2. ~(prev < x)
    BY <1>5, <1>8, <2>1
  <2>3. ~(x < prev)
    <3>1. x < prev => s.nxt[x] <= prev
      BY <1>1, <1>2 DEF SlobList
    <3> QED
      BY <1>5, <1>9, <3>1
  <2> QED
    BY <1>5, <2>1, <2>2, <2>3
<1>10. ASSUME NEW x \in Ring(S), cur < x PROVE cur + s.units[cur] < x /\ s.nxt[cur] <= x /\ cur < s.nxt[cur]
  <2>1. x \in S
    BY <1>1, <1>5, <1>10
  <2>2. cur + s.units[cur] < x
    BY <1>5, <1>10, <2>1 DEF Cells
  <2>3. s.nxt[cur] <= x /\ cur < s.nxt[cur]
    BY <1>1, <1>3, <1>10 DEF SlobList
  <2> QED
    BY <2>2, <2>3
<1> QED
  BY <1>2, <1>5, <1>6, <1>7, <1>8, <1>9, <1>10

\* slob_alloc takes the units of a block out of the free blocks.
LEMMA TakeCells ==
  ASSUME NEW s, NEW S, NEW H, Cells(s, S, H), NEW u \in Nat, u >= 2, NEW k \in SlobFits(s, u),
         NEW cur, cur = s.nxt[Round(s, s.slobfree)[k - 1]]
  PROVE  /\ cur \in Addr /\ cur + u <= UNITS /\ From(cur, u) \subseteq H
         /\ \E T : Cells(SlobTake(s, u, k), T, H \ From(cur, u))
<1>1. PICK prev, r, n, after : prev = Round(s, s.slobfree)[k - 1] /\ r = SlobTake(s, u, k) /\ n = s.units[cur] /\ after = s.nxt[cur]
  OBVIOUS
<1>2. /\ prev \in Ring(S) /\ cur \in S /\ prev < cur /\ u <= n
      /\ \A x \in Ring(S) : s.nxt[x] = cur => x = prev
      /\ \A x \in Ring(S) : prev < x => cur <= x
      /\ after \in Ring(S) \ {cur} /\ (after = ARENA \/ cur < after)
      /\ \A x \in Ring(S) : cur < x => cur + n < x /\ after <= x /\ cur < after
  BY <1>1, FoundBlock
<1>3. /\ s \in Slob /\ s.nxt \in [Node -> Node] /\ s.units \in [Node -> Int] /\ S \subseteq Ring(S)
      /\ \A p \in S : p \in Nat /\ p \in Addr /\ p \in Node /\ p < UNITS /\ p # ARENA /\ s.units[p] \in Nat
      /\ \A x \in Ring(S) : x \in Int /\ x \in Node /\ x < UNITS /\ (x = ARENA \/ (x \in Nat /\ x \in Addr /\ x \in S))
      /\ ARENA \in Ring(S) /\ ARENA = -2
      /\ \A b \in Addr : b \in Nat /\ b < UNITS /\ b \in Node /\ b # ARENA
  BY CellTypes
<1>4. /\ \A x \in Ring(S) : s.nxt[x] \in Ring(S) /\ (s.nxt[x] = ARENA \/ x < s.nxt[x])
      /\ \A x, y \in Ring(S) : x < y => x < s.nxt[x] /\ s.nxt[x] <= y
  BY DEF Cells, SlobList
<1>5. /\ H \in SUBSET Addr /\ s.units[ARENA] = 1
      /\ \A p \in S : s.units[p] >= 1 /\ p + s.units[p] <= UNITS
      /\ \A p, q \in S : p < q => p + s.units[p] < q
      /\ \A a \in Addr : a \in H <=> \E p \in S : InCell(s, p, a)
  BY DEF Cells
<1>6. /\ cur \in Nat /\ prev \in Int /\ n \in Nat /\ cur + n <= UNITS /\ cur \in Node /\ prev \in Node /\ cur \in Addr
      /\ UNITS \in Nat /\ cur \in Ring(S) /\ u \in Nat /\ u <= n
  BY <1>1, <1>2, <1>3, <1>5, UnitNumbers
<1>7. \A a \in Nat : a < UNITS => a \in Addr /\ a \in Node
  BY UnitNumbers DEF Node
<1>8. cur + u <= UNITS /\ From(cur, u) \subseteq Addr
  <2>1. cur + u <= UNITS
    BY <1>6
  <2>2. \A a \in From(cur, u) : a \in Nat /\ a < UNITS
    BY <1>6 DEF From
  <2> QED
    BY <1>7, <2>1, <2>2
<1>9. ASSUME NEW a \in Addr, a \in From(cur, u) PROVE a \in H
  <2>1. InCell(s, cur, a)
    <3>1. a \in Nat /\ cur <= a /\ a < cur + n
      BY <1>3, <1>6, <1>9 DEF From
    <3> QED
      BY <1>1, <3>1 DEF InCell
  <2> QED
    BY <1>2, <1>5, <2>1
<1>10. ASSUME NEW p \in S, p # cur, NEW a \in Addr, InCell(s, p, a) PROVE ~(cur <= a /\ a < cur + n)
  <2>1. p \in Nat /\ a \in Nat /\ s.units[p] \in Nat
    BY <1>3
  <2>2. p < cur => p + s.units[p] < cur
    BY <1>2, <1>5
  <2>3. cur < p => cur + n < p
    BY <1>2, <1>3
  <2> QED
    BY <1>6, <1>10, <2>1, <2>2, <2>3 DEF InCell
<1>11. CASE n = u
  <2> DEFINE T == S \ {cur}
  <2>1. /\ r \in Slob /\ r.slobfree = prev
        /\ \A x \in Node : r.nxt[x] = IF x = prev THEN after ELSE IF x = cur THEN ARENA ELSE s.nxt[x]
        /\ \A x \in Node : r.units[x] = IF x = cur THEN 0 ELSE s.units[x]
    <3>1. s \in Slob /\ prev \in Node /\ cur \in Node /\ cur = s.nxt[prev] /\ s.units[cur] = u /\ prev # cur
      BY <1>1, <1>2, <1>3, <1>6, <1>11
    <3> QED
      BY <1>1, <3>1, TakeFields
  <2>2. \A x \in Ring(T) : x \in Ring(S) /\ x # cur /\ x \in Node
    BY <1>3, <1>6 DEF Ring
  <2>3. \A x \in Ring(S) : x # cur => x \in Ring(T)
    BY DEF Ring
  <2> HIDE DEF T
  <2>4. ASSUME NEW x \in Ring(T) PROVE r.nxt[x] \in Ring(T) /\ (r.nxt[x] = ARENA \/ x < r.nxt[x])
    <3>1. x \in Ring(S) /\ x # cur /\ x \in Node /\ x \in Int
      BY <1>3, <2>2
    <3>2. CASE x = prev
      BY <1>2, <1>3, <1>6, <2>1, <2>3, <3>1, <3>2
    <3>3. CASE x # prev
      BY <1>2, <1>4, <2>1, <2>3, <3>1, <3>3
    <3> QED
      BY <3>2, <3>3
  <2>5. ASSUME NEW x \in Ring(T), NEW y \in Ring(T), x < y PROVE x < r.nxt[x] /\ r.nxt[x] <= y
    <3>1. x \in Ring(S) /\ x # cur /\ x \in Node /\ x \in Int /\ y \in Ring(S) /\ y # cur /\ y \in Int
      BY <1>3, <2>2
    <3>2. CASE x = prev
      <4>1. cur < y
        BY <1>2, <1>6, <2>5, <3>1, <3>2
      <4>2. after \in Int
        BY <1>2, <1>3
      <4> QED
        BY <1>2, <1>6, <2>1, <3>1, <3>2, <4>1, <4>2
    <3>3. CASE x # prev
      BY <1>4, <2>1, <2>5, <3>1, <3>3
    <3> QED
      BY <3>2, <3>3
  <2>6. SlobList(r, T)
    <3>1. prev \in Ring(T) /\ T \in SUBSET Addr
      <4>1. prev # cur /\ S \subseteq Addr
        BY <1>2, <1>3, <1>6
      <4> QED
        BY <1>2, <2>3, <4>1 DEF T
    <3> QED
      BY <2>1, <2>4, <2>5, <3>1 DEF SlobList
  <2>7. \A p \in T : p \in S /\ p # cur /\ r.units[p] = s.units[p]
    BY <1>3, <2>1 DEF T
  <2>8. \A p \in T : \A a \in Addr : InCell(r, p, a) <=> InCell(s, p, a)
    BY <2>7 DEF InCell
  <2>9. ASSUME NEW a \in Addr PROVE a \in H \ From(cur, u) <=> \E p \in T : InCell(r, p, a)
    <3>1. a \in Nat /\ (a \in From(cur, u) <=> cur <= a /\ a < cur + n)
      BY <1>3, <1>6, <1>11 DEF From
    <3>2. InCell(s, cur, a) <=> cur <= a /\ a < cur + n
      BY <1>1 DEF InCell
    <3>3. (\E p \in T : InCell(r, p, a)) <=> \E p \in S : p # cur /\ InCell(s, p, a)
      BY <2>7, <2>8 DEF T
    <3>4. a \in H <=> \E p \in S : InCell(s, p, a)
      BY <1>5
    <3> QED
      BY <1>10, <3>1, <3>2, <3>3, <3>4
  <2>10. r.units[ARENA] = 1
    BY <1>3, <1>5, <1>6, <2>1
  <2>11. Cells(r, T, H \ From(cur, u))
    BY <1>5, <2>6, <2>7, <2>9, <2>10 DEF Cells
  <2> QED
    BY <1>1, <1>6, <1>8, <1>9, <2>11
<1>12. CASE n # u
  <2>1. PICK rest : rest = cur + u
    OBVIOUS
  <2> DEFINE T == (S \ {cur}) \union {rest}
  <2>2. rest \in Nat /\ cur < rest /\ rest < cur + n /\ rest \in Addr /\ rest \in Node /\ rest # ARENA /\ n - u >= 1 /\ n - u \in Nat
    <3>1. rest \in Nat /\ cur < rest /\ rest < cur + n /\ rest < UNITS /\ n - u >= 1 /\ n - u \in Nat
      BY <1>6, <1>12, <2>1
    <3> QED
      BY <1>3, <1>7, <3>1
  <2>3. \A x \in Ring(S) : x # rest /\ (x < rest => x <= cur) /\ (rest < x => cur < x) /\ (cur < x => rest < x)
    <3> SUFFICES ASSUME NEW x \in Ring(S)
                 PROVE  x # rest /\ (x < rest => x <= cur) /\ (rest < x => cur < x) /\ (cur < x => rest < x)
      OBVIOUS
    <3>1. x \in Int /\ (cur < x => cur + n < x)
      BY <1>2, <1>3
    <3> QED
      BY <1>6, <2>2, <3>1
  <2>4. /\ r \in Slob /\ r.slobfree = prev
        /\ \A x \in Node : r.nxt[x] = IF x = rest THEN after ELSE IF x = prev THEN rest
                                      ELSE IF x = cur THEN ARENA ELSE s.nxt[x]
        /\ \A x \in Node : r.units[x] = IF x = rest THEN n - u ELSE IF x = cur THEN 0 ELSE s.units[x]
    <3>1. s.units[cur] # u /\ cur + u \in Node \ {cur, prev} /\ prev # cur
      BY <1>1, <1>2, <1>6, <1>12, <2>1, <2>2, <2>3
    <3> QED
      <4>1. s \in Slob /\ prev \in Node /\ cur \in Node /\ cur = s.nxt[prev]
        BY <1>1, <1>3, <1>6
      <4> QED
        BY <1>1, <2>1, <3>1, <4>1, TakeFields, SMTT(60)
  <2>5. \A x \in Ring(T) : x = rest \/ (x \in Ring(S) /\ x # cur /\ x # rest /\ x \in Node /\ x \in Int)
    BY <1>3, <1>6, <2>3 DEF Ring
  <2>6. rest \in Ring(T) /\ \A x \in Ring(S) : x # cur => x \in Ring(T)
    BY DEF Ring
  <2> HIDE DEF T
  <2>7. after \in Ring(T) /\ after \in Int /\ (after = ARENA \/ rest < after)
    BY <1>2, <1>3, <2>3, <2>6
  <2>8. ASSUME NEW x \in Ring(T) PROVE r.nxt[x] \in Ring(T) /\ (r.nxt[x] = ARENA \/ x < r.nxt[x])
    <3>1. CASE x = rest
      BY <2>2, <2>4, <2>7, <3>1
    <3>2. CASE x # rest
      <4>1. x \in Ring(S) /\ x # cur /\ x \in Node /\ x \in Int
        BY <2>5, <3>2
      <4>2. CASE x = prev
        BY <1>2, <1>6, <2>2, <2>4, <2>6, <3>2, <4>1, <4>2
      <4>3. CASE x # prev
        BY <1>2, <1>4, <2>4, <2>6, <3>2, <4>1, <4>3
      <4> QED
        BY <4>2, <4>3
    <3> QED
      BY <3>1, <3>2
  <2>9. ASSUME NEW x \in Ring(T), NEW y \in Ring(T), x < y PROVE x < r.nxt[x] /\ r.nxt[x] <= y
    <3>1. CASE x = rest
      <4>1. y \in Ring(S) /\ y # cur /\ y \in Int /\ cur < y
        BY <2>2, <2>3, <2>5, <2>9, <3>1
      <4> QED
        BY <1>2, <2>2, <2>3, <2>4, <2>7, <3>1, <4>1
    <3>2. CASE x # rest
      <4>1. x \in Ring(S) /\ x # cur /\ x \in Node /\ x \in Int
        BY <2>5, <3>2
      <4>2. CASE x = prev
        <5>1. r.nxt[x] = rest
          BY <2>4, <3>2, <4>1, <4>2
        <5>2. y = rest \/ rest < y
          <6>1. CASE y = rest
            BY <6>1
          <6>2. CASE y # rest
            <7>1. y \in Ring(S) /\ y # cur /\ y \in Int
              BY <2>5, <6>2
            <7>2. cur < y
              BY <1>2, <1>6, <2>9, <4>2, <7>1
            <7> QED
              BY <2>3, <7>1, <7>2
          <6> QED
            BY <6>1, <6>2
        <5>3. y \in Int
          BY <2>2, <2>5
        <5>4. rest \in Nat /\ cur < rest /\ prev < cur /\ x = prev /\ prev \in Int /\ cur \in Nat
          BY <1>2, <1>6, <2>2, <4>2
        <5> QED
          BY <5>1, <5>2, <5>3, <5>4
      <4>3. CASE x # prev
        <5>1. r.nxt[x] = s.nxt[x]
          BY <2>4, <3>2, <4>1, <4>3
        <5>2. CASE y # rest
          BY <1>4, <2>5, <2>9, <4>1, <5>1, <5>2
        <5>3. CASE y = rest
          <6>1. x < cur
            BY <1>6, <2>3, <2>9, <4>1, <5>3
          <6>2. x < s.nxt[x] /\ s.nxt[x] <= cur /\ s.nxt[x] \in Int
            BY <1>3, <1>4, <1>6, <4>1, <6>1
          <6> QED
            BY <1>6, <2>2, <5>1, <5>3, <6>2
        <5> QED
          BY <5>2, <5>3
      <4> QED
        BY <4>2, <4>3
    <3> QED
      BY <3>1, <3>2
  <2>10. SlobList(r, T)
    <3>1. prev \in Ring(T) /\ T \in SUBSET Addr
      <4>1. prev # cur /\ S \subseteq Addr
        BY <1>2, <1>3, <1>6
      <4> QED
        BY <1>2, <2>2, <2>6, <4>1 DEF T
    <3> QED
      BY <2>4, <2>8, <2>9, <3>1 DEF SlobList
  <2>11. \A p \in T : p = rest \/ (p \in S /\ p # cur /\ p # rest /\ r.units[p] = s.units[p])
    BY <1>3, <2>3, <2>4 DEF T
  <2>12. r.units[rest] = n - u /\ rest \in T /\ \A p \in S : p # cur => p \in T
    BY <2>2, <2>4 DEF T
  <2>13. \A p \in T : \A a \in Addr : p # rest => (InCell(r, p, a) <=> InCell(s, p, a))
    BY <2>11 DEF InCell
  <2>14. ASSUME NEW a \in Addr PROVE a \in H \ From(cur, u) <=> \E p \in T : InCell(r, p, a)
    <3>1. a \in Nat /\ (a \in From(cur, u) <=> cur <= a /\ a < rest)
      BY <1>3, <1>6, <2>1 DEF From
    <3>2. InCell(s, cur, a) <=> cur <= a /\ a < cur + n
      BY <1>1 DEF InCell
    <3>3. InCell(r, rest, a) <=> rest <= a /\ a < cur + n
      <4>1. rest + (n - u) = cur + n
        BY <1>6, <2>1
      <4> QED
        BY <2>12, <4>1 DEF InCell
    <3>4. (\E p \in T : InCell(r, p, a)) <=> InCell(r, rest, a) \/ \E p \in S : p # cur /\ InCell(s, p, a)
      BY <2>11, <2>12, <2>13, <2>3, <1>3
    <3>5. a \in H <=> \E p \in S : InCell(s, p, a)
      BY <1>5
    <3>6. (\E p \in S : InCell(s, p, a)) <=> InCell(s, cur, a) \/ \E p \in S : p # cur /\ InCell(s, p, a)
      BY <1>2
    <3>7. (\E p \in S : p # cur /\ InCell(s, p, a)) => ~(cur <= a /\ a < cur + n)
      BY <1>10
    <3> HIDE DEF T
    <3> QED
      BY <1>6, <2>2, <3>1, <3>2, <3>3, <3>4, <3>5, <3>6, <3>7
  <2>15. r.units[ARENA] = 1
    BY <1>3, <1>5, <1>6, <2>2, <2>4
  <2>16. \A p \in T : r.units[p] >= 1 /\ p + r.units[p] <= UNITS
    <3>1. rest + (n - u) = cur + n
      BY <1>6, <2>1
    <3> QED
      BY <1>5, <1>6, <2>2, <2>11, <2>12, <3>1
  <2>17. ASSUME NEW p \in T, NEW q \in T, p < q PROVE p + r.units[p] < q
    <3>1. CASE p = rest
      <4>1. rest + (n - u) = cur + n
        BY <1>6, <2>1
      <4>2. q \in S /\ q # cur /\ q \in Ring(S)
        BY <1>3, <2>2, <2>11, <2>17, <3>1
      <4>3. cur < q
        BY <2>3, <2>17, <3>1, <4>2
      <4> QED
        BY <1>2, <2>12, <3>1, <4>1, <4>2, <4>3
    <3>2. CASE p # rest /\ q = rest
      <4>1. p \in S /\ p # cur /\ p \in Ring(S) /\ p \in Nat /\ r.units[p] = s.units[p] /\ s.units[p] \in Nat
        BY <1>3, <2>11, <3>2
      <4>2. p < cur
        BY <1>6, <2>3, <2>17, <3>2, <4>1
      <4>3. p + s.units[p] < cur
        BY <1>2, <1>5, <4>1, <4>2
      <4> QED
        BY <1>6, <2>2, <3>2, <4>1, <4>3
    <3>3. CASE p # rest /\ q # rest
      BY <1>5, <2>11, <2>17, <3>3
    <3> QED
      BY <3>1, <3>2, <3>3
  <2>18. Cells(r, T, H \ From(cur, u))
    BY <1>5, <2>10, <2>14, <2>15, <2>16, <2>17 DEF Cells
  <2> QED
    BY <1>1, <1>6, <1>8, <1>9, <2>18
<1> QED
  BY <1>6, <1>8, <1>9, <1>11, <1>12

\* What slob_free writes: into the block below if b adjoins it, else into b and the link of
\* the block below; the header of a block above that b adjoins is no longer one.
LEMMA FreeFields ==
  ASSUME NEW s, s \in Slob, NEW b \in Node, NEW u \in Nat, NEW c \in Node, c = Before(s, b),
         NEW next \in Node, next = s.nxt[c], c # b, next # b,
         NEW up, up = (b + u = next), up => next # c,
         NEW size, size = IF up THEN u + s.units[next] ELSE u,
         NEW after, after = IF up THEN s.nxt[next] ELSE next
  PROVE  LET r == SlobFree(s, b, u) IN
         /\ r.slobfree = c
         /\ c + s.units[c] = b =>
              /\ r \in Slob
              /\ \A x \in Node : r.nxt[x] = IF x = c THEN after ELSE IF up /\ x = next THEN ARENA ELSE s.nxt[x]
              /\ \A x \in Node : r.units[x] = IF x = c THEN s.units[c] + size ELSE IF up /\ x = next THEN 0 ELSE s.units[x]
         /\ c + s.units[c] # b =>
              /\ r \in Slob
              /\ \A x \in Node : r.nxt[x] = IF x = b THEN after ELSE IF x = c THEN b
                                            ELSE IF up /\ x = next THEN ARENA ELSE s.nxt[x]
              /\ \A x \in Node : r.units[x] = IF x = b THEN size ELSE IF up /\ x = next THEN 0 ELSE s.units[x]
<1> DEFINE r == SlobFree(s, b, u)
           tidy == IF up THEN [s EXCEPT !.units[next] = 0, !.nxt[next] = ARENA] ELSE s
<1>1. s.nxt \in [Node -> Node] /\ s.units \in [Node -> Int] /\ ARENA \in Node
  BY Nodes DEF Slob, Node
<1>2. PICK nx, un : /\ nx = IF up THEN [s.nxt EXCEPT ![next] = ARENA] ELSE s.nxt
                    /\ un = IF up THEN [s.units EXCEPT ![next] = 0] ELSE s.units
  OBVIOUS
<1>3. nx \in [Node -> Node] /\ un \in [Node -> Int]
  BY <1>1, <1>2
<1>4. /\ \A x \in Node : nx[x] = IF up /\ x = next THEN ARENA ELSE s.nxt[x]
      /\ \A x \in Node : un[x] = IF up /\ x = next THEN 0 ELSE s.units[x]
  BY <1>1, <1>2
<1>5. PICK d, e, f : d = s.nxt /\ e = s.units /\ f = s.slobfree
  OBVIOUS
<1>6. s = [nxt |-> d, units |-> e, slobfree |-> f]
  <2>1. s = [nxt |-> s.nxt, units |-> s.units, slobfree |-> s.slobfree]
    BY DEF Slob
  <2> QED
    BY <1>5, <2>1
<1>7. tidy = [nxt |-> nx, units |-> un, slobfree |-> f]
  <2>1. CASE up
    <3>1. tidy = [s EXCEPT !.units = un, !.nxt = nx]
      BY <1>2, <2>1
    <3> HIDE DEF tidy
    <3> QED
      BY <1>6, <3>1
  <2>2. CASE ~up
    <3>1. tidy = s /\ nx = d /\ un = e
      BY <1>2, <1>5, <2>2
    <3> HIDE DEF tidy
    <3> QED
      BY <1>6, <3>1
  <2> QED
    BY <2>1, <2>2
<1>8. r = IF c + s.units[c] = b THEN [tidy EXCEPT !.units[c] = @ + size, !.nxt[c] = after, !.slobfree = c]
          ELSE [tidy EXCEPT !.units[b] = size, !.nxt[b] = after, !.nxt[c] = b, !.slobfree = c]
  BY ZenonT(60) DEF SlobFree
<1>9. size \in Int /\ after \in Node /\ s.units[c] \in Int
  BY <1>1
<1> HIDE DEF tidy, r
<1>10. ASSUME c + s.units[c] = b
       PROVE  /\ r \in Slob /\ r.slobfree = c
              /\ \A x \in Node : r.nxt[x] = IF x = c THEN after ELSE IF up /\ x = next THEN ARENA ELSE s.nxt[x]
              /\ \A x \in Node : r.units[x] = IF x = c THEN s.units[c] + size ELSE IF up /\ x = next THEN 0 ELSE s.units[x]
  <2>1. PICK n2, u2 : n2 = [nx EXCEPT ![c] = after] /\ u2 = [un EXCEPT ![c] = @ + size]
    OBVIOUS
  <2>2. r = [tidy EXCEPT !.units[c] = @ + size, !.nxt[c] = after, !.slobfree = c]
    BY <1>8, <1>10
  <2>3. r = [tidy EXCEPT !.units = u2, !.nxt = n2, !.slobfree = c]
    <3>1. tidy.units = un /\ tidy.nxt = nx
      BY <1>7
    <3> QED
      BY <2>1, <2>2, <3>1
  <2>4. r = [nxt |-> n2, units |-> u2, slobfree |-> c]
    BY <1>7, <2>3
  <2>5. un[c] = s.units[c]
    BY <1>4
  <2>6. n2 \in [Node -> Node] /\ u2 \in [Node -> Int]
    BY <1>3, <1>9, <2>1, <2>5
  <2>7. r \in Slob /\ r.slobfree = c /\ r.nxt = n2 /\ r.units = u2
    BY <2>4, <2>6 DEF Slob
  <2>8. \A x \in Node : n2[x] = IF x = c THEN after ELSE IF up /\ x = next THEN ARENA ELSE s.nxt[x]
    BY <1>3, <1>4, <2>1
  <2>9. \A x \in Node : u2[x] = IF x = c THEN s.units[c] + size ELSE IF up /\ x = next THEN 0 ELSE s.units[x]
    BY <1>3, <1>4, <2>1, <2>5
  <2> QED
    BY <2>7, <2>8, <2>9
<1>11. ASSUME c + s.units[c] # b
       PROVE  /\ r \in Slob /\ r.slobfree = c
              /\ \A x \in Node : r.nxt[x] = IF x = b THEN after ELSE IF x = c THEN b
                                            ELSE IF up /\ x = next THEN ARENA ELSE s.nxt[x]
              /\ \A x \in Node : r.units[x] = IF x = b THEN size ELSE IF up /\ x = next THEN 0 ELSE s.units[x]
  <2>1. PICK n2, u2 : n2 = [[nx EXCEPT ![b] = after] EXCEPT ![c] = b] /\ u2 = [un EXCEPT ![b] = size]
    OBVIOUS
  <2>2. r = [tidy EXCEPT !.units[b] = size, !.nxt[b] = after, !.nxt[c] = b, !.slobfree = c]
    BY <1>8, <1>11
  <2>3. r = [nxt |-> n2, units |-> u2, slobfree |-> c]
    BY <1>7, <2>1, <2>2
  <2>4. n2 \in [Node -> Node] /\ u2 \in [Node -> Int]
    BY <1>3, <1>9, <2>1
  <2>5. r \in Slob /\ r.slobfree = c /\ r.nxt = n2 /\ r.units = u2
    BY <2>3, <2>4 DEF Slob
  <2>6. \A x \in Node : n2[x] = IF x = b THEN after ELSE IF x = c THEN b
                                ELSE IF up /\ x = next THEN ARENA ELSE s.nxt[x]
    BY <1>3, <1>4, <2>1
  <2>7. \A x \in Node : u2[x] = IF x = b THEN size ELSE IF up /\ x = next THEN 0 ELSE s.units[x]
    BY <1>3, <1>4, <2>1
  <2> QED
    BY <2>5, <2>6, <2>7
<1> QED
  BY <1>10, <1>11 DEF r

\* What lies where a block goes: c below it and next above it in the list, top where it
\* ends with what it joins above.
LEMMA FreePlace ==
  ASSUME NEW s, NEW S, NEW H, Cells(s, S, H), NEW b \in Addr, NEW u \in Nat, u >= 1, b + u <= UNITS,
         From(b, u) \intersect H = {},
         NEW c, c = Before(s, b), NEW next, next = s.nxt[c], NEW up \in BOOLEAN, up <=> (b + u = next),
         NEW size, size = IF up THEN u + s.units[next] ELSE u,
         NEW after, after = IF up THEN s.nxt[next] ELSE next
  PROVE  /\ c \in Ring(S) /\ c < b /\ c \in Int /\ b \notin S /\ next \in Ring(S) /\ next # b /\ (up => next \in S /\ next # c)
         /\ \A p \in S : (p < b => p + s.units[p] <= b) /\ (b < p => b + u <= p)
         /\ size \in Nat /\ size >= 1 /\ b + size <= UNITS /\ u <= size
         /\ after \in Ring(S) /\ after \in Int /\ ~(up /\ after = next) /\ (after = ARENA \/ b + size < after)
         /\ \A x \in Ring(S) : x <= c \/ (up /\ x = next) \/ (after # ARENA /\ after <= x /\ b + size < x)
         /\ \A x \in Ring(S) : x # c => ~(up /\ s.nxt[x] = next)
         /\ \A a \in Nat : (b <= a /\ a < b + size) <=> (a \in From(b, u) \/ (up /\ InCell(s, next, a)))
<1>1. /\ SlobList(s, S) /\ S \subseteq Ring(S)
      /\ \A p \in S : p \in Nat /\ p \in Addr /\ p < UNITS /\ p # ARENA /\ s.units[p] \in Nat /\ p \in H
      /\ \A x \in Ring(S) : x \in Int /\ x < UNITS /\ (x = ARENA \/ (x \in Nat /\ x \in S))
      /\ ARENA \in Ring(S) /\ ARENA = -2 /\ b \in Nat /\ b # ARENA
  BY CellTypes
<1>2. /\ H \in SUBSET Addr
      /\ \A p \in S : s.units[p] >= 1 /\ p + s.units[p] <= UNITS
      /\ \A p, q \in S : p < q => p + s.units[p] < q
      /\ \A a \in Addr : a \in H <=> \E p \in S : InCell(s, p, a)
  BY DEF Cells
<1>3. /\ \A x \in Ring(S) : s.nxt[x] \in Ring(S) /\ (s.nxt[x] = ARENA \/ x < s.nxt[x])
      /\ \A x, y \in Ring(S) : x < y => x < s.nxt[x] /\ s.nxt[x] <= y
  BY <1>1 DEF SlobList
<1>4. UNITS \in Nat /\ \A a \in Nat : a < UNITS => a \in Addr
  BY UnitNumbers
<1>5. b \in From(b, u) /\ b \notin H /\ b \notin S
  <2>1. b \in From(b, u)
    BY <1>1 DEF From
  <2> QED
    BY <1>1, <2>1
<1>6. c \in Ring(S) /\ c < b /\ (next = ARENA \/ b < next) /\ c \in Int
  BY <1>1, <1>5, BeforeIs
<1>7. next \in Ring(S) /\ next \in Int /\ next # b
  <2>1. next \in Ring(S)
    BY <1>3, <1>6
  <2>2. next \in Int
    BY <1>1, <2>1
  <2>3. next # b
    BY <1>1, <1>6, <2>2
  <2> QED
    BY <2>1, <2>2, <2>3
<1>8. ASSUME NEW p \in S PROVE (p < b => p + s.units[p] <= b) /\ (b < p => b + u <= p)
  <2>1. p \in Nat /\ s.units[p] \in Nat /\ p \in H
    BY <1>1
  <2>2. ASSUME p < b, b < p + s.units[p] PROVE FALSE
    <3>1. InCell(s, p, b)
      BY <2>2, <2>1, <1>1 DEF InCell
    <3> QED
      BY <1>2, <1>5, <3>1
  <2>3. ASSUME b < p, p < b + u PROVE FALSE
    <3>1. p \in From(b, u)
      BY <1>1, <2>1, <2>3 DEF From
    <3> QED
      BY <2>1, <3>1
  <2> QED
    BY <1>1, <2>1, <2>2, <2>3
<1>9. up => next \in S /\ next # c /\ next = b + u
  <2>1. up => next # ARENA /\ next = b + u
    BY <1>1
  <2> QED
    BY <1>1, <1>6, <1>7, <2>1
<1>10. size \in Nat /\ size >= 1 /\ b + size <= UNITS /\ u <= size
  <2>1. CASE up
    <3>1. next \in S /\ next = b + u /\ s.units[next] \in Nat /\ s.units[next] >= 1 /\ next + s.units[next] <= UNITS
      BY <1>1, <1>2, <1>9, <2>1
    <3>2. size = u + s.units[next]
      BY <2>1
    <3> QED
      BY <1>1, <1>4, <3>1, <3>2
  <2>2. CASE ~up
    BY <1>1, <2>2
  <2> QED
    BY <2>1, <2>2
<1>11. ASSUME NEW x \in Ring(S) PROVE x <= c \/ (next # ARENA /\ next <= x /\ b < x)
  <2>1. x \in Int /\ (c < x => c < next /\ next <= x)
    BY <1>1, <1>3, <1>6
  <2>2. c < x => next # ARENA
    <3>1. c < next => next # ARENA
      BY <1>1, <1>6
    <3> QED
      BY <2>1, <3>1
  <2> QED
    BY <1>1, <1>6, <1>7, <2>1, <2>2
<1>12. /\ after \in Ring(S) /\ after \in Int /\ ~(up /\ after = next) /\ (after = ARENA \/ b + size < after)
       /\ \A x \in Ring(S) : x <= c \/ (up /\ x = next) \/ (after # ARENA /\ after <= x /\ b + size < x)
  <2>1. CASE up
    <3>1. next \in S /\ next = b + u /\ size = u + s.units[next] /\ after = s.nxt[next] /\ next # ARENA
      BY <1>1, <1>9, <2>1
    <3>2. after \in Ring(S) /\ (after = ARENA \/ next < after) /\ after \in Int
      BY <1>1, <1>3, <1>7, <3>1
    <3>3. b + size = next + s.units[next] /\ s.units[next] \in Nat
      BY <1>1, <3>1
    <3>4. ASSUME NEW x \in Ring(S), next < x PROVE after # ARENA /\ after <= x /\ b + size < x
      <4>1. x \in S
        BY <1>1, <1>7, <3>1, <3>4
      <4>2. next + s.units[next] < x
        BY <1>2, <3>1, <3>4, <4>1
      <4>3. next < s.nxt[next] /\ s.nxt[next] <= x
        BY <1>3, <1>7, <3>4
      <4> QED
        BY <1>1, <3>1, <3>3, <4>2, <4>3
    <3>5. after = ARENA \/ b + size < after
      BY <3>2, <3>4
    <3>6. after # next
      BY <1>7, <3>1, <3>2
    <3>7. \A x \in Ring(S) : x \in Int /\ (x <= c \/ x = next \/ next < x)
      BY <1>1, <1>7, <1>11
    <3> QED
      BY <2>1, <3>2, <3>4, <3>5, <3>6, <3>7
  <2>2. CASE ~up
    <3>1. size = u /\ after = next /\ b + u # next
      BY <2>2
    <3>2. \A x \in Ring(S) : x # ARENA /\ b < x => b + u <= x
      BY <1>1, <1>8
    <3>3. next = ARENA \/ b + u < next
      BY <1>1, <1>6, <1>7, <3>1, <3>2
    <3>4. ASSUME NEW x \in Ring(S) PROVE x <= c \/ (after # ARENA /\ after <= x /\ b + size < x)
      <4>1. x \in Int
        BY <1>1
      <4> QED
        BY <1>1, <1>7, <1>11, <3>1, <3>3, <4>1
    <3> QED
      BY <1>7, <2>2, <3>1, <3>3, <3>4
  <2> QED
    BY <2>1, <2>2
<1>13. ASSUME NEW x \in Ring(S), x # c, up, s.nxt[x] = next PROVE FALSE
  <2>1. x \in Int /\ next # ARENA /\ x < next /\ c < next
    BY <1>1, <1>3, <1>6, <1>9, <1>13
  <2>2. x < c
    BY <1>6, <1>7, <1>11, <1>13, <2>1
  <2>3. s.nxt[x] <= c
    BY <1>3, <1>6, <2>2
  <2> QED
    BY <1>6, <1>7, <1>13, <2>1, <2>3
<1>14. ASSUME NEW a \in Nat PROVE (b <= a /\ a < b + size) <=> (a \in From(b, u) \/ (up /\ InCell(s, next, a)))
  <2>1. a \in From(b, u) <=> b <= a /\ a < b + u
    BY <1>1 DEF From
  <2>2. CASE up
    <3>1. next \in S /\ next = b + u /\ size = u + s.units[next] /\ s.units[next] \in Nat
      BY <1>1, <1>9, <2>2
    <3>2. InCell(s, next, a) <=> b + u <= a /\ a < b + size
      BY <1>1, <3>1 DEF InCell
    <3> QED
      BY <1>1, <1>10, <2>1, <2>2, <3>1, <3>2
  <2>3. CASE ~up
    BY <2>1, <2>3
  <2> QED
    BY <2>2, <2>3
<1> QED
  BY <1>5, <1>6, <1>7, <1>8, <1>9, <1>10, <1>12, <1>13, <1>14

\* slob_free puts units that were in no free block into the free blocks, and together.
LEMMA FreeCells ==
  ASSUME NEW s, NEW S, NEW H, Cells(s, S, H), NEW b \in Addr, NEW u \in Nat, u >= 1, b + u <= UNITS,
         From(b, u) \intersect H = {}
  PROVE  \E T : /\ Cells(SlobFree(s, b, u), T, H \union From(b, u))
                /\ \E q \in T : SlobFree(s, b, u).units[q] >= u
<1>1. PICK c, next : c = Before(s, b) /\ next = s.nxt[c]
  OBVIOUS
<1>2. PICK up \in BOOLEAN : up <=> (b + u = next)
  OBVIOUS
<1>3. PICK size, after, r : /\ size = IF up THEN u + s.units[next] ELSE u
                            /\ after = IF up THEN s.nxt[next] ELSE next
                            /\ r = SlobFree(s, b, u)
  OBVIOUS
<1>4. /\ c \in Ring(S) /\ c < b /\ c \in Int /\ b \notin S /\ next \in Ring(S) /\ next # b /\ (up => next \in S /\ next # c)
      /\ \A p \in S : (p < b => p + s.units[p] <= b) /\ (b < p => b + u <= p)
      /\ size \in Nat /\ size >= 1 /\ b + size <= UNITS /\ u <= size
      /\ after \in Ring(S) /\ after \in Int /\ ~(up /\ after = next) /\ (after = ARENA \/ b + size < after)
      /\ \A x \in Ring(S) : x <= c \/ (up /\ x = next) \/ (after # ARENA /\ after <= x /\ b + size < x)
      /\ \A x \in Ring(S) : x # c => ~(up /\ s.nxt[x] = next)
      /\ \A a \in Nat : (b <= a /\ a < b + size) <=> (a \in From(b, u) \/ (up /\ InCell(s, next, a)))
  BY <1>1, <1>2, <1>3, FreePlace
<1>5. /\ s \in Slob /\ S \subseteq Ring(S) /\ s.units \in [Node -> Int]
      /\ \A p \in S : p \in Nat /\ p \in Addr /\ p \in Node /\ p # ARENA /\ s.units[p] \in Nat
      /\ \A x \in Ring(S) : x \in Int /\ x \in Node /\ (x = ARENA \/ (x \in Nat /\ x \in S))
      /\ ARENA \in Ring(S) /\ ARENA = -2 /\ b \in Nat /\ b # ARENA /\ b \in Node /\ ARENA \in Node
  <2>1. ARENA \in Node
    BY DEF Node
  <2> QED
    BY <2>1, CellTypes
<1>6. /\ H \in SUBSET Addr /\ s.units[ARENA] = 1
      /\ \A p \in S : s.units[p] >= 1 /\ p + s.units[p] <= UNITS
      /\ \A p, q \in S : p < q => p + s.units[p] < q
      /\ \A a \in Addr : a \in H <=> \E p \in S : InCell(s, p, a)
  BY DEF Cells
<1>7. /\ \A x \in Ring(S) : s.nxt[x] \in Ring(S) /\ (s.nxt[x] = ARENA \/ x < s.nxt[x])
      /\ \A x, y \in Ring(S) : x < y => x < s.nxt[x] /\ s.nxt[x] <= y
  BY DEF Cells, SlobList
<1>8. \A a \in From(b, u) : a \in Addr
  <2>1. ASSUME NEW a \in From(b, u) PROVE a \in Addr
    <3>1. a \in Nat /\ a < UNITS /\ UNITS \in Nat
      BY <1>5, UnitNumbers DEF From
    <3> QED
      BY <3>1, UnitNumbers
  <2> QED
    BY <2>1
<1>9. /\ r.slobfree = c
      /\ c + s.units[c] = b =>
           /\ r \in Slob
           /\ \A x \in Node : r.nxt[x] = IF x = c THEN after ELSE IF up /\ x = next THEN ARENA ELSE s.nxt[x]
           /\ \A x \in Node : r.units[x] = IF x = c THEN s.units[c] + size ELSE IF up /\ x = next THEN 0 ELSE s.units[x]
      /\ c + s.units[c] # b =>
           /\ r \in Slob
           /\ \A x \in Node : r.nxt[x] = IF x = b THEN after ELSE IF x = c THEN b
                                         ELSE IF up /\ x = next THEN ARENA ELSE s.nxt[x]
           /\ \A x \in Node : r.units[x] = IF x = b THEN size ELSE IF up /\ x = next THEN 0 ELSE s.units[x]
  <2>1. s \in Slob /\ b \in Node /\ c \in Node /\ next \in Node /\ c # b /\ next # b /\ (up => next # c)
    BY <1>4, <1>5
  <2>2. up = (b + u = next)
    BY <1>2
  <2> QED
    BY <1>1, <1>3, <2>1, <2>2, FreeFields
<1> DEFINE Out == {x \in Ring(S) : ~(up /\ x = next)}
<1>10. /\ c \in Out /\ after \in Out /\ ARENA \in Out /\ b \notin Out
       /\ \A x \in Out : x \in Ring(S) /\ x \in Node /\ x \in Int /\ (x <= c \/ (after # ARENA /\ after <= x /\ b + size < x))
  <2>1. up => next # ARENA /\ next # c
    BY <1>4, <1>5
  <2>2. b \notin Ring(S)
    BY <1>4, <1>5 DEF Ring
  <2> QED
    BY <1>4, <1>5, <2>1, <2>2
<1>11. ASSUME NEW x \in Out, x # c
       PROVE  /\ s.nxt[x] \in Out /\ (s.nxt[x] = ARENA \/ x < s.nxt[x])
              /\ \A y \in Out : x < y => x < s.nxt[x] /\ s.nxt[x] <= y
  BY <1>4, <1>7, <1>11
<1>12. ASSUME NEW a \in Addr
       PROVE  a \in H \union From(b, u) <=> (b <= a /\ a < b + size) \/ \E p \in S : p \in Out /\ InCell(s, p, a)
  <2>1. a \in Nat /\ (a \in H <=> \E p \in S : InCell(s, p, a))
    BY <1>6, CellTypes
  <2>2. (\E p \in S : InCell(s, p, a)) <=> (up /\ InCell(s, next, a)) \/ \E p \in S : p \in Out /\ InCell(s, p, a)
    BY <1>4, <1>5
  <2> QED
    BY <1>4, <2>1, <2>2
<1>13. H \union From(b, u) \in SUBSET Addr
  BY <1>6, <1>8
<1>14. c # ARENA => c \in S /\ c \in Nat /\ s.units[c] \in Nat /\ c + s.units[c] <= b
  BY <1>4, <1>5
<1> HIDE DEF Out
<1>15. CASE c + s.units[c] = b
  <2> DEFINE T == {p \in S : p \in Out}
  <2>1. /\ r \in Slob
        /\ \A x \in Node : r.nxt[x] = IF x = c THEN after ELSE IF up /\ x = next THEN ARENA ELSE s.nxt[x]
        /\ \A x \in Node : r.units[x] = IF x = c THEN s.units[c] + size ELSE IF up /\ x = next THEN 0 ELSE s.units[x]
    BY <1>9, <1>15
  <2>2. c # ARENA /\ c \in T /\ c + s.units[c] = b /\ c \in Nat /\ s.units[c] \in Nat
    BY <1>5, <1>6, <1>10, <1>14, <1>15
  <2>3. \A x : x \in Ring(T) <=> x \in Out
    BY <1>5, <1>10 DEF Ring, Out
  <2>4. /\ r.nxt[c] = after /\ r.units[c] = s.units[c] + size
        /\ \A x \in Out : x # c => r.nxt[x] = s.nxt[x] /\ r.units[x] = s.units[x]
    BY <1>10, <2>1 DEF Out
  <2>5. \A p \in T : p \in S /\ p \in Out
    OBVIOUS
  <2>6. \A p \in S : p \in Out => p \in T
    OBVIOUS
  <2>7. T \in SUBSET Addr
    BY <1>5
  <2> HIDE DEF T
  <2>8. ASSUME NEW x \in Ring(T) PROVE r.nxt[x] \in Ring(T) /\ (r.nxt[x] = ARENA \/ x < r.nxt[x])
    <3>1. x \in Out
      BY <2>3
    <3>2. CASE x = c
      <4>1. after = ARENA \/ c < after
        BY <1>4, <1>5
      <4> QED
        BY <1>10, <2>3, <2>4, <3>2, <4>1
    <3>3. CASE x # c
      BY <1>11, <2>3, <2>4, <3>1, <3>3
    <3> QED
      BY <3>2, <3>3
  <2>9. ASSUME NEW x \in Ring(T), NEW y \in Ring(T), x < y PROVE x < r.nxt[x] /\ r.nxt[x] <= y
    <3>1. x \in Out /\ y \in Out
      BY <2>3
    <3>2. CASE x = c
      <4>1. y \in Int /\ ~(y <= c)
        BY <1>4, <1>10, <2>9, <3>1, <3>2
      <4>2. after # ARENA /\ after <= y
        BY <1>10, <3>1, <4>1
      <4> QED
        BY <1>4, <1>5, <2>4, <3>2, <4>2
    <3>3. CASE x # c
      BY <1>11, <2>4, <2>9, <3>1, <3>3
    <3> QED
      BY <3>2, <3>3
  <2>10. SlobList(r, T)
    BY <1>9, <1>10, <2>1, <2>3, <2>7, <2>8, <2>9 DEF SlobList
  <2>11. r.units[ARENA] = 1
    BY <1>6, <1>10, <2>2, <2>4
  <2>12. ASSUME NEW p \in T PROVE r.units[p] >= 1 /\ p + r.units[p] <= UNITS
    <3>1. CASE p = c
      <4>1. s.units[c] + size >= 1 /\ c + (s.units[c] + size) = b + size
        BY <1>4, <2>2
      <4> QED
        BY <1>4, <2>4, <3>1, <4>1
    <3>2. CASE p # c
      BY <1>6, <2>4, <2>5, <3>2
    <3> QED
      BY <3>1, <3>2
  <2>13. ASSUME NEW p \in T, NEW q \in T, p < q PROVE p + r.units[p] < q
    <3>1. CASE p = c
      <4>1. c + (s.units[c] + size) = b + size
        BY <1>4, <2>2
      <4>2. b + size < q
        <5>1. q \in Int /\ ~(q <= c)
          BY <1>4, <1>10, <2>5, <2>13, <3>1
        <5> QED
          BY <1>10, <2>5, <5>1
      <4> QED
        BY <2>4, <3>1, <4>1, <4>2
    <3>2. CASE p # c
      BY <1>6, <2>4, <2>5, <2>13, <3>2
    <3> QED
      BY <3>1, <3>2
  <2>14. ASSUME NEW a \in Addr PROVE a \in H \union From(b, u) <=> \E p \in T : InCell(r, p, a)
    <3>1. a \in Nat
      BY CellTypes
    <3>2. InCell(r, c, a) <=> InCell(s, c, a) \/ (b <= a /\ a < b + size)
      <4>1. InCell(r, c, a) <=> c <= a /\ a < b + size
        <5>1. c + (s.units[c] + size) = b + size
          BY <1>4, <2>2
        <5> QED
          BY <2>4, <5>1 DEF InCell
      <4>2. InCell(s, c, a) <=> c <= a /\ a < b
        BY <2>2 DEF InCell
      <4> QED
        BY <1>4, <1>5, <3>1, <4>1, <4>2
    <3>3. \A p \in T : p # c => (InCell(r, p, a) <=> InCell(s, p, a))
      BY <2>4, <2>5 DEF InCell
    <3>4. (\E p \in T : InCell(r, p, a)) <=> (b <= a /\ a < b + size) \/ \E p \in S : p \in Out /\ InCell(s, p, a)
      <4>1. (\E p \in T : InCell(r, p, a)) <=> InCell(r, c, a) \/ \E p \in T : p # c /\ InCell(s, p, a)
        BY <2>2, <3>3
      <4>2. (\E p \in S : p \in Out /\ InCell(s, p, a)) <=> InCell(s, c, a) \/ \E p \in T : p # c /\ InCell(s, p, a)
        BY <2>2, <2>5, <2>6
      <4> QED
        BY <3>2, <4>1, <4>2
    <3> QED
      BY <1>12, <3>4
  <2>15. Cells(r, T, H \union From(b, u))
    BY <1>13, <2>10, <2>11, <2>12, <2>13, <2>14 DEF Cells
  <2>16. c \in T /\ r.units[c] >= u
    BY <1>4, <2>2, <2>4
  <2> QED
    BY <1>3, <2>15, <2>16
<1>16. CASE c + s.units[c] # b
  <2> DEFINE T == {p \in S : p \in Out} \union {b}
  <2>1. /\ r \in Slob
        /\ \A x \in Node : r.nxt[x] = IF x = b THEN after ELSE IF x = c THEN b
                                      ELSE IF up /\ x = next THEN ARENA ELSE s.nxt[x]
        /\ \A x \in Node : r.units[x] = IF x = b THEN size ELSE IF up /\ x = next THEN 0 ELSE s.units[x]
    BY <1>9, <1>16
  <2>2. \A x : x \in Ring(T) <=> x \in Out \/ x = b
    BY <1>5, <1>10 DEF Ring, Out
  <2>3. /\ r.nxt[b] = after /\ r.units[b] = size /\ r.nxt[c] = b
        /\ \A x \in Out : (x # c => r.nxt[x] = s.nxt[x]) /\ r.units[x] = s.units[x]
    BY <1>4, <1>5, <1>10, <2>1 DEF Out
  <2>4. \A p \in T : p = b \/ (p # b /\ p \in S /\ p \in Out)
    BY <1>4
  <2>5. b \in T /\ \A p \in S : p \in Out => p \in T
    OBVIOUS
  <2>6. T \in SUBSET Addr
    BY <1>5
  <2> HIDE DEF T
  <2>7. ASSUME NEW x \in Ring(T) PROVE r.nxt[x] \in Ring(T) /\ (r.nxt[x] = ARENA \/ x < r.nxt[x])
    <3>1. CASE x = b
      <4>1. after = ARENA \/ b < after
        BY <1>4, <1>5
      <4> QED
        BY <1>10, <2>2, <2>3, <3>1, <4>1
    <3>2. CASE x = c
      BY <1>4, <2>2, <2>3, <3>2
    <3>3. CASE x # b /\ x # c
      BY <1>11, <2>2, <2>3, <3>3
    <3> QED
      BY <3>1, <3>2, <3>3
  <2>8. ASSUME NEW x \in Ring(T), NEW y \in Ring(T), x < y PROVE x < r.nxt[x] /\ r.nxt[x] <= y
    <3>1. CASE x = b
      <4>1. y \in Out /\ y \in Int /\ ~(y <= c)
        <5>1. y \in Out /\ y \in Int
          BY <1>5, <1>10, <2>2, <2>8, <3>1
        <5> QED
          BY <1>4, <1>5, <2>8, <3>1, <5>1
      <4>2. after # ARENA /\ after <= y
        BY <1>10, <4>1
      <4> QED
        BY <1>4, <1>5, <2>3, <3>1, <4>2
    <3>2. CASE x # b /\ x = c
      <4>1. y = b \/ (y \in Out /\ y \in Int /\ b + size < y)
        <5>1. y # b => y \in Out /\ y \in Int /\ ~(y <= c)
          BY <1>4, <1>10, <2>2, <2>8, <3>2
        <5> QED
          BY <1>10, <5>1
      <4> QED
        BY <1>4, <1>5, <2>3, <3>2, <4>1
    <3>3. CASE x # b /\ x # c
      <4>1. x \in Out /\ x \in Int
        BY <1>10, <2>2, <3>3
      <4>2. CASE y # b
        BY <1>11, <2>2, <2>3, <2>8, <3>3, <4>1, <4>2
      <4>3. CASE y = b
        <5>1. x < c
          BY <1>4, <1>5, <1>10, <2>8, <3>3, <4>1, <4>3
        <5>2. x < s.nxt[x] /\ s.nxt[x] <= c /\ s.nxt[x] \in Int
          BY <1>10, <1>11, <3>3, <4>1, <5>1
        <5> QED
          BY <1>4, <1>5, <2>3, <3>3, <4>1, <4>3, <5>2
      <4> QED
        BY <4>2, <4>3
    <3> QED
      BY <3>1, <3>2, <3>3
  <2>9. SlobList(r, T)
    BY <1>9, <1>10, <2>1, <2>2, <2>6, <2>7, <2>8 DEF SlobList
  <2>10. r.units[ARENA] = 1
    BY <1>6, <1>10, <2>3
  <2>11. ASSUME NEW p \in T PROVE r.units[p] >= 1 /\ p + r.units[p] <= UNITS
    BY <1>4, <1>6, <2>3, <2>4
  <2>12. ASSUME NEW p \in T, NEW q \in T, p < q PROVE p + r.units[p] < q
    <3>1. CASE p = b
      <4>1. q # b /\ q \in Out /\ q \in Int
        BY <1>5, <1>10, <2>4, <2>12, <3>1
      <4>2. ~(q <= c)
        BY <1>4, <1>5, <2>12, <3>1, <4>1
      <4>3. b + size < q
        BY <1>10, <4>1, <4>2
      <4> QED
        BY <2>3, <3>1, <4>3
    <3>2. CASE p # b /\ q = b
      <4>1. p \in S /\ p \in Out /\ p \in Nat /\ s.units[p] \in Nat /\ r.units[p] = s.units[p] /\ p + s.units[p] <= b
        BY <1>4, <1>5, <2>3, <2>4, <2>12, <3>2
      <4>2. CASE p = c
        BY <1>5, <1>16, <3>2, <4>1, <4>2
      <4>3. CASE p # c
        <5>1. p < c
          BY <1>4, <1>5, <1>10, <2>12, <3>2, <4>1, <4>3
        <5>2. c \in S
          BY <1>4, <1>5, <4>1, <5>1
        <5>3. p + s.units[p] < c
          BY <1>6, <4>1, <5>1, <5>2
        <5> QED
          BY <1>4, <1>5, <3>2, <4>1, <5>3
      <4> QED
        BY <4>2, <4>3
    <3>3. CASE p # b /\ q # b
      BY <1>6, <2>3, <2>4, <2>12, <3>3
    <3> QED
      BY <3>1, <3>2, <3>3
  <2>13. ASSUME NEW a \in Addr PROVE a \in H \union From(b, u) <=> \E p \in T : InCell(r, p, a)
    <3>1. InCell(r, b, a) <=> b <= a /\ a < b + size
      BY <2>3 DEF InCell
    <3>2. \A p \in T : p # b => (InCell(r, p, a) <=> InCell(s, p, a))
      BY <2>3, <2>4 DEF InCell
    <3>3. (\E p \in T : InCell(r, p, a)) <=> (b <= a /\ a < b + size) \/ \E p \in S : p \in Out /\ InCell(s, p, a)
      BY <1>4, <2>4, <2>5, <3>1, <3>2
    <3> QED
      BY <1>12, <3>3
  <2>14. Cells(r, T, H \union From(b, u))
    BY <1>13, <2>9, <2>10, <2>11, <2>12, <2>13 DEF Cells
  <2>15. b \in T /\ r.units[b] >= u
    BY <1>4, <2>3, <2>5
  <2> QED
    BY <1>3, <2>14, <2>15
<1> QED
  BY <1>15, <1>16

(***************************************************************************)
(* The heap: pages and units together                                      *)
(***************************************************************************)
\* The heaps a request passes through.
Heaps == [pmm : Pmm, slob : Slob, held : [User -> Block], at : Node, ok : BOOLEAN]

\* kmalloc holds a block of pages under its first page.
HeldAt(hd) == \A p \in Page : hd[p] = NoBlock \/ hd[p].base = p

\* What __slob_get_free_pages makes of a heap when the block begins with page p.
GivesPages(h, g, n, p) ==
  /\ h.held[p] = NoBlock /\ g.held = Given(h.held, p, p, n) /\ g.slob = h.slob /\ g.at = PageAt(p)
  /\ g \in Heaps /\ PagesOK(g.pmm, g.held) /\ HeldAt(g.held)

\* __slob_get_free_pages gives a block of pages that nobody held.
LEMMA GetPagesIs ==
  ASSUME NEW h, h \in Heaps, PagesOK(h.pmm, h.held), HeldAt(h.held), NEW n \in Nat, n >= 1,
         NEW g, g = GetPages(h, n), g.ok = TRUE, h.ok = TRUE
  PROVE  \E p \in Page : GivesPages(h, g, n, p)
<1>1. PICK m, sl, hd : m = h.pmm /\ sl = h.slob /\ hd = h.held
  OBVIOUS
<1>2. h = [pmm |-> m, slob |-> sl, held |-> hd, at |-> h.at, ok |-> TRUE] /\ m \in Pmm /\ sl \in Slob /\ hd \in [User -> Block]
  BY <1>1 DEF Heaps
<1>3. PICK l : l = h.at
  OBVIOUS
<1>4. h = [pmm |-> m, slob |-> sl, held |-> hd, at |-> l, ok |-> TRUE]
  BY <1>2, <1>3
<1>5. ~(n > m.nr_free \/ Chosen(m, n) = {})
  <2> SUFFICES ASSUME n > m.nr_free \/ Chosen(m, n) = {} PROVE FALSE
    OBVIOUS
  <2>1. g = [h EXCEPT !.ok = FALSE]
    BY <1>1 DEF GetPages, Failed
  <2>2. g.ok = FALSE
    BY <1>4, <2>1
  <2> QED
    BY <2>2
<1>6. PICK page : page = CHOOSE first \in Chosen(m, n) : TRUE
  OBVIOUS
<1>7. page \in Chosen(m, n)
  BY <1>5, <1>6
<1>8. PICK m2, hd2 : m2 = AllocPages(m, page, n) /\ hd2 = Given(hd, page, page, n)
  OBVIOUS
<1>9. g = [h EXCEPT !.pmm = m2, !.at = PageAt(page), !.held = hd2]
  BY <1>1, <1>5, <1>6, <1>8 DEF GetPages, Given
<1>10. g = [pmm |-> m2, slob |-> sl, held |-> hd2, at |-> PageAt(page), ok |-> TRUE]
  BY <1>4, <1>9
<1>11. PagesOK(m, hd) /\ HeldAt(hd) /\ Blocks(m, Own(hd)) /\ HeldOK(hd)
  BY <1>1 DEF PagesOK
<1>12. page \in m.flagged /\ n <= m.property[page]
  BY <1>7, <1>11, ChosenFits
<1>13. page \in Page /\ page \notin Own(hd) /\ page \in User
  <2>1. page \in Page /\ page \in Nat /\ m.property[page] \in Nat /\ m.property[page] >= 1
    BY <1>11, <1>12, BlockTypes
  <2>2. Within(m, page, page)
    BY <2>1 DEF Within
  <2> QED
    BY <1>11, <1>12, <2>1, <2>2, KmallocAssumption DEF Blocks
<1>14. hd[page] = NoBlock
  <2>1. hd[page] # NoBlock => hd[page].base = page /\ hd[page].base \in Extent(hd[page])
    BY <1>11, <1>13, ExtentIs DEF HeldAt
  <2> QED
    BY <1>13, <2>1 DEF Own
<1>15. PagesOK(m2, hd2)
  BY <1>8, <1>11, <1>12, <1>13, <1>14, AllocKeeps
<1>16. HeldAt(hd2)
  BY <1>2, <1>8, <1>11, <1>13 DEF HeldAt, Given
<1>17. g \in Heaps
  <2>1. m2 \in Pmm /\ hd2 \in [User -> Block]
    BY <1>15 DEF PagesOK, Blocks, Lists, HeldOK
  <2>2. PageAt(page) \in Node
    BY <1>13, PageUnits DEF Node
  <2> QED
    BY <1>2, <1>10, <2>1, <2>2 DEF Heaps
<1>18. g.pmm = m2 /\ g.held = hd2 /\ g.slob = sl /\ g.at = PageAt(page)
  BY <1>10
<1> QED
  BY <1>1, <1>8, <1>13, <1>14, <1>15, <1>16, <1>17, <1>18 DEF GivesPages

\* What slob_alloc makes of a heap whose free units are H.
Serves(h, g, u, H) ==
  /\ g \in Heaps /\ g.pmm = h.pmm /\ g.held = h.held /\ g.ok = h.ok
  /\ g.at \in Addr /\ g.at + u <= UNITS /\ From(g.at, u) \subseteq H
  /\ \E T : Cells(g.slob, T, H \ From(g.at, u))

\* slob_alloc takes a block where there is room.
LEMMA ServedIs ==
  ASSUME NEW h, h \in Heaps, NEW S, NEW H, Cells(h.slob, S, H), NEW u \in Nat, u >= 2, SlobFits(h.slob, u) # {},
         NEW g, g = Served(h, u)
  PROVE  Serves(h, g, u, H)
<1>1. PICK m, sl, hd, l, o : m = h.pmm /\ sl = h.slob /\ hd = h.held /\ l = h.at /\ o = h.ok
  OBVIOUS
<1>2. /\ h = [pmm |-> h.pmm, slob |-> h.slob, held |-> h.held, at |-> h.at, ok |-> h.ok]
      /\ m \in Pmm /\ sl \in Slob /\ hd \in [User -> Block] /\ o \in BOOLEAN
  BY <1>1 DEF Heaps
<1>3. h = [pmm |-> m, slob |-> sl, held |-> hd, at |-> l, ok |-> o]
  BY <1>1, <1>2
<1>4. PICK k : k = CHOOSE j \in SlobFits(sl, u) : TRUE
  OBVIOUS
<1>5. k \in SlobFits(sl, u)
  BY <1>1, <1>4
<1>6. PICK cur, sl2 : cur = sl.nxt[Round(sl, sl.slobfree)[k - 1]] /\ sl2 = SlobTake(sl, u, k)
  OBVIOUS
<1>7. g = [h EXCEPT !.slob = sl2, !.at = cur]
  BY <1>1, <1>4, <1>6 DEF Served
<1>8. g = [pmm |-> m, slob |-> sl2, held |-> hd, at |-> cur, ok |-> o]
  BY <1>3, <1>7
<1>9. cur \in Addr /\ cur + u <= UNITS /\ From(cur, u) \subseteq H /\ \E T : Cells(sl2, T, H \ From(cur, u))
  BY <1>1, <1>5, <1>6, TakeCells
<1>10. g \in Heaps
  <2>1. cur \in Node
    BY <1>9 DEF Node
  <2>2. sl2 \in Slob
    BY <1>9 DEF Cells, SlobList
  <2> QED
    BY <1>2, <1>8, <2>1, <2>2 DEF Heaps
<1>11. g.pmm = m /\ g.held = hd /\ g.ok = o /\ g.at = cur /\ g.slob = sl2
  BY <1>8
<1> QED
  BY <1>1, <1>9, <1>10, <1>11 DEF Serves

\* The pages SLOB took for its list, and their units.
SlobPages(hd, bg) == {p \in Page : hd[p] # NoBlock /\ \A b \in bg : b.pages # PageAt(p)}
SlobUnits(hd, bg) == {a \in Addr : \E p \in SlobPages(hd, bg) : a \div UnitsPerPage \in Extent(hd[p])}

\* Each big block is a block of pages, and no two are the same one.
BigOK(hd, bg) ==
  /\ \A b \in bg : \E p \in Page : b.pages = PageAt(p) /\ hd[p] # NoBlock /\ hd[p].n = b.n
  /\ \A b, d \in bg : b.pages = d.pages => b = d

\* Two pages do not begin at the same unit.
LEMMA PagesDiffer == ASSUME NEW p \in Page, NEW q \in Page, PageAt(p) = PageAt(q) PROVE p = q
<1>1. p \in Nat /\ q \in Nat /\ 1 \in Nat
  BY Numbers
<1>2. PageAt(p) \div UnitsPerPage = p /\ PageAt(q) \div UnitsPerPage = q
  <2>1. PageAt(p) \in Nat /\ PageAt(q) \in Nat
    BY <1>1, UnitNumbers DEF PageAt
  <2>2. PageAt(p) \div UnitsPerPage = p
    BY <1>1, <2>1, UnitIn
  <2>3. PageAt(q) \div UnitsPerPage = q
    BY <1>1, <2>1, UnitIn
  <2> QED
    BY <2>2, <2>3
<1> QED
  BY <1>2

\* Only what is held under the pages counts.
LEMMA SameUnits ==
  ASSUME NEW hd, NEW new, NEW bg, \A p \in Page : new[p] = hd[p], BigOK(hd, bg), HeldAt(hd)
  PROVE  SlobUnits(new, bg) = SlobUnits(hd, bg) /\ BigOK(new, bg) /\ HeldAt(new)
<1>1. SlobPages(new, bg) = SlobPages(hd, bg)
  BY DEF SlobPages
<1>2. \A p \in SlobPages(hd, bg) : new[p] = hd[p]
  BY DEF SlobPages
<1>3. SlobUnits(new, bg) = SlobUnits(hd, bg)
  BY <1>1, <1>2 DEF SlobUnits
<1>4. BigOK(new, bg)
  BY DEF BigOK
<1> QED
  BY <1>3, <1>4 DEF HeldAt

\* A page more for the list of SLOB.
LEMMA SlobGrown ==
  ASSUME NEW hd, HeldOK(hd), NEW bg, BigOK(hd, bg), NEW p \in Page, hd[p] = NoBlock,
         NEW new, new = Given(hd, p, p, 1), HeldOK(new)
  PROVE  /\ SlobUnits(new, bg) = SlobUnits(hd, bg) \union From(PageAt(p), UnitsPerPage)
         /\ SlobUnits(hd, bg) \intersect From(PageAt(p), UnitsPerPage) = {}
         /\ BigOK(new, bg)
<1>1. Page \subseteq User /\ p \in Nat
  BY KmallocAssumption, Numbers
<1>2. new[p] = [base |-> p, n |-> 1] /\ \A q \in User : q # p => new[q] = hd[q]
  BY <1>1 DEF Given, HeldOK
<1>3. new[p] # NoBlock /\ Extent(new[p]) = {p}
  <2>1. new[p].n = 1 /\ new[p].base = p
    BY <1>2
  <2>2. Extent(new[p]) = p .. p + 1 - 1
    BY <2>1 DEF Extent
  <2>3. p .. p + 1 - 1 = {p}
    BY <1>1
  <2> QED
    BY <2>1, <2>2, <2>3, NoBlockIs
<1>4. \A b \in bg : b.pages # PageAt(p)
  BY PagesDiffer DEF BigOK
<1>5. \A q \in Page : q \in SlobPages(new, bg) <=> q = p \/ q \in SlobPages(hd, bg)
  BY <1>1, <1>2, <1>3, <1>4 DEF SlobPages
<1>6. p \notin SlobPages(hd, bg)
  BY DEF SlobPages
<1>7. \A q \in SlobPages(hd, bg) : q \in Page /\ q # p /\ new[q] = hd[q]
  BY <1>1, <1>2, <1>6 DEF SlobPages
<1>8. /\ From(PageAt(p), UnitsPerPage) \subseteq Addr
      /\ \A a \in Addr : a \in From(PageAt(p), UnitsPerPage) <=> a \div UnitsPerPage = p
  <2>1. /\ PageAt(p) \in Addr /\ PageAt(p) + UnitsPerPage <= UNITS
        /\ \A a \in Addr : a \in From(PageAt(p), UnitsPerPage) <=> a \div UnitsPerPage = p
    BY PageUnits
  <2>2. \A a \in From(PageAt(p), UnitsPerPage) : a \in Nat /\ a < UNITS
    BY <2>1, UnitNumbers DEF From
  <2> QED
    BY <2>1, <2>2, UnitNumbers
<1>9. ASSUME NEW a \in Addr PROVE a \in SlobUnits(new, bg) <=> a \in SlobUnits(hd, bg) \/ a \in From(PageAt(p), UnitsPerPage)
  <2>1. a \in SlobUnits(new, bg) <=> \E q \in SlobPages(new, bg) : a \div UnitsPerPage \in Extent(new[q])
    BY DEF SlobUnits
  <2>2. a \in SlobUnits(hd, bg) <=> \E q \in SlobPages(hd, bg) : a \div UnitsPerPage \in Extent(new[q])
    BY <1>7 DEF SlobUnits
  <2>3. \A q : q \in SlobPages(new, bg) <=> q = p \/ q \in SlobPages(hd, bg)
    BY <1>5 DEF SlobPages
  <2>4. a \in From(PageAt(p), UnitsPerPage) <=> a \div UnitsPerPage \in Extent(new[p])
    BY <1>3, <1>8
  <2> QED
    BY <2>1, <2>2, <2>3, <2>4
<1>10. SlobUnits(new, bg) = SlobUnits(hd, bg) \union From(PageAt(p), UnitsPerPage)
  BY <1>8, <1>9 DEF SlobUnits
<1>11. ASSUME NEW a \in SlobUnits(hd, bg), a \in From(PageAt(p), UnitsPerPage) PROVE FALSE
  <2>1. PICK q \in SlobPages(hd, bg) : a \div UnitsPerPage \in Extent(hd[q])
    BY DEF SlobUnits
  <2>2. q \in User /\ p \in User /\ q # p /\ new[q] = hd[q]
    BY <1>1, <1>7
  <2>3. Extent(new[q]) \intersect Extent(new[p]) = {}
    BY <2>2, ExtentIs
  <2>4. a \div UnitsPerPage = p
    BY <1>8, <1>11 DEF SlobUnits
  <2> QED
    BY <1>3, <2>1, <2>2, <2>3, <2>4
<1>12. BigOK(new, bg)
  <2>1. \A b \in bg : \E q \in Page : b.pages = PageAt(q) /\ new[q] # NoBlock /\ new[q].n = b.n
    BY <1>1, <1>2, <1>4 DEF BigOK
  <2> QED
    BY <2>1 DEF BigOK
<1> QED
  BY <1>10, <1>11, <1>12

\* A big block more.
LEMMA BigGrown ==
  ASSUME NEW hd, HeldOK(hd), NEW bg, BigOK(hd, bg), NEW p \in Page, hd[p] = NoBlock, NEW n \in Nat, n >= 1,
         NEW new, new = Given(hd, p, p, n), NEW b, b.pages = PageAt(p), b.n = n
  PROVE  SlobUnits(new, bg \union {b}) = SlobUnits(hd, bg) /\ BigOK(new, bg \union {b}) /\ \A d \in bg : d.pages # b.pages
<1>1. Page \subseteq User /\ p \in Nat
  BY KmallocAssumption, Numbers
<1>2. new[p] = [base |-> p, n |-> n] /\ \A q \in User : q # p => new[q] = hd[q]
  BY <1>1 DEF Given, HeldOK
<1>3. new[p] # NoBlock /\ new[p].n = n
  <2>1. new[p].n = n
    BY <1>2
  <2> QED
    BY <2>1, NoBlockIs
<1>4. \A d \in bg : d.pages # PageAt(p)
  BY PagesDiffer DEF BigOK
<1>5. SlobPages(new, bg \union {b}) = SlobPages(hd, bg)
  <2>1. ASSUME NEW q \in Page PROVE q \in SlobPages(new, bg \union {b}) <=> q \in SlobPages(hd, bg)
    <3>1. CASE q = p
      BY <3>1 DEF SlobPages
    <3>2. CASE q # p
      <4>1. PageAt(q) # PageAt(p) /\ new[q] = hd[q]
        BY <1>1, <1>2, <3>2, PagesDiffer
      <4> QED
        BY <4>1 DEF SlobPages
    <3> QED
      BY <3>1, <3>2
  <2> QED
    BY <2>1 DEF SlobPages
<1>6. \A q \in SlobPages(hd, bg) : new[q] = hd[q]
  BY <1>1, <1>2 DEF SlobPages
<1>7. SlobUnits(new, bg \union {b}) = SlobUnits(hd, bg)
  BY <1>5, <1>6 DEF SlobUnits
<1>8. ASSUME NEW d \in bg \union {b} PROVE \E q \in Page : d.pages = PageAt(q) /\ new[q] # NoBlock /\ new[q].n = d.n
  <2>1. CASE d \in bg
    BY <1>1, <1>2, <1>4, <2>1, ZenonT(60) DEF BigOK
  <2>2. CASE d = b
    BY <1>3, <2>2
  <2> QED
    BY <2>1, <2>2
<1>9. \A d, e \in bg \union {b} : d.pages = e.pages => d = e
  BY <1>4 DEF BigOK
<1> QED
  BY <1>4, <1>7, <1>8, <1>9 DEF BigOK

\* A big block less.
LEMMA BigShrunk ==
  ASSUME NEW hd, HeldOK(hd), NEW bg, BigOK(hd, bg), NEW b \in bg, NEW p \in Page, b.pages = PageAt(p),
         NEW new, new = [hd EXCEPT ![p] = NoBlock]
  PROVE  SlobUnits(new, bg \ {b}) = SlobUnits(hd, bg) /\ BigOK(new, bg \ {b})
<1>1. Page \subseteq User
  BY KmallocAssumption
<1>2. new[p] = NoBlock /\ \A q \in User : q # p => new[q] = hd[q]
  BY <1>1 DEF HeldOK
<1>3. \A q \in Page : q # p => PageAt(q) # PageAt(p)
  BY PagesDiffer
<1>4. SlobPages(new, bg \ {b}) = SlobPages(hd, bg)
  <2>1. ASSUME NEW q \in Page PROVE q \in SlobPages(new, bg \ {b}) <=> q \in SlobPages(hd, bg)
    <3>1. CASE q = p
      BY <1>2, <3>1 DEF SlobPages
    <3>2. CASE q # p
      <4>1. PageAt(q) # b.pages /\ new[q] = hd[q]
        BY <1>1, <1>2, <1>3, <3>2
      <4> QED
        BY <4>1 DEF SlobPages
    <3> QED
      BY <3>1, <3>2
  <2> QED
    BY <2>1 DEF SlobPages
<1>5. \A q \in SlobPages(hd, bg) : new[q] = hd[q]
  BY <1>1, <1>2 DEF SlobPages
<1>6. SlobUnits(new, bg \ {b}) = SlobUnits(hd, bg)
  BY <1>4, <1>5 DEF SlobUnits
<1>7. ASSUME NEW d \in bg \ {b} PROVE \E q \in Page : d.pages = PageAt(q) /\ new[q] # NoBlock /\ new[q].n = d.n
  <2>1. PICK q \in Page : d.pages = PageAt(q) /\ hd[q] # NoBlock /\ hd[q].n = d.n
    BY DEF BigOK
  <2>2. d.pages # b.pages
    BY DEF BigOK
  <2>3. q # p /\ new[q] = hd[q]
    BY <1>1, <1>2, <2>1, <2>2
  <2> QED
    BY <2>1, <2>3
<1>8. \A d, e \in bg \ {b} : d.pages = e.pages => d = e
  BY DEF BigOK
<1> QED
  BY <1>6, <1>7, <1>8 DEF BigOK

\* The pages and the units of a heap are right when the units of X are in use.
GoodHeap(h, bg, X) ==
  /\ h \in Heaps /\ PagesOK(h.pmm, h.held) /\ HeldAt(h.held) /\ BigOK(h.held, bg)
  /\ X \in SUBSET SlobUnits(h.held, bg)
  /\ \E S : Cells(h.slob, S, SlobUnits(h.held, bg) \ X)

\* Nobody loses pages.
KeepsHeld(hd, new) == \A v \in User : hd[v] # NoBlock => new[v] = hd[v]

\* __slob_get_free_pages says whether it has pages.
LEMMA GetPagesSays == ASSUME NEW h, h \in Heaps, NEW n PROVE GetPages(h, n).ok \in BOOLEAN
<1>1. PICK m, sl, hd, l, o : m = h.pmm /\ sl = h.slob /\ hd = h.held /\ l = h.at /\ o = h.ok
  OBVIOUS
<1>2. /\ h = [pmm |-> h.pmm, slob |-> h.slob, held |-> h.held, at |-> h.at, ok |-> h.ok]
      /\ o \in BOOLEAN
  BY <1>1 DEF Heaps
<1>3. h = [pmm |-> m, slob |-> sl, held |-> hd, at |-> l, ok |-> o]
  BY <1>1, <1>2
<1>4. PICK page : page = CHOOSE first \in Chosen(h.pmm, n) : TRUE
  OBVIOUS
<1>5. PICK m2, hd2 : m2 = AllocPages(h.pmm, page, n) /\ hd2 = [h.held EXCEPT ![page] = [base |-> page, n |-> n]]
  OBVIOUS
<1>6. GetPages(h, n) = [h EXCEPT !.ok = FALSE] \/ GetPages(h, n) = [h EXCEPT !.pmm = m2, !.at = PageAt(page), !.held = hd2]
  BY <1>4, <1>5 DEF GetPages, Failed
<1>7. [h EXCEPT !.ok = FALSE].ok = FALSE /\ [h EXCEPT !.pmm = m2, !.at = PageAt(page), !.held = hd2].ok = o
  BY <1>3
<1> QED
  BY <1>2, <1>6, <1>7

\* What is given to a user that held nothing takes nothing from the others.
LEMMA GivenKeeps ==
  ASSUME NEW hd, NEW u \in User, hd[u] = NoBlock, NEW p, NEW n
  PROVE  KeepsHeld(hd, Given(hd, u, p, n))
BY DEF KeepsHeld, Given

\* slob_alloc gives units that were free, of the list or of a page more, and keeps the
\* heap right when they are in use.
LEMMA SlobAllocKeeps ==
  ASSUME NEW h, NEW bg, NEW X, GoodHeap(h, bg, X), h.ok = TRUE, NEW size, NEW u \in Nat, u = SLOB_UNITS(size),
         u >= 2, u <= UnitsPerPage, NEW g, g = SlobAlloc(h, size), g.ok = TRUE
  PROVE  /\ GoodHeap(g, bg, X \union From(g.at, u)) /\ From(g.at, u) \intersect X = {}
         /\ g.at \in Addr /\ g.at + u <= UNITS /\ KeepsHeld(h.held, g.held)
         /\ From(g.at, u) \subseteq SlobUnits(g.held, bg) /\ SlobUnits(h.held, bg) \subseteq SlobUnits(g.held, bg)
<1>1. PICK more : more = GetPages(h, 1)
  OBVIOUS
<1>2. more.ok \in BOOLEAN
  BY <1>1, GetPagesSays DEF GoodHeap
<1>3. PICK U0, S : U0 = SlobUnits(h.held, bg) /\ Cells(h.slob, S, U0 \ X)
  BY DEF GoodHeap
<1>4. /\ h \in Heaps /\ PagesOK(h.pmm, h.held) /\ HeldAt(h.held) /\ BigOK(h.held, bg) /\ X \subseteq U0
      /\ U0 \subseteq Addr
  BY <1>3 DEF GoodHeap, SlobUnits
<1>5. CASE SlobFits(h.slob, u) # {}
  <2>1. g = Served(h, u)
    BY <1>5 DEF SlobAlloc
  <2>2. /\ g \in Heaps /\ g.pmm = h.pmm /\ g.held = h.held
        /\ g.at \in Addr /\ g.at + u <= UNITS /\ From(g.at, u) \subseteq U0 \ X
        /\ \E T : Cells(g.slob, T, (U0 \ X) \ From(g.at, u))
    <3>1. PICK K : K = U0 \ X
      OBVIOUS
    <3>2. h \in Heaps /\ Cells(h.slob, S, K) /\ SlobFits(h.slob, u) # {}
      BY <1>3, <1>4, <1>5, <3>1
    <3>3. /\ g \in Heaps /\ g.pmm = h.pmm /\ g.held = h.held
          /\ g.at \in Addr /\ g.at + u <= UNITS /\ From(g.at, u) \subseteq K
          /\ \E T : Cells(g.slob, T, K \ From(g.at, u))
      <4>1. Serves(h, g, u, K)
        BY <2>1, <3>2, ServedIs
      <4> QED
        BY <4>1 DEF Serves
    <3> QED
      BY <3>1, <3>3
  <2>3. (U0 \ X) \ From(g.at, u) = U0 \ (X \union From(g.at, u))
    OBVIOUS
  <2>4. GoodHeap(g, bg, X \union From(g.at, u))
    BY <1>3, <1>4, <2>2, <2>3 DEF GoodHeap
  <2> QED
    BY <1>3, <2>2, <2>4 DEF KeepsHeld
<1>6. CASE SlobFits(h.slob, u) = {} /\ more.ok = FALSE
  <2>1. g = more
    BY <1>1, <1>6 DEF SlobAlloc
  <2> QED
    BY <1>6, <2>1
<1>7. CASE SlobFits(h.slob, u) = {} /\ more.ok = TRUE
  <2>1. PICK h2 : h2 = [more EXCEPT !.slob = SlobFree(@, more.at, UnitsPerPage)]
    OBVIOUS
  <2>2. g = Served(h2, u)
    BY <1>1, <1>7, <2>1 DEF SlobAlloc
  <2>3. PICK p \in Page :
           /\ h.held[p] = NoBlock /\ more.held = Given(h.held, p, p, 1) /\ more.slob = h.slob /\ more.at = PageAt(p)
           /\ more \in Heaps /\ PagesOK(more.pmm, more.held) /\ HeldAt(more.held)
    <3>1. h \in Heaps /\ PagesOK(h.pmm, h.held) /\ HeldAt(h.held) /\ 1 \in Nat /\ 1 >= 1 /\ more.ok = TRUE
      BY <1>4, <1>7
    <3>2. \E p \in Page : GivesPages(h, more, 1, p)
      BY <1>1, <3>1, GetPagesIs
    <3> QED
      BY <3>2 DEF GivesPages
  <2>4. PICK U1, N, b, sl2 : /\ U1 = SlobUnits(more.held, bg) /\ b = PageAt(p) /\ N = From(b, UnitsPerPage)
                             /\ sl2 = SlobFree(h.slob, b, UnitsPerPage)
    OBVIOUS
  <2>5. U1 = U0 \union N /\ U0 \intersect N = {} /\ BigOK(more.held, bg)
    <3>1. HeldOK(h.held) /\ HeldOK(more.held)
      BY <1>4, <2>3 DEF PagesOK
    <3>2. /\ SlobUnits(more.held, bg) = SlobUnits(h.held, bg) \union From(PageAt(p), UnitsPerPage)
          /\ SlobUnits(h.held, bg) \intersect From(PageAt(p), UnitsPerPage) = {}
          /\ BigOK(more.held, bg)
      BY <1>4, <2>3, <3>1, SlobGrown
    <3> QED
      BY <1>3, <2>4, <3>2
  <2>6. b \in Addr /\ b + UnitsPerPage <= UNITS /\ UnitsPerPage \in Nat /\ UnitsPerPage >= 1
    BY <2>4, PageUnits, UnitNumbers
  <2>7. PICK T : Cells(sl2, T, (U0 \ X) \union N) /\ \E q \in T : sl2.units[q] >= UnitsPerPage
    <3>1. From(b, UnitsPerPage) \intersect (U0 \ X) = {}
      BY <2>4, <2>5
    <3>2. \E T : /\ Cells(SlobFree(h.slob, b, UnitsPerPage), T, (U0 \ X) \union From(b, UnitsPerPage))
                 /\ \E q \in T : SlobFree(h.slob, b, UnitsPerPage).units[q] >= UnitsPerPage
      BY <1>3, <2>6, <3>1, FreeCells
    <3> QED
      BY <2>4, <3>2
  <2>8. h2 \in Heaps /\ h2.pmm = more.pmm /\ h2.held = more.held /\ h2.slob = sl2 /\ h2.ok = TRUE
    <3>1. PICK m, sl, hd, l, o : m = more.pmm /\ sl = more.slob /\ hd = more.held /\ l = more.at /\ o = more.ok
      OBVIOUS
    <3>2. more = [pmm |-> more.pmm, slob |-> more.slob, held |-> more.held, at |-> more.at, ok |-> more.ok]
      BY <2>3 DEF Heaps
    <3>3. more = [pmm |-> m, slob |-> sl, held |-> hd, at |-> l, ok |-> o]
      BY <3>1, <3>2
    <3>4. h2 = [more EXCEPT !.slob = sl2]
      BY <2>1, <2>3, <2>4
    <3>5. h2 = [pmm |-> m, slob |-> sl2, held |-> hd, at |-> l, ok |-> o]
      BY <3>3, <3>4
    <3>6. sl2 \in Slob /\ m \in Pmm /\ hd \in [User -> Block] /\ l \in Node /\ o \in BOOLEAN
      BY <2>3, <2>7, <3>1 DEF Heaps, Cells, SlobList
    <3>7. h2 \in Heaps
      BY <3>5, <3>6 DEF Heaps
    <3> QED
      BY <1>7, <3>1, <3>5, <3>7
  <2>9. (U0 \ X) \union N = U1 \ X
    BY <1>4, <2>5
  <2>10. SlobFits(h2.slob, u) # {}
    <3>1. SlobList(sl2, T) /\ \E q \in Ring(T) : sl2.units[q] >= u
      <4>1. PICK q \in T : sl2.units[q] >= UnitsPerPage
        BY <2>7
      <4>2. SlobList(sl2, T) /\ q \in Ring(T) /\ sl2.units[q] \in Nat
        BY <2>7, <4>1, CellTypes
      <4> QED
        BY <2>6, <4>1, <4>2
    <3> QED
      BY <2>8, <3>1, SlobFitsIs
  <2>11. /\ g \in Heaps /\ g.pmm = more.pmm /\ g.held = more.held
         /\ g.at \in Addr /\ g.at + u <= UNITS /\ From(g.at, u) \subseteq U1 \ X
         /\ \E V : Cells(g.slob, V, (U1 \ X) \ From(g.at, u))
    <3>1. Cells(h2.slob, T, U1 \ X)
      BY <2>7, <2>8, <2>9
    <3>2. PICK K : K = U1 \ X
      OBVIOUS
    <3>3. h2 \in Heaps /\ Cells(h2.slob, T, K) /\ SlobFits(h2.slob, u) # {}
      BY <2>8, <2>10, <3>1, <3>2
    <3>4. /\ g \in Heaps /\ g.pmm = h2.pmm /\ g.held = h2.held
          /\ g.at \in Addr /\ g.at + u <= UNITS /\ From(g.at, u) \subseteq K
          /\ \E V : Cells(g.slob, V, K \ From(g.at, u))
      <4>1. Serves(h2, g, u, K)
        BY <2>2, <3>3, ServedIs
      <4> QED
        BY <4>1 DEF Serves
    <3> QED
      BY <2>8, <3>2, <3>4
  <2>12. (U1 \ X) \ From(g.at, u) = U1 \ (X \union From(g.at, u))
    OBVIOUS
  <2>13. GoodHeap(g, bg, X \union From(g.at, u))
    BY <1>4, <2>3, <2>4, <2>5, <2>11, <2>12 DEF GoodHeap
  <2>14. KeepsHeld(h.held, more.held)
    BY <2>3, GivenKeeps, KmallocAssumption
  <2> QED
    BY <1>3, <2>4, <2>5, <2>11, <2>13, <2>14
<1> QED
  BY <1>2, <1>5, <1>6, <1>7

\* Units that were in use go back to the list of SLOB.
LEMMA GoesBack ==
  ASSUME NEW h, NEW bg, NEW X, GoodHeap(h, bg, X), NEW a \in Addr, NEW u \in Nat, u >= 1, a + u <= UNITS,
         From(a, u) \subseteq X, NEW g, g \in Heaps, g.pmm = h.pmm, g.held = h.held, g.slob = SlobFree(h.slob, a, u)
  PROVE  GoodHeap(g, bg, X \ From(a, u))
<1>1. PICK U0, S, N : U0 = SlobUnits(h.held, bg) /\ Cells(h.slob, S, U0 \ X) /\ N = From(a, u)
  BY DEF GoodHeap
<1>2. PagesOK(h.pmm, h.held) /\ HeldAt(h.held) /\ BigOK(h.held, bg) /\ X \subseteq U0
  BY <1>1 DEF GoodHeap
<1>3. PICK K : K = U0 \ X
  OBVIOUS
<1>4. Cells(h.slob, S, K) /\ From(a, u) \intersect K = {}
  BY <1>1, <1>3
<1>5. PICK T : Cells(SlobFree(h.slob, a, u), T, K \union From(a, u))
  BY <1>4, FreeCells
<1>6. K \union From(a, u) = U0 \ (X \ From(a, u))
  BY <1>1, <1>2, <1>3
<1>7. Cells(g.slob, T, U0 \ (X \ From(a, u)))
  BY <1>5, <1>6
<1>8. X \ From(a, u) \in SUBSET SlobUnits(g.held, bg)
  BY <1>1, <1>2
<1>9. PagesOK(g.pmm, g.held) /\ HeldAt(g.held) /\ BigOK(g.held, bg) /\ SlobUnits(g.held, bg) = U0
  BY <1>1, <1>2
<1>10. \E V : Cells(g.slob, V, SlobUnits(g.held, bg) \ (X \ From(a, u)))
  BY <1>7, <1>9
<1> QED
  BY <1>8, <1>9, <1>10 DEF GoodHeap

\* Nothing but the allocators counts.
LEMMA SameHeap ==
  ASSUME NEW h, NEW bg, NEW X, GoodHeap(h, bg, X), NEW g, g \in Heaps, g.pmm = h.pmm, g.held = h.held, g.slob = h.slob
  PROVE  GoodHeap(g, bg, X)
<1>1. PagesOK(g.pmm, g.held) /\ HeldAt(g.held) /\ BigOK(g.held, bg)
  BY DEF GoodHeap
<1>2. X \in SUBSET SlobUnits(g.held, bg) /\ \E S : Cells(g.slob, S, SlobUnits(g.held, bg) \ X)
  BY DEF GoodHeap
<1> QED
  BY <1>1, <1>2 DEF GoodHeap

\* slob_alloc says whether it has units.
LEMMA SlobAllocSays == ASSUME NEW h, h \in Heaps, NEW size PROVE SlobAlloc(h, size).ok \in BOOLEAN
<1>1. PICK u, more : u = SLOB_UNITS(size) /\ more = GetPages(h, 1)
  OBVIOUS
<1>2. more.ok \in BOOLEAN
  BY <1>1, GetPagesSays
<1>3. CASE SlobFits(h.slob, u) # {}
  <2>1. PICK s2, at : Served(h, u) = [h EXCEPT !.slob = s2, !.at = at]
    BY DEF Served
  <2>2. Served(h, u).ok = h.ok /\ h.ok \in BOOLEAN
    BY <2>1 DEF Heaps
  <2> QED
    BY <1>1, <1>3, <2>2 DEF SlobAlloc
<1>4. CASE SlobFits(h.slob, u) = {} /\ more.ok = FALSE
  <2>1. SlobAlloc(h, size) = more
    BY <1>1, <1>4 DEF SlobAlloc
  <2> QED
    BY <1>2, <2>1
<1>5. CASE SlobFits(h.slob, u) = {} /\ more.ok = TRUE
  <2>1. PICK h2 : h2 = [more EXCEPT !.slob = SlobFree(@, more.at, UnitsPerPage)]
    OBVIOUS
  <2>2. SlobAlloc(h, size) = Served(h2, u)
    BY <1>1, <1>5, <2>1 DEF SlobAlloc
  <2>3. PICK s2, at : Served(h2, u) = [h2 EXCEPT !.slob = s2, !.at = at]
    BY DEF Served
  <2>4. PICK m, sl, hd, l, o : m = h.pmm /\ sl = h.slob /\ hd = h.held /\ l = h.at /\ o = h.ok
    OBVIOUS
  <2>5. h = [pmm |-> m, slob |-> sl, held |-> hd, at |-> l, ok |-> o]
    <3>1. h = [pmm |-> h.pmm, slob |-> h.slob, held |-> h.held, at |-> h.at, ok |-> h.ok]
      BY DEF Heaps
    <3> QED
      BY <2>4, <3>1
  <2>6. PICK m2, at2, hd2 : more = [h EXCEPT !.ok = FALSE] \/ more = [h EXCEPT !.pmm = m2, !.at = at2, !.held = hd2]
    BY <1>1 DEF GetPages, Failed
  <2>7. \E m3, l3, hd3, o3 : more = [pmm |-> m3, slob |-> sl, held |-> hd3, at |-> l3, ok |-> o3]
    BY <2>5, <2>6
  <2>8. PICK m3, l3, hd3, o3 : more = [pmm |-> m3, slob |-> sl, held |-> hd3, at |-> l3, ok |-> o3]
    BY <2>7
  <2>9. PICK s3 : h2 = [more EXCEPT !.slob = s3]
    BY <2>1
  <2>10. SlobAlloc(h, size) = [pmm |-> m3, slob |-> s2, held |-> hd3, at |-> at, ok |-> o3]
    BY <2>2, <2>3, <2>8, <2>9
  <2> QED
    BY <1>5, <2>8, <2>10
<1> QED
  BY <1>2, <1>3, <1>4, <1>5

\* No other big block has the pages of b.
Alone(b, bg) == \A d \in bg : d.pages # b.pages

\* The pages of a big block are taken after its bigblock_t.
LEMMA BigPages ==
  ASSUME NEW h, NEW bg, NEW X, GoodHeap(h, bg, X), h.ok = TRUE, NEW n \in Nat, n >= 1,
         NEW g, g = GetPages(h, n), g.ok = TRUE, NEW b, b.pages = g.at, b.n = n
  PROVE  GoodHeap(g, bg \union {b}, X) /\ Alone(b, bg)
<1>1. PICK U0, S : U0 = SlobUnits(h.held, bg) /\ Cells(h.slob, S, U0 \ X)
  BY DEF GoodHeap
<1>2. h \in Heaps /\ PagesOK(h.pmm, h.held) /\ HeldAt(h.held) /\ BigOK(h.held, bg) /\ X \subseteq U0 /\ HeldOK(h.held)
  BY <1>1 DEF GoodHeap, PagesOK
<1>3. PICK p \in Page :
        /\ h.held[p] = NoBlock /\ g.held = Given(h.held, p, p, n) /\ g.slob = h.slob /\ g.at = PageAt(p)
        /\ g \in Heaps /\ PagesOK(g.pmm, g.held) /\ HeldAt(g.held)
  <2>1. \E p \in Page : GivesPages(h, g, n, p)
    BY <1>2, GetPagesIs
  <2> QED
    BY <2>1 DEF GivesPages
<1>4. b.pages = PageAt(p)
  BY <1>3
<1>5. /\ SlobUnits(g.held, bg \union {b}) = SlobUnits(h.held, bg) /\ BigOK(g.held, bg \union {b})
      /\ \A d \in bg : d.pages # b.pages
  BY <1>2, <1>3, <1>4, BigGrown
<1>6. Cells(g.slob, S, SlobUnits(g.held, bg \union {b}) \ X)
  BY <1>1, <1>3, <1>5
<1>7. X \in SUBSET SlobUnits(g.held, bg \union {b})
  BY <1>1, <1>2, <1>5
<1>8. GoodHeap(g, bg \union {b}, X)
  BY <1>3, <1>5, <1>6, <1>7 DEF GoodHeap
<1> QED
  BY <1>5, <1>8 DEF Alone

(***************************************************************************)
(* What callers hold of the heap                                           *)
(***************************************************************************)
\* The units of a bigblock_t.
NODE == SLOB_UNITS(BIGBLOCK)
\* The units of a small block, header first, and those of a bigblock_t.
SmallAt(x) == From(x.at - 1, x.units)
NodeAt(b) == From(b.node, NODE)
InUse(gt, bg, a) == (\E c \in Caller : a \in SmallAt(gt[c])) \/ \E b \in bg : a \in NodeAt(b)
Used(gt, bg) == {a \in Int : InUse(gt, bg, a)}

\* What kmalloc gave is a small block, or the pages that b tells of.
GivenSmall(x) ==
  /\ x.at - 1 \in Addr /\ x.at - 1 + x.units <= UNITS
  /\ x.size \in Requests /\ x.units = SLOB_UNITS(x.size + SLOB_UNIT)
GivenBig(x, b) ==
  /\ x.at = b.pages /\ x.units = 0
  /\ x.size \in Requests /\ ~Small(x.size) /\ b.n = Shifted[FindOrder(x.size)]
Kept == [at : Int, size : Nat, units : Nat]

\* Each caller has nothing, a small block or the pages of a big block, its alone.
Pieces(gt, bg) ==
  /\ gt \in [Caller -> Kept]
  /\ \A c \in Caller : gt[c] = NotGiven \/ GivenSmall(gt[c]) \/ \E b \in bg : GivenBig(gt[c], b)
  /\ \A c, d \in Caller : c # d =>
       /\ SmallAt(gt[c]) \intersect SmallAt(gt[d]) = {}
       /\ gt[c] # NotGiven /\ gt[c].units = 0 /\ gt[d].units = 0 => gt[c].at # gt[d].at
  /\ \A b \in bg : b.pages \in Nat /\ b.node \in Addr /\ b.node + NODE <= UNITS
  /\ \A b, d \in bg : b # d => NodeAt(b) \intersect NodeAt(d) = {}
  /\ \A c \in Caller : \A b \in bg : SmallAt(gt[c]) \intersect NodeAt(b) = {}

\* The units in use.
LEMMA UsedIs ==
  ASSUME NEW gt, NEW bg
  PROVE  \A a : a \in Used(gt, bg) <=> InUse(gt, bg, a)
<1>1. \A a, x, n : a \in From(x, n) => a \in Int
  BY DEF From
<1>2. \A a : InUse(gt, bg, a) => a \in Int
  BY <1>1 DEF InUse, SmallAt, NodeAt
<1> QED
  BY <1>2 DEF Used

\* What has no units takes none.
LEMMA NoUnits ==
  /\ NotGiven \in Kept /\ SmallAt(NotGiven) = {} /\ NotGiven.at = -2 /\ NotGiven.units = 0
  /\ \A x \in Kept : x.units = 0 => SmallAt(x) = {}
  /\ \A x : GivenSmall(x) => x.units # 0 /\ x.units >= 2 /\ x # NotGiven
  /\ \A x : \A b : GivenBig(x, b) => x.units = 0
<1>1. NotGiven = [at |-> -2, size |-> 0, units |-> 0]
  BY DEF NotGiven, ARENA
<1>2. NotGiven \in Kept /\ NotGiven.at = -2 /\ NotGiven.units = 0
  BY <1>1 DEF Kept
<1>3. ASSUME NEW x \in Kept, x.units = 0 PROVE SmallAt(x) = {}
  <2>1. PICK a : a = x.at - 1 /\ a \in Int
    BY DEF Kept
  <2>2. SmallAt(x) = From(a, 0)
    BY <1>3, <2>1 DEF SmallAt
  <2>3. From(a, 0) = {}
    BY <2>1 DEF From
  <2> QED
    BY <2>2, <2>3
<1>4. ASSUME NEW x, GivenSmall(x) PROVE x.units # 0 /\ x.units >= 2 /\ x # NotGiven
  <2>1. x.size \in Nat /\ x.size >= 1 /\ x.units = SLOB_UNITS(x.size + SLOB_UNIT)
    <3>1. x.size \in Requests /\ x.units = SLOB_UNITS(x.size + SLOB_UNIT)
      BY <1>4 DEF GivenSmall
    <3>2. \A z \in Requests : z \in Nat /\ z >= 1
      BY KmallocAssumption
    <3> QED
      BY <3>1, <3>2
  <2>2. x.units \in Nat /\ x.units >= 2
    BY <2>1, SizesInUnits
  <2> QED
    BY <1>2, <2>2
<1>5. \A x : \A b : GivenBig(x, b) => x.units = 0
  BY DEF GivenBig
<1> QED
  BY <1>2, <1>3, <1>4, <1>5

\* kmalloc returns x to caller c.
Gets(gt, c, x, new) == new = [gt EXCEPT ![c] = x]

\* A caller that had nothing gets a small block of units that nobody used.
LEMMA AddSmall ==
  ASSUME NEW gt, NEW bg, Pieces(gt, bg), NEW c \in Caller, gt[c] = NotGiven, NEW x \in Kept, GivenSmall(x),
         SmallAt(x) \intersect Used(gt, bg) = {}, NEW new, Gets(gt, c, x, new)
  PROVE  Pieces(new, bg) /\ Used(new, bg) = Used(gt, bg) \union SmallAt(x)
<1>1. gt \in [Caller -> Kept]
  BY DEF Pieces
<1>2. new \in [Caller -> Kept] /\ new[c] = x /\ \A d \in Caller : d # c => new[d] = gt[d]
  BY <1>1 DEF Gets
<1>3. SmallAt(gt[c]) = {} /\ x.units # 0
  BY NoUnits
<1>4. /\ \A d \in Caller : SmallAt(x) \intersect SmallAt(gt[d]) = {}
      /\ \A b \in bg : SmallAt(x) \intersect NodeAt(b) = {}
  BY UsedIs DEF InUse
<1>5. Used(new, bg) = Used(gt, bg) \union SmallAt(x)
  <2>1. \A d \in Caller : SmallAt(new[d]) = IF d = c THEN SmallAt(x) ELSE SmallAt(gt[d])
    BY <1>2
  <2>2. \A a : (\E d \in Caller : a \in SmallAt(new[d])) <=> a \in SmallAt(x) \/ \E d \in Caller : a \in SmallAt(gt[d])
    BY <1>3, <2>1
  <2>3. \A a : a \in Used(new, bg) <=> a \in Used(gt, bg) \/ a \in SmallAt(x)
    <3>1. \A a : a \in Used(gt, bg) <=> InUse(gt, bg, a)
      BY UsedIs
    <3>2. \A a : a \in Used(new, bg) <=> InUse(new, bg, a)
      BY UsedIs, Zenon
    <3> QED
      BY <2>2, <3>1, <3>2 DEF InUse
  <2> QED
    BY <2>3
<1>6. \A d \in Caller : new[d] = NotGiven \/ GivenSmall(new[d]) \/ \E b \in bg : GivenBig(new[d], b)
  BY <1>2 DEF Pieces
<1>7. ASSUME NEW d \in Caller, NEW e \in Caller, d # e
      PROVE  /\ SmallAt(new[d]) \intersect SmallAt(new[e]) = {}
             /\ new[d] # NotGiven /\ new[d].units = 0 /\ new[e].units = 0 => new[d].at # new[e].at
  BY <1>2, <1>3, <1>4, <1>7 DEF Pieces
<1>8. \A d \in Caller : \A b \in bg : SmallAt(new[d]) \intersect NodeAt(b) = {}
  BY <1>2, <1>4 DEF Pieces
<1>9. /\ \A b \in bg : b.pages \in Nat /\ b.node \in Addr /\ b.node + NODE <= UNITS
      /\ \A b, d \in bg : b # d => NodeAt(b) \intersect NodeAt(d) = {}
  BY DEF Pieces
<1>10. Pieces(new, bg)
  BY <1>2, <1>6, <1>7, <1>8, <1>9 DEF Pieces
<1> QED
  BY <1>5, <1>10

\* A caller that had nothing gets a big block.
LEMMA AddBig ==
  ASSUME NEW gt, NEW bg, Pieces(gt, bg), NEW c \in Caller, gt[c] = NotGiven, NEW x \in Kept, NEW b, GivenBig(x, b),
         b.node \in Addr, b.node + NODE <= UNITS, NodeAt(b) \intersect Used(gt, bg) = {}, b.pages \in Nat,
         Alone(b, bg), NEW new, Gets(gt, c, x, new)
  PROVE  Pieces(new, bg \union {b}) /\ Used(new, bg \union {b}) = Used(gt, bg) \union NodeAt(b)
<1>1. gt \in [Caller -> Kept]
  BY DEF Pieces
<1>2. new \in [Caller -> Kept] /\ new[c] = x /\ \A d \in Caller : d # c => new[d] = gt[d]
  BY <1>1 DEF Gets
<1>3. x.units = 0 /\ x.at = b.pages
  BY DEF GivenBig
<1>4. \A d \in Caller : SmallAt(new[d]) = SmallAt(gt[d])
  <2>1. SmallAt(gt[c]) = {} /\ SmallAt(x) = {}
    BY <1>3, NoUnits
  <2> QED
    BY <1>2, <2>1
<1>5. /\ \A d \in Caller : NodeAt(b) \intersect SmallAt(gt[d]) = {}
      /\ \A d \in bg : NodeAt(b) \intersect NodeAt(d) = {}
  BY UsedIs DEF InUse
<1>6. Used(new, bg \union {b}) = Used(gt, bg) \union NodeAt(b)
  <2>1. \A a : (\E d \in Caller : a \in SmallAt(new[d])) <=> \E d \in Caller : a \in SmallAt(gt[d])
    BY <1>4
  <2>2. \A a : (\E d \in bg \union {b} : a \in NodeAt(d)) <=> a \in NodeAt(b) \/ \E d \in bg : a \in NodeAt(d)
    OBVIOUS
  <2>3. \A a : a \in Used(new, bg \union {b}) <=> a \in Used(gt, bg) \/ a \in NodeAt(b)
    <3>1. \A a : a \in Used(gt, bg) <=> InUse(gt, bg, a)
      BY UsedIs
    <3>2. \A a : a \in Used(new, bg \union {b}) <=> InUse(new, bg \union {b}, a)
      BY UsedIs, Zenon
    <3> QED
      BY <2>1, <2>2, <3>1, <3>2 DEF InUse
  <2> QED
    BY <2>3
<1>7. \A d \in Caller : new[d] = NotGiven \/ GivenSmall(new[d]) \/ \E e \in bg \union {b} : GivenBig(new[d], e)
  BY <1>2 DEF Pieces
<1>8. \A d \in Caller : d # c => gt[d].units # 0 \/ gt[d].at # x.at
  <2> SUFFICES ASSUME NEW d \in Caller, d # c PROVE gt[d].units # 0 \/ gt[d].at # x.at
    OBVIOUS
  <2>1. CASE gt[d] = NotGiven
    BY <1>3, <2>1, NoUnits
  <2>2. CASE GivenSmall(gt[d])
    BY <2>2, NoUnits
  <2>3. CASE \E e \in bg : GivenBig(gt[d], e)
    BY <1>3, <2>3 DEF GivenBig, Alone
  <2> QED
    BY <2>1, <2>2, <2>3 DEF Pieces
<1>9. ASSUME NEW d \in Caller, NEW e \in Caller, d # e
      PROVE  /\ SmallAt(new[d]) \intersect SmallAt(new[e]) = {}
             /\ new[d] # NotGiven /\ new[d].units = 0 /\ new[e].units = 0 => new[d].at # new[e].at
  <2>1. SmallAt(new[d]) \intersect SmallAt(new[e]) = {}
    BY <1>4, <1>9 DEF Pieces
  <2>2. CASE d = c
    BY <1>2, <1>8, <1>9, <2>1, <2>2
  <2>3. CASE e = c
    BY <1>2, <1>8, <1>9, <2>1, <2>3
  <2>4. CASE d # c /\ e # c
    BY <1>2, <1>9, <2>1, <2>4 DEF Pieces
  <2> QED
    BY <2>2, <2>3, <2>4
<1>10. \A d \in Caller : \A e \in bg \union {b} : SmallAt(new[d]) \intersect NodeAt(e) = {}
  BY <1>4, <1>5 DEF Pieces
<1>11. \A e \in bg \union {b} : e.pages \in Nat /\ e.node \in Addr /\ e.node + NODE <= UNITS
  BY DEF Pieces
<1>12. \A d, e \in bg \union {b} : d # e => NodeAt(d) \intersect NodeAt(e) = {}
  BY <1>5 DEF Pieces
<1>13. Pieces(new, bg \union {b})
  BY <1>2, <1>7, <1>9, <1>10, <1>11, <1>12 DEF Pieces
<1> QED
  BY <1>6, <1>13

\* A caller gives a small block back.
LEMMA DropSmall ==
  ASSUME NEW gt, NEW bg, Pieces(gt, bg), NEW c \in Caller, NEW new, Gets(gt, c, NotGiven, new)
  PROVE  Pieces(new, bg) /\ Used(new, bg) = Used(gt, bg) \ SmallAt(gt[c])
<1>1. gt \in [Caller -> Kept]
  BY DEF Pieces
<1>2. new \in [Caller -> Kept] /\ new[c] = NotGiven /\ \A d \in Caller : d # c => new[d] = gt[d]
  BY <1>1, NoUnits DEF Gets
<1>3. SmallAt(new[c]) = {} /\ new[c].units = 0 /\ new[c].at = -2
  BY <1>2, NoUnits
<1>4. /\ \A d \in Caller : d # c => SmallAt(gt[c]) \intersect SmallAt(gt[d]) = {}
      /\ \A b \in bg : SmallAt(gt[c]) \intersect NodeAt(b) = {}
  BY DEF Pieces
<1>5. Used(new, bg) = Used(gt, bg) \ SmallAt(gt[c])
  <2>1. \A a : (\E d \in Caller : a \in SmallAt(new[d])) <=> a \notin SmallAt(gt[c]) /\ \E d \in Caller : a \in SmallAt(gt[d])
    BY <1>2, <1>3, <1>4
  <2>2. \A a : (\E b \in bg : a \in NodeAt(b)) => a \notin SmallAt(gt[c])
    BY <1>4
  <2>3. \A a : a \in Used(new, bg) <=> a \in Used(gt, bg) /\ a \notin SmallAt(gt[c])
    <3>1. \A a : a \in Used(gt, bg) <=> InUse(gt, bg, a)
      BY UsedIs
    <3>2. \A a : a \in Used(new, bg) <=> InUse(new, bg, a)
      BY UsedIs, Zenon
    <3> QED
      BY <2>1, <2>2, <3>1, <3>2 DEF InUse
  <2> QED
    BY <2>3
<1>6. \A d \in Caller : new[d] = NotGiven \/ GivenSmall(new[d]) \/ \E b \in bg : GivenBig(new[d], b)
  BY <1>2 DEF Pieces
<1>7. ASSUME NEW d \in Caller, NEW e \in Caller, d # e
      PROVE  /\ SmallAt(new[d]) \intersect SmallAt(new[e]) = {}
             /\ new[d] # NotGiven /\ new[d].units = 0 /\ new[e].units = 0 => new[d].at # new[e].at
  <2>1. SmallAt(new[d]) \intersect SmallAt(new[e]) = {}
    BY <1>2, <1>3, <1>7 DEF Pieces
  <2>2. CASE d = c
    BY <1>2, <2>1, <2>2
  <2>3. CASE e = c /\ new[d] # NotGiven /\ new[d].units = 0
    <3>1. d # c /\ new[d] = gt[d]
      BY <1>2, <1>7, <2>3
    <3>2. \E b \in bg : GivenBig(gt[d], b)
      BY <2>3, <3>1, NoUnits DEF Pieces
    <3>3. gt[d].at # -2
      <4>1. PICK b \in bg : gt[d].at = b.pages
        BY <3>2 DEF GivenBig
      <4>2. b.pages \in Nat
        BY DEF Pieces
      <4> QED
        BY <4>1, <4>2
    <3> QED
      BY <1>3, <2>1, <2>3, <3>1, <3>3
  <2>4. CASE d # c /\ e # c
    BY <1>2, <1>7, <2>1, <2>4 DEF Pieces
  <2> QED
    BY <2>1, <2>2, <2>3, <2>4
<1>8. \A d \in Caller : \A b \in bg : SmallAt(new[d]) \intersect NodeAt(b) = {}
  BY <1>2, <1>3 DEF Pieces
<1>9. /\ \A b \in bg : b.pages \in Nat /\ b.node \in Addr /\ b.node + NODE <= UNITS
      /\ \A b, d \in bg : b # d => NodeAt(b) \intersect NodeAt(d) = {}
  BY DEF Pieces
<1>10. Pieces(new, bg)
  BY <1>2, <1>6, <1>7, <1>8, <1>9 DEF Pieces
<1> QED
  BY <1>5, <1>10

\* What is left is in use as before when the units of N no longer are.
Left(gt, bg, new, rest, N) == Pieces(new, rest) /\ Used(new, rest) = Used(gt, bg) \ N

\* A caller gives a big block back.
LEMMA DropBig ==
  ASSUME NEW gt, NEW bg, Pieces(gt, bg), NEW c \in Caller, NEW b \in bg, GivenBig(gt[c], b), gt[c] # NotGiven,
         NEW new, Gets(gt, c, NotGiven, new)
  PROVE  Left(gt, bg, new, bg \ {b}, NodeAt(b))
<1>1. gt \in [Caller -> Kept]
  BY DEF Pieces
<1>2. new \in [Caller -> Kept] /\ new[c] = NotGiven /\ \A d \in Caller : d # c => new[d] = gt[d]
  BY <1>1, NoUnits DEF Gets
<1>3. gt[c].units = 0 /\ gt[c].at = b.pages /\ new[c].units = 0 /\ new[c].at = -2
  BY <1>2, NoUnits DEF GivenBig
<1>4. \A d \in Caller : SmallAt(new[d]) = SmallAt(gt[d])
  <2>1. SmallAt(gt[c]) = {} /\ SmallAt(new[c]) = {}
    BY <1>1, <1>2, <1>3, NoUnits
  <2> QED
    BY <1>2, <2>1
<1>5. /\ \A d \in Caller : NodeAt(b) \intersect SmallAt(gt[d]) = {}
      /\ \A d \in bg \ {b} : NodeAt(b) \intersect NodeAt(d) = {}
  BY DEF Pieces
<1>6. Used(new, bg \ {b}) = Used(gt, bg) \ NodeAt(b)
  <2>1. \A a : (\E d \in Caller : a \in SmallAt(new[d])) <=> \E d \in Caller : a \in SmallAt(gt[d])
    BY <1>4
  <2>2. \A a : (\E d \in Caller : a \in SmallAt(gt[d])) => a \notin NodeAt(b)
    BY <1>5
  <2>3. \A a : (\E d \in bg \ {b} : a \in NodeAt(d)) <=> a \notin NodeAt(b) /\ \E d \in bg : a \in NodeAt(d)
    BY <1>5
  <2>4. \A a : a \in Used(gt, bg) <=> InUse(gt, bg, a)
    BY UsedIs
  <2>5. \A a : a \in Used(new, bg \ {b}) <=> InUse(new, bg \ {b}, a)
    BY UsedIs, Zenon
  <2>6. \A a : a \in Used(new, bg \ {b}) <=> a \in Used(gt, bg) /\ a \notin NodeAt(b)
    BY <2>1, <2>2, <2>3, <2>4, <2>5 DEF InUse
  <2> QED
    BY <2>6
<1>7. ASSUME NEW d \in Caller
      PROVE  new[d] = NotGiven \/ GivenSmall(new[d]) \/ \E e \in bg \ {b} : GivenBig(new[d], e)
  <2>1. CASE d = c \/ gt[d] = NotGiven \/ GivenSmall(gt[d])
    BY <1>2, <2>1
  <2>2. CASE d # c /\ gt[d] # NotGiven /\ ~GivenSmall(gt[d])
    <3>1. PICK e \in bg : GivenBig(gt[d], e)
      BY <2>2 DEF Pieces
    <3>2. gt[d].units = 0 /\ gt[d].at = e.pages
      BY <3>1 DEF GivenBig
    <3>3. gt[d].at # gt[c].at
      BY <1>3, <2>2, <3>2 DEF Pieces
    <3> QED
      BY <1>2, <1>3, <2>2, <3>1, <3>2, <3>3
  <2> QED
    BY <2>1, <2>2
<1>8. ASSUME NEW d \in Caller, NEW e \in Caller, d # e
      PROVE  /\ SmallAt(new[d]) \intersect SmallAt(new[e]) = {}
             /\ new[d] # NotGiven /\ new[d].units = 0 /\ new[e].units = 0 => new[d].at # new[e].at
  <2>1. SmallAt(new[d]) \intersect SmallAt(new[e]) = {}
    BY <1>4, <1>8 DEF Pieces
  <2>2. CASE d = c
    BY <1>2, <2>1, <2>2
  <2>3. CASE e = c /\ new[d] # NotGiven /\ new[d].units = 0
    <3>1. d # c /\ new[d] = gt[d]
      BY <1>2, <1>8, <2>3
    <3>2. \E f \in bg : GivenBig(gt[d], f)
      BY <2>3, <3>1, NoUnits DEF Pieces
    <3>3. gt[d].at # -2
      <4>1. PICK f \in bg : gt[d].at = f.pages
        BY <3>2 DEF GivenBig
      <4>2. f.pages \in Nat
        BY DEF Pieces
      <4> QED
        BY <4>1, <4>2
    <3> QED
      BY <1>3, <2>1, <2>3, <3>1, <3>3
  <2>4. CASE d # c /\ e # c
    BY <1>2, <1>8, <2>1, <2>4 DEF Pieces
  <2> QED
    BY <2>1, <2>2, <2>3, <2>4
<1>9. \A d \in Caller : \A e \in bg \ {b} : SmallAt(new[d]) \intersect NodeAt(e) = {}
  BY <1>4 DEF Pieces
<1>10. /\ \A e \in bg \ {b} : e.pages \in Nat /\ e.node \in Addr /\ e.node + NODE <= UNITS
       /\ \A d, e \in bg \ {b} : d # e => NodeAt(d) \intersect NodeAt(e) = {}
  BY DEF Pieces
<1>11. Pieces(new, bg \ {b})
  BY <1>2, <1>7, <1>8, <1>9, <1>10 DEF Pieces
<1> QED
  BY <1>6, <1>11 DEF Left

\* The pages of a big block are not the list's.
LEMMA NotSlob ==
  ASSUME NEW hd, HeldOK(hd), HeldAt(hd), NEW bg, BigOK(hd, bg), NEW b \in bg
  PROVE  b.pages \notin SlobUnits(hd, bg)
<1> SUFFICES ASSUME b.pages \in SlobUnits(hd, bg) PROVE FALSE
  OBVIOUS
<1>1. PICK p \in Page : b.pages = PageAt(p) /\ hd[p] # NoBlock
  BY DEF BigOK
<1>2. PICK q \in SlobPages(hd, bg) : b.pages \div UnitsPerPage \in Extent(hd[q])
  BY DEF SlobUnits
<1>3. q \in Page /\ hd[q] # NoBlock /\ b.pages # PageAt(q) /\ q \in User /\ p \in User
  BY <1>2, KmallocAssumption DEF SlobPages
<1>4. PageAt(p) \div UnitsPerPage = p
  <2>1. p \in Nat /\ 1 \in Nat
    BY Numbers
  <2>2. PageAt(p) \in Nat
    BY <2>1, UnitNumbers DEF PageAt
  <2> QED
    BY <2>1, <2>2, UnitIn
<1>5. p \in Extent(hd[q]) /\ q # p
  BY <1>1, <1>2, <1>3, <1>4
<1>6. p \in Extent(hd[p])
  <2>1. hd[p].base = p
    BY <1>1 DEF HeldAt
  <2>2. hd[p].base \in Extent(hd[p])
    BY <1>1, <1>3, ExtentIs
  <2> QED
    BY <2>1, <2>2
<1>7. Extent(hd[q]) \intersect Extent(hd[p]) = {}
  BY <1>3, <1>5, ExtentIs
<1> QED
  BY <1>5, <1>6, <1>7

\* A small block is not taken for a big one: its header is in front of it.
LEMMA SmallIsSmall ==
  ASSUME NEW h, NEW gt, NEW bg, GoodHeap(h, bg, Used(gt, bg)), Pieces(gt, bg), NEW c \in Caller, GivenSmall(gt[c]),
         NEW b \in bg
  PROVE  b.pages # gt[c].at
<1>1. PICK x : x = gt[c] /\ x \in Kept
  BY DEF Pieces
<1>2. x.at \in Int /\ x.units \in Nat /\ x.units >= 2
  BY <1>1, NoUnits DEF Kept
<1>3. x.at \in SmallAt(x)
  BY <1>2 DEF SmallAt, From
<1>4. x.at \in Used(gt, bg)
  <2>1. InUse(gt, bg, x.at)
    BY <1>1, <1>3 DEF InUse
  <2> QED
    BY <2>1, UsedIs
<1>5. x.at \in SlobUnits(h.held, bg)
  BY <1>4 DEF GoodHeap
<1>6. HeldOK(h.held) /\ HeldAt(h.held) /\ BigOK(h.held, bg)
  BY DEF GoodHeap, PagesOK
<1> QED
  BY <1>1, <1>5, <1>6, NotSlob

(***************************************************************************)
(* kmalloc and kfree                                                       *)
(***************************************************************************)
\* The allocators are right and know what each caller has.
HeapOK(h, gt, bg) == GoodHeap(h, bg, Used(gt, bg)) /\ Pieces(gt, bg)

\* How much is asked for.
LEMMA Asked == \A size \in Requests : size \in Nat /\ size >= 1
  BY KmallocAssumption

\* A small request.
LEMMA SmallGives ==
  ASSUME NEW h, NEW gt, NEW bg, HeapOK(h, gt, bg), h.ok = TRUE, NEW c \in Caller, gt[c] = NotGiven,
         NEW size \in Requests, Small(size), NEW g, g = SlobAlloc(h, size + SLOB_UNIT), g.ok = TRUE,
         NEW x, x = [at |-> g.at + 1, size |-> size, units |-> SLOB_UNITS(size + SLOB_UNIT)],
         NEW new, Gets(gt, c, x, new)
  PROVE  HeapOK(g, new, bg)
<1>1. PICK u, X : u = SLOB_UNITS(size + SLOB_UNIT) /\ X = Used(gt, bg)
  OBVIOUS
<1>2. size \in Nat /\ size >= 1 /\ u \in Nat /\ u >= 2 /\ u <= UnitsPerPage
  <2>1. size \in Nat /\ size >= 1
    BY Asked
  <2> QED
    BY <1>1, <2>1, SizesInUnits
<1>3. GoodHeap(h, bg, X) /\ Pieces(gt, bg)
  BY <1>1 DEF HeapOK
<1>4. /\ GoodHeap(g, bg, X \union From(g.at, u)) /\ From(g.at, u) \intersect X = {}
      /\ g.at \in Addr /\ g.at + u <= UNITS
  BY <1>1, <1>2, <1>3, SlobAllocKeeps
<1>5. PICK a : a = g.at /\ a \in Nat
  BY <1>4, UnitNumbers
<1>6. x = [at |-> a + 1, size |-> size, units |-> u]
  BY <1>1, <1>5
<1>7. x \in Kept /\ x.at = a + 1 /\ x.size = size /\ x.units = u
  BY <1>2, <1>5, <1>6 DEF Kept
<1>8. a + 1 - 1 = a
  BY <1>5
<1>9. GivenSmall(x) /\ SmallAt(x) = From(g.at, u)
  BY <1>1, <1>4, <1>5, <1>7, <1>8 DEF GivenSmall, SmallAt
<1>10. SmallAt(x) \intersect Used(gt, bg) = {}
  BY <1>1, <1>4, <1>9
<1>11. Pieces(new, bg) /\ Used(new, bg) = Used(gt, bg) \union SmallAt(x)
  BY <1>3, <1>7, <1>9, <1>10, AddSmall
<1>12. Used(new, bg) = X \union From(g.at, u)
  BY <1>1, <1>9, <1>11
<1> QED
  BY <1>4, <1>11, <1>12 DEF HeapOK

\* The bigblock_t of a big request.
LEMMA NodeGives ==
  ASSUME NEW h, NEW bg, NEW X, GoodHeap(h, bg, X), h.ok = TRUE, NEW g, g = SlobAlloc(h, BIGBLOCK), g.ok = TRUE
  PROVE  /\ GoodHeap(g, bg, X \union From(g.at, NODE)) /\ From(g.at, NODE) \intersect X = {}
         /\ g.at \in Addr /\ g.at + NODE <= UNITS /\ NODE \in Nat /\ NODE >= 1
<1>1. NODE \in Nat /\ NODE >= 2 /\ NODE <= UnitsPerPage /\ NODE = SLOB_UNITS(BIGBLOCK)
  BY SizesInUnits DEF NODE
<1>2. PICK u : u = NODE
  OBVIOUS
<1>3. u \in Nat /\ u >= 2 /\ u <= UnitsPerPage /\ u = SLOB_UNITS(BIGBLOCK)
  BY <1>1, <1>2
<1>4. /\ GoodHeap(g, bg, X \union From(g.at, u)) /\ From(g.at, u) \intersect X = {}
      /\ g.at \in Addr /\ g.at + u <= UNITS
  BY <1>3, SlobAllocKeeps
<1> QED
  BY <1>1, <1>2, <1>4

\* A big request that is served.
LEMMA BigGives ==
  ASSUME NEW h, NEW gt, NEW bg, HeapOK(h, gt, bg), h.ok = TRUE, NEW c \in Caller, gt[c] = NotGiven,
         NEW size \in Requests, ~Small(size), NEW node, node = SlobAlloc(h, BIGBLOCK), node.ok = TRUE,
         NEW n, n = Shifted[FindOrder(size)], NEW g, g = GetPages(node, n), g.ok = TRUE,
         NEW b, b.pages = g.at, b.n = n, b.node = node.at,
         NEW x, x = [at |-> g.at, size |-> size, units |-> 0], NEW new, Gets(gt, c, x, new)
  PROVE  HeapOK(g, new, bg \union {b})
<1>1. PICK X, N, Y : X = Used(gt, bg) /\ N = From(node.at, NODE) /\ Y = X \union N
  OBVIOUS
<1>2. GoodHeap(h, bg, X) /\ Pieces(gt, bg) /\ size \in Nat /\ size >= 1
  BY <1>1, Asked DEF HeapOK
<1>3. /\ GoodHeap(node, bg, Y) /\ N \intersect X = {}
      /\ node.at \in Addr /\ node.at + NODE <= UNITS /\ NODE \in Nat
  BY <1>1, <1>2, NodeGives
<1>4. n \in Nat /\ n >= 1
  BY <1>2, ShiftedIs, FindOrderIs
<1>5. b.pages = g.at /\ b.n = n /\ b.node = node.at
  OBVIOUS
<1>6. GoodHeap(g, bg \union {b}, Y) /\ Alone(b, bg)
  <2>1. PICK k : k = n /\ k \in Nat /\ k >= 1
    BY <1>4
  <2>2. g = GetPages(node, k) /\ b.n = k
    BY <2>1
  <2> QED
    BY <1>3, <1>5, <2>1, <2>2, BigPages
<1>7. b.pages \in Nat
  <2>1. BigOK(g.held, bg \union {b})
    BY <1>6 DEF GoodHeap
  <2>2. PICK p \in Page : b.pages = PageAt(p)
    BY <2>1 DEF BigOK
  <2>3. p \in Nat
    BY Numbers
  <2> QED
    BY <2>2, <2>3, UnitNumbers DEF PageAt
<1>8. x \in Kept /\ x.at = b.pages /\ x.size = size /\ x.units = 0
  <2>1. PICK a : a = g.at /\ a \in Nat
    BY <1>5, <1>7
  <2>2. x = [at |-> a, size |-> size, units |-> 0]
    BY <2>1
  <2> QED
    BY <1>2, <1>5, <2>1, <2>2 DEF Kept
<1>9. GivenBig(x, b)
  BY <1>5, <1>8 DEF GivenBig
<1>10. NodeAt(b) = N
  BY <1>1, <1>5 DEF NodeAt
<1>11. b.node \in Addr /\ b.node + NODE <= UNITS /\ NodeAt(b) \intersect Used(gt, bg) = {}
  BY <1>1, <1>3, <1>5, <1>10
<1>12. Pieces(new, bg \union {b}) /\ Used(new, bg \union {b}) = Used(gt, bg) \union NodeAt(b)
  BY <1>2, <1>6, <1>7, <1>8, <1>9, <1>11, AddBig
<1>13. Used(new, bg \union {b}) = Y
  BY <1>1, <1>10, <1>12
<1> QED
  BY <1>6, <1>12, <1>13 DEF HeapOK

\* A heap with another list.
LEMMA OtherList ==
  ASSUME NEW h, h \in Heaps, NEW s, s \in Slob, NEW g, g = [h EXCEPT !.slob = s]
  PROVE  g \in Heaps /\ g.pmm = h.pmm /\ g.held = h.held /\ g.slob = s
<1>1. PICK m, sl, hd, l, o : m = h.pmm /\ sl = h.slob /\ hd = h.held /\ l = h.at /\ o = h.ok
  OBVIOUS
<1>2. /\ h = [pmm |-> h.pmm, slob |-> h.slob, held |-> h.held, at |-> h.at, ok |-> h.ok]
      /\ m \in Pmm /\ hd \in [User -> Block] /\ l \in Node /\ o \in BOOLEAN
  BY <1>1 DEF Heaps
<1>3. h = [pmm |-> m, slob |-> sl, held |-> hd, at |-> l, ok |-> o]
  BY <1>1, <1>2
<1>4. g = [pmm |-> m, slob |-> s, held |-> hd, at |-> l, ok |-> o]
  BY <1>3
<1> QED
  BY <1>1, <1>2, <1>4 DEF Heaps

\* Units that go back leave a list.
LEMMA BackInList ==
  ASSUME NEW h, NEW bg, NEW X, GoodHeap(h, bg, X), NEW a \in Addr, NEW u \in Nat, u >= 1, a + u <= UNITS,
         From(a, u) \subseteq X
  PROVE  SlobFree(h.slob, a, u) \in Slob
<1>1. PICK K, S : K = SlobUnits(h.held, bg) \ X /\ Cells(h.slob, S, K)
  BY DEF GoodHeap
<1>2. From(a, u) \intersect K = {}
  BY <1>1
<1>3. PICK T : Cells(SlobFree(h.slob, a, u), T, K \union From(a, u))
  BY <1>1, <1>2, FreeCells
<1> QED
  BY <1>3 DEF Cells, SlobList

\* A big request without pages: the bigblock_t goes back.
LEMMA BigGoesBack ==
  ASSUME NEW h, NEW gt, NEW bg, HeapOK(h, gt, bg), h.ok = TRUE, NEW node, node = SlobAlloc(h, BIGBLOCK), node.ok = TRUE,
         NEW g, g = [node EXCEPT !.slob = SlobFree(@, node.at, NODE)]
  PROVE  HeapOK(g, gt, bg)
<1>1. PICK X, N : X = Used(gt, bg) /\ N = From(node.at, NODE)
  OBVIOUS
<1>2. GoodHeap(h, bg, X) /\ Pieces(gt, bg)
  BY <1>1 DEF HeapOK
<1>3. /\ GoodHeap(node, bg, X \union N) /\ N \intersect X = {}
      /\ node.at \in Addr /\ node.at + NODE <= UNITS /\ NODE \in Nat /\ NODE >= 1
  BY <1>1, <1>2, NodeGives
<1>4. PICK a, s : a = node.at /\ s = SlobFree(node.slob, a, NODE)
  OBVIOUS
<1>5. From(a, NODE) \subseteq X \union N /\ a \in Addr /\ a + NODE <= UNITS
  BY <1>1, <1>3, <1>4
<1>6. s \in Slob
  BY <1>3, <1>4, <1>5, BackInList
<1>7. g = [node EXCEPT !.slob = s] /\ node \in Heaps
  BY <1>3, <1>4 DEF GoodHeap
<1>8. g \in Heaps /\ g.pmm = node.pmm /\ g.held = node.held /\ g.slob = SlobFree(node.slob, a, NODE)
  BY <1>4, <1>6, <1>7, OtherList
<1>9. GoodHeap(g, bg, (X \union N) \ From(a, NODE))
  BY <1>3, <1>5, <1>8, GoesBack
<1>10. (X \union N) \ From(a, NODE) = X
  BY <1>1, <1>3, <1>4
<1> QED
  BY <1>1, <1>2, <1>9, <1>10 DEF HeapOK

\* The heap a request begins with.
MakeHeap(m, s, hd) == [pmm |-> m, slob |-> s, held |-> hd, at |-> ARENA, ok |-> TRUE]

\* A heap has the fields it is made of.
LEMMA Made ==
  ASSUME NEW m, m \in Pmm, NEW s, s \in Slob, NEW hd, hd \in [User -> Block], NEW g, g = MakeHeap(m, s, hd)
  PROVE  g \in Heaps /\ g.pmm = m /\ g.slob = s /\ g.held = hd
<1>1. ARENA \in Node
  BY DEF Node
<1> QED
  BY <1>1 DEF MakeHeap, Heaps

\* What a request leaves is what the next one begins with.
LEMMA Remade ==
  ASSUME NEW h, NEW gt, NEW bg, HeapOK(h, gt, bg), NEW g, g = MakeHeap(h.pmm, h.slob, h.held)
  PROVE  HeapOK(g, gt, bg)
<1>1. GoodHeap(h, bg, Used(gt, bg)) /\ Pieces(gt, bg)
  BY DEF HeapOK
<1>2. h.pmm \in Pmm /\ h.slob \in Slob /\ h.held \in [User -> Block]
  BY <1>1 DEF GoodHeap, Heaps
<1>3. g \in Heaps /\ g.pmm = h.pmm /\ g.slob = h.slob /\ g.held = h.held
  BY <1>2, Made
<1>4. GoodHeap(g, bg, Used(gt, bg))
  BY <1>1, <1>3, SameHeap
<1> QED
  BY <1>1, <1>4 DEF HeapOK

\* Others take or free pages.
LEMMA OthersPages ==
  ASSUME NEW h, NEW gt, NEW bg, HeapOK(h, gt, bg), NEW m, NEW hd, PagesOK(m, hd), \A p \in Page : hd[p] = h.held[p],
         NEW g, g = MakeHeap(m, h.slob, hd)
  PROVE  HeapOK(g, gt, bg)
<1>1. PICK X, S : X = Used(gt, bg) /\ Cells(h.slob, S, SlobUnits(h.held, bg) \ X)
  BY DEF HeapOK, GoodHeap
<1>2. h \in Heaps /\ HeldAt(h.held) /\ BigOK(h.held, bg) /\ X \in SUBSET SlobUnits(h.held, bg) /\ Pieces(gt, bg)
  BY <1>1 DEF HeapOK, GoodHeap
<1>3. m \in Pmm /\ h.slob \in Slob /\ hd \in [User -> Block]
  BY <1>2 DEF PagesOK, Blocks, Lists, HeldOK, Heaps
<1>4. g \in Heaps /\ g.pmm = m /\ g.slob = h.slob /\ g.held = hd
  BY <1>3, Made
<1>5. SlobUnits(hd, bg) = SlobUnits(h.held, bg) /\ BigOK(hd, bg) /\ HeldAt(hd)
  BY <1>2, SameUnits
<1>6. GoodHeap(g, bg, X)
  BY <1>1, <1>2, <1>4, <1>5 DEF GoodHeap
<1> QED
  BY <1>1, <1>2, <1>6 DEF HeapOK

\* A small block is freed.
LEMMA SmallFreed ==
  ASSUME NEW h, NEW gt, NEW bg, HeapOK(h, gt, bg), NEW c \in Caller, GivenSmall(gt[c]),
         NEW g, g = MakeHeap(h.pmm, SlobFree(h.slob, gt[c].at - 1, gt[c].units), h.held),
         NEW new, Gets(gt, c, NotGiven, new)
  PROVE  HeapOK(g, new, bg)
<1>1. PICK X, a, u, s : X = Used(gt, bg) /\ a = gt[c].at - 1 /\ u = gt[c].units /\ s = SlobFree(h.slob, a, u)
  OBVIOUS
<1>2. GoodHeap(h, bg, X) /\ Pieces(gt, bg)
  BY <1>1 DEF HeapOK
<1>3. a \in Addr /\ a + u <= UNITS /\ u \in Nat /\ u >= 1
  <2>1. gt[c] \in Kept /\ gt[c].units \in Nat
    BY <1>2 DEF Pieces, Kept
  <2>2. gt[c].units >= 2
    BY NoUnits
  <2> QED
    BY <1>1, <2>1, <2>2 DEF GivenSmall
<1>4. SmallAt(gt[c]) = From(a, u)
  BY <1>1 DEF SmallAt
<1>5. From(a, u) \subseteq X
  <2>1. \A y : y \in From(a, u) => InUse(gt, bg, y)
    BY <1>4 DEF InUse
  <2> QED
    BY <1>1, <2>1, UsedIs
<1>6. s \in Slob
  BY <1>1, <1>2, <1>3, <1>5, BackInList
<1>7. h \in Heaps /\ h.pmm \in Pmm /\ h.held \in [User -> Block] /\ g = MakeHeap(h.pmm, s, h.held)
  BY <1>1, <1>2 DEF GoodHeap, Heaps
<1>8. g \in Heaps /\ g.pmm = h.pmm /\ g.held = h.held /\ g.slob = s
  BY <1>6, <1>7, Made
<1>9. g.slob = SlobFree(h.slob, a, u)
  BY <1>1, <1>8
<1>10. GoodHeap(g, bg, X \ From(a, u))
  BY <1>2, <1>3, <1>5, <1>8, <1>9, GoesBack
<1>11. Pieces(new, bg) /\ Used(new, bg) = Used(gt, bg) \ SmallAt(gt[c])
  BY <1>2, DropSmall
<1>12. Used(new, bg) = X \ From(a, u)
  BY <1>1, <1>4, <1>11
<1> QED
  BY <1>10, <1>11, <1>12 DEF HeapOK

\* A big block is freed: its pages, then its bigblock_t.
LEMMA BigFreed ==
  ASSUME NEW h, NEW gt, NEW bg, HeapOK(h, gt, bg), NEW c \in Caller, NEW b \in bg, GivenBig(gt[c], b), gt[c] # NotGiven,
         NEW p \in Page, b.pages = PageAt(p), NEW m, NEW hd, hd = [h.held EXCEPT ![p] = NoBlock], PagesOK(m, hd),
         NEW g, g = MakeHeap(m, SlobFree(h.slob, b.node, NODE), hd), NEW new, Gets(gt, c, NotGiven, new)
  PROVE  HeapOK(g, new, bg \ {b})
<1>1. PICK X, S, a, s, U0 : /\ X = Used(gt, bg) /\ U0 = SlobUnits(h.held, bg) /\ Cells(h.slob, S, U0 \ X)
                            /\ a = b.node /\ s = SlobFree(h.slob, a, NODE)
  BY DEF HeapOK, GoodHeap
<1>2. GoodHeap(h, bg, X) /\ Pieces(gt, bg)
  BY <1>1 DEF HeapOK
<1>3. /\ h \in Heaps /\ HeldOK(h.held) /\ HeldAt(h.held) /\ BigOK(h.held, bg) /\ X \in SUBSET U0
      /\ h.held \in [User -> Block] /\ h.slob \in Slob
  BY <1>1, <1>2 DEF GoodHeap, PagesOK, Heaps
<1>4. SlobUnits(hd, bg \ {b}) = U0 /\ BigOK(hd, bg \ {b})
  BY <1>1, <1>3, BigShrunk
<1>5. HeldAt(hd)
  <2>1. p \in User
    BY KmallocAssumption
  <2>2. \A q \in Page : hd[q] = IF q = p THEN NoBlock ELSE h.held[q]
    BY <1>3, <2>1, KmallocAssumption
  <2> QED
    BY <1>3, <2>2 DEF HeldAt
<1>6. m \in Pmm /\ hd \in [User -> Block]
  BY DEF PagesOK, Blocks, Lists, HeldOK
<1>7. PICK h2 : h2 = MakeHeap(m, h.slob, hd)
  OBVIOUS
<1>8. h2 \in Heaps /\ h2.pmm = m /\ h2.slob = h.slob /\ h2.held = hd
  BY <1>3, <1>6, <1>7, Made
<1>9. PICK rest : rest = bg \ {b}
  OBVIOUS
<1>10. GoodHeap(h2, rest, X)
  BY <1>1, <1>3, <1>4, <1>5, <1>8, <1>9 DEF GoodHeap
<1>11. a \in Addr /\ a + NODE <= UNITS /\ NODE \in Nat /\ NODE >= 1
  <2>1. b.node \in Addr /\ b.node + NODE <= UNITS
    BY <1>2 DEF Pieces
  <2>2. NODE \in Nat /\ NODE >= 2
    BY SizesInUnits DEF NODE
  <2> QED
    BY <1>1, <2>1, <2>2
<1>12. NodeAt(b) = From(a, NODE)
  BY <1>1 DEF NodeAt
<1>13. From(a, NODE) \subseteq X
  <2>1. \A y : y \in From(a, NODE) => InUse(gt, bg, y)
    BY <1>12 DEF InUse
  <2> QED
    BY <1>1, <2>1, UsedIs
<1>14. s \in Slob
  <2>1. SlobFree(h2.slob, a, NODE) \in Slob
    BY <1>10, <1>11, <1>13, BackInList
  <2> QED
    BY <1>1, <1>8, <2>1
<1>15. g = MakeHeap(m, s, hd)
  BY <1>1
<1>16. g \in Heaps /\ g.pmm = h2.pmm /\ g.held = h2.held /\ g.slob = s
  BY <1>6, <1>8, <1>14, <1>15, Made
<1>17. g.slob = SlobFree(h2.slob, a, NODE)
  BY <1>1, <1>8, <1>16
<1>18. GoodHeap(g, rest, X \ From(a, NODE))
  BY <1>10, <1>11, <1>13, <1>16, <1>17, GoesBack
<1>19. Pieces(new, bg \ {b}) /\ Used(new, bg \ {b}) = Used(gt, bg) \ NodeAt(b)
  <2>1. Left(gt, bg, new, bg \ {b}, NodeAt(b))
    BY <1>2, DropBig
  <2> QED
    BY <2>1 DEF Left
<1>20. Used(new, bg \ {b}) = X \ From(a, NODE)
  BY <1>1, <1>12, <1>19
<1> QED
  BY <1>9, <1>18, <1>19, <1>20 DEF HeapOK

(***************************************************************************)
(* The specification                                                       *)
(***************************************************************************)
\* Until a block is freed above all free blocks, pages, units and callers agree.
HeapInv == PoolOK /\ (~Tailed => HeapOK(Heap, got, big))

\* After kmalloc_init nothing is taken.
LEMMA StartsRight == ASSUME HeapStart PROVE HeapInv
<1>1. PoolOK /\ tail = 0
  BY StartPool DEF HeapStart, Start
<1>2. PagesOK(pmm, held)
  BY <1>1 DEF PoolOK, Tailed
<1>3. /\ slob = [nxt |-> [a \in Node |-> ARENA], units |-> [a \in Node |-> IF a = ARENA THEN 1 ELSE 0],
                 slobfree |-> ARENA]
      /\ big = {} /\ got = [c \in Caller |-> NotGiven] /\ held = [u \in User |-> NoBlock]
  BY DEF HeapStart, Start
<1>4. ARENA \in Node /\ ARENA = -2 /\ ARENA \notin Addr
  BY Nodes DEF Node, ARENA
<1>5. PICK nx, un : /\ nx = [a \in Node |-> ARENA] /\ un = [a \in Node |-> IF a = ARENA THEN 1 ELSE 0]
                    /\ slob = [nxt |-> nx, units |-> un, slobfree |-> ARENA]
  BY <1>3
<1>6. nx \in [Node -> Node] /\ un \in [Node -> Int] /\ nx[ARENA] = ARENA /\ un[ARENA] = 1
  BY <1>4, <1>5
<1>7. slob \in Slob /\ slob.nxt = nx /\ slob.units = un /\ slob.slobfree = ARENA
  BY <1>4, <1>5, <1>6 DEF Slob
<1>8. SlobList(slob, {})
  BY <1>4, <1>6, <1>7 DEF SlobList, Ring
<1>9. Cells(slob, {}, {})
  BY <1>6, <1>7, <1>8 DEF Cells
<1>10. \A p \in Page : held[p] = NoBlock
  BY <1>3, KmallocAssumption
<1>11. HeldAt(held) /\ BigOK(held, big) /\ SlobUnits(held, big) = {}
  BY <1>3, <1>10 DEF HeldAt, BigOK, SlobUnits, SlobPages
<1>12. \A c \in Caller : got[c] = NotGiven /\ SmallAt(got[c]) = {}
  BY <1>3, NoUnits
<1>13. Pieces(got, big)
  <2>1. got \in [Caller -> Kept]
    BY <1>3, NoUnits
  <2> QED
    BY <1>3, <1>12, <2>1 DEF Pieces
<1>14. Used(got, big) = {}
  <2>1. \A a : ~InUse(got, big, a)
    BY <1>3, <1>12 DEF InUse
  <2> QED
    BY <2>1, UsedIs
<1>15. PICK h : h = MakeHeap(pmm, slob, held)
  OBVIOUS
<1>16. h \in Heaps /\ h.pmm = pmm /\ h.slob = slob /\ h.held = held
  <2>1. pmm \in Pmm /\ held \in [User -> Block]
    BY <1>2 DEF PagesOK, Blocks, Lists, HeldOK
  <2> QED
    BY <1>7, <1>15, <2>1, Made
<1>17. GoodHeap(h, big, {})
  <2>1. SlobUnits(h.held, big) \ {} = {}
    BY <1>11, <1>16
  <2>2. Cells(h.slob, {}, SlobUnits(h.held, big) \ {})
    BY <1>9, <1>16, <2>1
  <2> QED
    BY <1>2, <1>11, <1>16, <2>2 DEF GoodHeap
<1>18. HeapOK(h, got, big)
  BY <1>13, <1>14, <1>17 DEF HeapOK
<1>19. Heap = h
  BY <1>15 DEF Heap, MakeHeap
<1> QED
  BY <1>1, <1>18, <1>19 DEF HeapInv

\* The heap of a state, and what it says.
LEMMA HeapIs ==
  ASSUME HeapInv, ~Tailed
  PROVE  /\ HeapOK(Heap, got, big) /\ Heap = MakeHeap(pmm, slob, held) /\ Heap \in Heaps
         /\ Heap.pmm = pmm /\ Heap.slob = slob /\ Heap.held = held /\ Heap.ok = TRUE
         /\ PagesOK(pmm, held) /\ got \in [Caller -> Kept]
<1>1. Heap = MakeHeap(pmm, slob, held) /\ Heap.pmm = pmm /\ Heap.slob = slob /\ Heap.held = held /\ Heap.ok = TRUE
  BY DEF Heap, MakeHeap
<1> QED
  BY <1>1 DEF HeapInv, HeapOK, GoodHeap, Pieces, PoolOK

\* Others take pages.
LEMMA OthersAlloc ==
  ASSUME HeapInv, NEW u \in Direct, NEW n \in Sizes, Alloc(u, n), UNCHANGED heap
  PROVE  HeapInv'
<1>1. u \in User /\ \A p \in Page : p \in User /\ p # u
  BY KmallocAssumption
<1>2. PoolOK' /\ (~Tailed' => ~Tailed)
  BY <1>1, AllocPool, Tails DEF HeapInv, Alloc
<1>3. ASSUME ~Tailed' PROVE HeapOK(MakeHeap(pmm', slob', held'), got', big')
  <2>1. PICK h : h = Heap
    OBVIOUS
  <2>2. /\ HeapOK(h, got, big) /\ h.slob = slob /\ h.held = held /\ PagesOK(pmm', held')
        /\ slob' = slob /\ got' = got /\ big' = big
    BY <1>2, <1>3, <2>1, HeapIs DEF heap, PoolOK
  <2>3. held' = held \/ \E page : held' = [held EXCEPT ![u] = [base |-> page, n |-> n]]
    BY DEF Alloc, Halts
  <2>4. \A p \in Page : held'[p] = h.held[p]
    <3>1. held \in [User -> Block]
      BY <1>2, <1>3, HeapIs DEF PagesOK, HeldOK
    <3> QED
      BY <1>1, <2>2, <2>3, <3>1
  <2>5. PICK m, hd, g : m = pmm' /\ hd = held' /\ g = MakeHeap(m, h.slob, hd)
    OBVIOUS
  <2>6. HeapOK(g, got, big)
    BY <2>2, <2>4, <2>5, OthersPages
  <2> QED
    BY <2>2, <2>5, <2>6
<1> QED
  BY <1>2, <1>3 DEF HeapInv, Heap, MakeHeap

\* Others free pages.
LEMMA OthersFree ==
  ASSUME HeapInv, NEW u \in Direct, Free(u), UNCHANGED heap
  PROVE  HeapInv'
<1>1. u \in User /\ \A p \in Page : p \in User /\ p # u
  BY KmallocAssumption
<1>2. PoolOK' /\ (~Tailed' => ~Tailed)
  BY <1>1, FreePool, Tails DEF HeapInv, Free
<1>3. ASSUME ~Tailed' PROVE HeapOK(MakeHeap(pmm', slob', held'), got', big')
  <2>1. PICK h : h = Heap
    OBVIOUS
  <2>2. /\ HeapOK(h, got, big) /\ h.slob = slob /\ h.held = held /\ PagesOK(pmm', held')
        /\ slob' = slob /\ got' = got /\ big' = big
    BY <1>2, <1>3, <2>1, HeapIs DEF heap, PoolOK
  <2>3. held' = held \/ held' = [held EXCEPT ![u] = NoBlock]
    BY DEF Free, Halts
  <2>4. \A p \in Page : held'[p] = h.held[p]
    <3>1. held \in [User -> Block]
      BY <1>2, <1>3, HeapIs DEF PagesOK, HeldOK
    <3> QED
      BY <1>1, <2>2, <2>3, <3>1
  <2>5. PICK m, hd, g : m = pmm' /\ hd = held' /\ g = MakeHeap(m, h.slob, hd)
    OBVIOUS
  <2>6. HeapOK(g, got, big)
    BY <2>2, <2>4, <2>5, OthersPages
  <2> QED
    BY <2>2, <2>5, <2>6
<1> QED
  BY <1>2, <1>3 DEF HeapInv, Heap, MakeHeap

\* What kmalloc leaves is right when the heap it made is.
LEMMA KmallocLeaves ==
  ASSUME ~Tailed, Counts(FALSE), halt' \notin {"search", "PageProperty"},
         NEW h, HeapOK(h, got', big'), pmm' = h.pmm, slob' = h.slob, held' = h.held
  PROVE  HeapInv'
<1>1. PICK g : g = MakeHeap(h.pmm, h.slob, h.held)
  OBVIOUS
<1>2. HeapOK(g, got', big')
  BY <1>1, Remade
<1>3. Heap' = g
  BY <1>1 DEF Heap, MakeHeap
<1>4. PagesOK(pmm', held')
  BY DEF HeapOK, GoodHeap
<1>5. tail' \in Nat
  BY DEF Counts
<1>6. PoolOK'
  BY <1>4, <1>5 DEF PoolOK
<1> QED
  BY <1>2, <1>3, <1>6 DEF HeapInv

\* kmalloc of a small block keeps HeapInv.
LEMMA SmallStep ==
  ASSUME HeapInv, ~Tailed, halt = "none", Counts(FALSE), NEW c \in Caller, got[c] = NotGiven, NEW size \in Requests,
         KmallocSmall(c, size)
  PROVE  HeapInv'
<1>1. PICK h, g : h = Heap /\ g = SlobAlloc(h, size + SLOB_UNIT)
  OBVIOUS
<1>2. HeapOK(h, got, big) /\ h.ok = TRUE /\ h \in Heaps
  BY <1>1, HeapIs
<1>3. g.ok \in BOOLEAN
  BY <1>1, <1>2, SlobAllocSays
<1>4. /\ Small(size) /\ g.ok = TRUE /\ pmm' = g.pmm /\ slob' = g.slob /\ held' = g.held
      /\ got' = [got EXCEPT ![c] = [at |-> g.at + 1, size |-> size, units |-> SLOB_UNITS(size + SLOB_UNIT)]]
      /\ big' = big /\ halt' = "none"
  BY <1>1, <1>3 DEF KmallocSmall, Becomes
<1>5. PICK x, new : x = [at |-> g.at + 1, size |-> size, units |-> SLOB_UNITS(size + SLOB_UNIT)] /\ new = got'
  OBVIOUS
<1>6. Gets(got, c, x, new)
  BY <1>4, <1>5 DEF Gets
<1>7. HeapOK(g, new, big)
  BY <1>1, <1>2, <1>4, <1>5, <1>6, SmallGives
<1>8. HeapOK(g, got', big')
  BY <1>4, <1>5, <1>7
<1> QED
  BY <1>4, <1>8, KmallocLeaves

\* kmalloc of whole pages keeps HeapInv, whether the pages or the bigblock_t run out or not.
LEMMA BigStep ==
  ASSUME HeapInv, ~Tailed, halt = "none", Counts(FALSE), NEW c \in Caller, got[c] = NotGiven, NEW size \in Requests,
         KmallocBig(c, size)
  PROVE  HeapInv'
<1>1. PICK h, node, n, g : /\ h = Heap /\ node = SlobAlloc(h, BIGBLOCK) /\ n = Shifted[FindOrder(size)]
                           /\ g = GetPages(node, n)
  OBVIOUS
<1>2. HeapOK(h, got, big) /\ h.ok = TRUE /\ h \in Heaps
  BY <1>1, HeapIs
<1>3. node.ok \in BOOLEAN
  BY <1>1, <1>2, SlobAllocSays
<1>4. ~Small(size) /\ node.ok = TRUE /\ halt' = "none"
  BY <1>1, <1>3 DEF KmallocBig
<1>5. node \in Heaps
  <2>1. GoodHeap(h, big, Used(got, big))
    BY <1>2 DEF HeapOK
  <2>2. GoodHeap(node, big, Used(got, big) \union From(node.at, NODE))
    BY <1>1, <1>2, <1>4, <2>1, NodeGives
  <2> QED
    BY <2>2 DEF GoodHeap
<1>6. g.ok \in BOOLEAN
  BY <1>1, <1>5, GetPagesSays
<1>7. CASE g.ok = TRUE
  <2>1. /\ pmm' = g.pmm /\ slob' = g.slob /\ held' = g.held
        /\ big' = big \union {[pages |-> g.at, n |-> n, node |-> node.at]}
        /\ got' = [got EXCEPT ![c] = [at |-> g.at, size |-> size, units |-> 0]]
    BY <1>1, <1>7 DEF KmallocBig, Becomes
  <2>2. PICK b, x, new : /\ b = [pages |-> g.at, n |-> n, node |-> node.at]
                         /\ x = [at |-> g.at, size |-> size, units |-> 0] /\ new = got'
    OBVIOUS
  <2>3. Gets(got, c, x, new) /\ b.pages = g.at /\ b.n = n /\ b.node = node.at
    BY <2>1, <2>2 DEF Gets
  <2>4. HeapOK(g, new, big \union {b})
    BY <1>1, <1>2, <1>4, <1>7, <2>2, <2>3, BigGives, ZenonT(60)
  <2>5. HeapOK(g, got', big')
    BY <2>1, <2>2, <2>4
  <2> QED
    BY <1>4, <2>1, <2>5, KmallocLeaves
<1>8. CASE g.ok = FALSE
  <2>1. PICK back : back = [node EXCEPT !.slob = SlobFree(@, node.at, NODE)]
    OBVIOUS
  <2>2. pmm' = back.pmm /\ slob' = back.slob /\ held' = back.held /\ big' = big /\ got' = got
    BY <1>1, <1>8, <2>1 DEF KmallocBig, Becomes, NODE
  <2>3. HeapOK(back, got, big)
    BY <1>1, <1>2, <1>4, <2>1, BigGoesBack
  <2>4. HeapOK(back, got', big')
    BY <2>2, <2>3
  <2> QED
    BY <1>4, <2>2, <2>4, KmallocLeaves
<1> QED
  BY <1>6, <1>7, <1>8

\* kmalloc that stops at the assertion of slob_alloc changes no block.
LEMMA RefusedStep ==
  ASSUME HeapInv, ~Tailed, Counts(FALSE), NEW c \in Caller, NEW size \in Requests, KmallocRefused(c, size)
  PROVE  HeapInv'
<1>1. HeapOK(Heap, got, big) /\ Heap.pmm = pmm /\ Heap.slob = slob /\ Heap.held = held
  BY HeapIs
<1>2. pmm' = pmm /\ slob' = slob /\ held' = held /\ got' = got /\ big' = big /\ halt' = "slob_alloc"
  BY DEF KmallocRefused, heap
<1>3. PICK h : h = Heap
  OBVIOUS
<1>4. HeapOK(h, got', big') /\ pmm' = h.pmm /\ slob' = h.slob /\ held' = h.held
  BY <1>1, <1>2, <1>3
<1> QED
  BY <1>2, <1>4, KmallocLeaves

\* Every way through kmalloc keeps HeapInv.
LEMMA KmallocStep == ASSUME HeapInv, NEW c \in Caller, NEW size \in Requests, Kmalloc(c, size) PROVE HeapInv'
<1>1. halt = "none" /\ ~Tailed /\ got[c] = NotGiven /\ Counts(FALSE)
  BY DEF Kmalloc
<1>2. KmallocSmall(c, size) \/ KmallocRefused(c, size) \/ KmallocBig(c, size)
  BY DEF Kmalloc
<1> QED
  BY <1>1, <1>2, SmallStep, RefusedStep, BigStep

\* Every way through kfree keeps HeapInv.
LEMMA KfreeStep == ASSUME HeapInv, NEW c \in Caller, Kfree(c) PROVE HeapInv'
<1>1. halt = "none" /\ ~Tailed /\ got[c] # NotGiven
  BY DEF Kfree
<1>2. PICK h : h = Heap
  OBVIOUS
<1>3. /\ HeapOK(h, got, big) /\ h.pmm = pmm /\ h.slob = slob /\ h.held = held
      /\ PagesOK(pmm, held) /\ Pieces(got, big) /\ GoodHeap(h, big, Used(got, big))
  BY <1>1, <1>2, HeapIs DEF HeapOK
<1>4. ASSUME NEW b \in big, b.pages = got[c].at, Free(got[c].at \div UnitsPerPage),
             IF halt' # "none" THEN UNCHANGED heap
             ELSE /\ slob' = SlobFree(slob, b.node, SLOB_UNITS(BIGBLOCK))
                  /\ big' = big \ {b}
                  /\ got' = [got EXCEPT ![c] = NotGiven]
      PROVE  HeapInv'
  <2>1. PICK p \in Page : b.pages = PageAt(p)
    BY <1>3 DEF GoodHeap, BigOK
  <2>2. got[c].at \div UnitsPerPage = p
    <3>1. p \in Nat /\ 1 \in Nat
      BY Numbers
    <3>2. PageAt(p) \in Nat
      BY <3>1, UnitNumbers DEF PageAt
    <3>3. PageAt(p) \div UnitsPerPage = p
      BY <3>1, <3>2, UnitIn
    <3> QED
      BY <1>4, <2>1, <3>3
  <2>3. p \in User /\ Free(p)
    BY <1>4, <2>2, KmallocAssumption
  <2>4. PoolOK' /\ (~Tailed' => halt' = "none")
    BY <2>3, FreePool DEF HeapInv
  <2>5. ASSUME ~Tailed' PROVE HeapOK(MakeHeap(pmm', slob', held'), got', big')
    <3>1. halt' = "none" /\ PagesOK(pmm', held')
      BY <2>4, <2>5 DEF PoolOK
    <3>2. held' = [held EXCEPT ![p] = NoBlock]
      BY <2>3, <3>1 DEF Free, Halts
    <3>3. slob' = SlobFree(slob, b.node, NODE) /\ big' = big \ {b} /\ got' = [got EXCEPT ![c] = NotGiven]
      BY <1>4, <3>1 DEF NODE
    <3>4. GivenBig(got[c], b)
      <4>1. ~GivenSmall(got[c])
        BY <1>3, <1>4, SmallIsSmall
      <4>2. PICK e \in big : GivenBig(got[c], e)
        BY <1>1, <1>3, <4>1 DEF Pieces
      <4>3. e.pages = b.pages
        BY <1>4, <4>2 DEF GivenBig
      <4>4. e = b
        BY <1>3, <4>3 DEF GoodHeap, BigOK
      <4> QED
        BY <4>2, <4>4
    <3>5. PICK m, hd, s, new, g : /\ m = pmm' /\ hd = held' /\ s = SlobFree(h.slob, b.node, NODE) /\ new = got'
                                  /\ g = MakeHeap(m, s, hd)
      OBVIOUS
    <3>6. Gets(got, c, NotGiven, new) /\ hd = [h.held EXCEPT ![p] = NoBlock] /\ PagesOK(m, hd)
      BY <1>3, <3>1, <3>2, <3>3, <3>5 DEF Gets
    <3>7. HeapOK(g, new, big \ {b})
      BY <1>1, <1>3, <2>1, <3>4, <3>5, <3>6, BigFreed
    <3> QED
      BY <1>3, <3>3, <3>5, <3>7
  <2> QED
    BY <2>4, <2>5 DEF HeapInv, Heap, MakeHeap
<1>5. ASSUME \A b \in big : b.pages # got[c].at, Counts(FALSE),
             slob' = SlobFree(slob, got[c].at - 1, got[c].units), got' = [got EXCEPT ![c] = NotGiven],
             UNCHANGED <<pmm, held, big, fit, halt>>
      PROVE  HeapInv'
  <2>1. GivenSmall(got[c])
    <3>1. ~\E b \in big : GivenBig(got[c], b)
      BY <1>5 DEF GivenBig
    <3> QED
      BY <1>1, <1>3, <3>1 DEF Pieces
  <2>2. PICK s, new, g : /\ s = SlobFree(h.slob, got[c].at - 1, got[c].units) /\ new = got'
                         /\ g = MakeHeap(h.pmm, s, h.held)
    OBVIOUS
  <2>3. Gets(got, c, NotGiven, new)
    BY <1>5, <2>2 DEF Gets
  <2>4. HeapOK(g, new, big)
    BY <1>3, <2>1, <2>2, <2>3, SmallFreed
  <2>5. HeapOK(g, got', big') /\ pmm' = g.pmm /\ slob' = g.slob /\ held' = g.held /\ halt' = "none"
    BY <1>1, <1>3, <1>5, <2>2, <2>4 DEF MakeHeap
  <2> QED
    BY <1>1, <1>5, <2>5, KmallocLeaves
<1> QED
  BY <1>4, <1>5 DEF Kfree

\* Every step keeps the heap right.
LEMMA HeapSteps == HeapSpec => []HeapInv
<1>1. HeapInv /\ [HeapNext]_<<vars, heap>> => HeapInv'
  <2> SUFFICES ASSUME HeapInv, [HeapNext]_<<vars, heap>> PROVE HeapInv'
    OBVIOUS
  <2>1. ASSUME NEW u \in Direct, Free(u), UNCHANGED heap PROVE HeapInv'
    BY <2>1, OthersFree
  <2>2. ASSUME NEW u \in Direct, NEW n \in Sizes, Alloc(u, n), UNCHANGED heap PROVE HeapInv'
    BY <2>2, OthersAlloc
  <2>3. ASSUME NEW c \in Caller, Kfree(c) PROVE HeapInv'
    BY <2>3, KfreeStep
  <2>4. ASSUME NEW c \in Caller, NEW size \in Requests, Kmalloc(c, size) PROVE HeapInv'
    BY <2>4, KmallocStep
  <2>5. CASE UNCHANGED <<vars, heap>>
    <3>1. PoolOK'
      BY <2>5 DEF vars, HeapInv, PoolOK, Tailed
    <3>2. Heap' = Heap /\ got' = got /\ big' = big /\ (Tailed' <=> Tailed)
      BY <2>5 DEF vars, heap, Heap, Tailed
    <3> QED
      BY <3>1, <3>2 DEF HeapInv
  <2> QED
    BY <2>1, <2>2, <2>3, <2>4, <2>5 DEF HeapNext
<1> QED
  BY <1>1, StartsRight, PTL DEF HeapSpec

\* The pages that kmalloc takes and frees and those that others do: every page is in one
\* free block or in one held block until a block is freed above all free blocks.
THEOREM HeapPagesOnce == HeapSpec => []EveryPageOnce
<1>1. HeapInv => EveryPageOnce
  BY PageOnce DEF HeapInv
<1> QED
  BY <1>1, HeapSteps, PTL

\* With kmalloc on top alloc_pages still refuses only what no run of free pages is long
\* enough for.
THEOREM HeapPagesForWant == HeapSpec => []RefusedForWant
<1>1. HeapInv => RefusedForWant
  BY ForWant DEF HeapInv
<1> QED
  BY <1>1, HeapSteps, PTL

(***************************************************************************)
(* EveryUnitOnce                                                           *)
(***************************************************************************)
\* A set with at most one member.
LEMMA OneOrNone ==
  ASSUME NEW S, \A x, y \in S : x = y
  PROVE  Cardinality(S) = IF S = {} THEN 0 ELSE 1
<1>1. CASE S = {}
  BY <1>1, FS_EmptySet
<1>2. CASE S # {}
  <2>1. PICK x : x \in S
    BY <1>2
  <2> QED
    BY <1>2, <2>1, OnlyOne
<1> QED
  BY <1>1, <1>2

\* A walk round the list meets the blocks of it.
LEMMA BlocksMet == ASSUME NEW S, SlobList(slob, S) PROVE SlobBlocks = S
<1>1. slob \in Slob /\ ARENA \in Node /\ ARENA \in Ring(S) /\ ARENA \notin S /\ UNITS \in Nat /\ Cardinality(Node) = UNITS + 1
  <2>1. ARENA \in Node /\ ARENA \notin Addr /\ Cardinality(Node) = UNITS + 1
    BY Nodes DEF ARENA
  <2> QED
    BY <2>1, UnitNumbers DEF SlobList, Ring
<1>2. PICK at : Goes(at, slob) /\ at[0] = ARENA /\ Round(slob, ARENA) = [k \in 0 .. UNITS + 1 |-> at[k]]
  BY <1>1, RoundIs
<1>3. /\ \A k \in Nat : at[k] \in Ring(S)
      /\ \A i \in Nat : \A c \in Ring(S) : \E k \in Nat : i <= k /\ k <= i + UNITS /\ at[k] = c
  <2>1. Goes(at, slob) /\ at[0] \in Ring(S)
    BY <1>1, <1>2
  <2> QED
    BY <2>1, RingMeets
<1>4. \A k \in 1 .. UNITS + 1 : Round(slob, ARENA)[k] = at[k] /\ k \in Nat
  <2>1. \A k \in 1 .. UNITS + 1 : k \in 0 .. UNITS + 1 /\ k \in Nat
    BY <1>1
  <2> QED
    BY <1>2, <2>1
<1>5. ASSUME NEW b \in SlobBlocks PROVE b \in S
  <2>1. PICK k \in 1 .. UNITS + 1 : b = Round(slob, ARENA)[k] /\ b # ARENA
    BY <1>1 DEF SlobBlocks
  <2> QED
    BY <1>3, <1>4, <2>1 DEF Ring
<1>6. ASSUME NEW b \in S PROVE b \in SlobBlocks
  <2>1. b \in Ring(S) /\ b # ARENA /\ 1 \in Nat
    BY <1>1 DEF Ring
  <2>2. PICK k \in Nat : 1 <= k /\ k <= 1 + UNITS /\ at[k] = b
    BY <1>3, <2>1
  <2>3. k \in 1 .. UNITS + 1
    BY <1>1, <2>2
  <2>4. b = Round(slob, ARENA)[k]
    BY <1>4, <2>2, <2>3
  <2> QED
    BY <1>1, <2>1, <2>3, <2>4 DEF SlobBlocks
<1> QED
  BY <1>5, <1>6

\* The pages whose holder has the unit a, and the big blocks that have it.
Owners(hd, a) == {s \in Page : a \in From(PageAt(hd[s].base), hd[s].n * UnitsPerPage)}
BigOwners(bg, a) == {b \in bg : a \in From(b.pages, b.n * UnitsPerPage)}

\* One block of pages at most has the unit a, and either a big block is the same one or
\* a is a unit of U, which the list of SLOB took.
HeldOnce(own, inBig, a, U) ==
  /\ \A x, y \in own : x = y
  /\ \A x, y \in inBig : x = y
  /\ inBig # {} => own # {}
  /\ a \in Addr => ((own # {} /\ inBig = {}) <=> a \in U)

\* The page of a unit is held, by a big block or by the list.
LEMMA UnitHeld ==
  ASSUME NEW hd, HeldOK(hd), HeldAt(hd), NEW bg, BigOK(hd, bg), NEW a \in Nat,
         NEW own, own = Owners(hd, a), NEW inBig, inBig = BigOwners(bg, a)
  PROVE  HeldOnce(own, inBig, a, SlobUnits(hd, bg))
<1>1. /\ own = {s \in Page : a \in From(PageAt(hd[s].base), hd[s].n * UnitsPerPage)}
      /\ inBig = {b \in bg : a \in From(b.pages, b.n * UnitsPerPage)}
  BY DEF Owners, BigOwners
<1>2. PICK i : i = a \div UnitsPerPage
  OBVIOUS
<1>3. UnitsPerPage \in Nat /\ a \in Nat
  BY UnitNumbers
<1>4. \A s \in Page : s \in User /\ s \in Nat
  BY KmallocAssumption, Numbers
<1>5. ASSUME NEW s \in Page PROVE s \in own <=> i \in Extent(hd[s])
  <2>1. PICK d, n : d = hd[s].base /\ n = hd[s].n
    OBVIOUS
  <2>2. d \in Nat /\ n \in Nat
    <3>1. hd[s] \in Block
      BY <1>4 DEF HeldOK
    <3>2. \A l \in Link : l \in Nat
      BY Numbers
    <3> QED
      BY <2>1, <3>1, <3>2 DEF Block
  <2>3. a \in From(PageAt(d), n * UnitsPerPage) <=> i \in d .. d + n - 1
    BY <1>2, <1>3, <2>2, UnitIn
  <2> QED
    BY <1>1, <2>1, <2>3 DEF Extent
<1>6. own \subseteq Page
  BY <1>1
<1>7. \A x, y \in own : x = y
  BY <1>4, <1>5, <1>6, ExtentIs
<1>8. ASSUME NEW b \in bg, NEW p \in Page, b.pages = PageAt(p), hd[p] # NoBlock, hd[p].n = b.n
      PROVE  b \in inBig <=> i \in Extent(hd[p])
  <2>1. PICK n : n = b.n
    OBVIOUS
  <2>2. n \in Nat /\ hd[p].base = p /\ p \in Nat
    BY <1>4, <1>8, <2>1, ExtentIs DEF HeldAt
  <2>3. a \in From(PageAt(p), n * UnitsPerPage) <=> i \in p .. p + n - 1
    BY <1>2, <1>3, <2>2, UnitIn
  <2>4. Extent(hd[p]) = p .. p + n - 1
    BY <1>8, <2>1, <2>2 DEF Extent
  <2> QED
    BY <1>1, <1>8, <2>1, <2>3, <2>4
<1>9. ASSUME NEW b \in inBig PROVE \E p \in Page : b \in bg /\ b.pages = PageAt(p) /\ hd[p] # NoBlock /\ i \in Extent(hd[p])
  <2>1. b \in bg
    BY <1>1
  <2>2. PICK p \in Page : b.pages = PageAt(p) /\ hd[p] # NoBlock /\ hd[p].n = b.n
    BY <2>1 DEF BigOK
  <2> QED
    BY <1>8, <2>1, <2>2
<1>10. ASSUME NEW x \in inBig, NEW y \in inBig PROVE x = y
  <2>1. PICK p \in Page : x \in bg /\ x.pages = PageAt(p) /\ i \in Extent(hd[p])
    BY <1>9
  <2>2. PICK q \in Page : y \in bg /\ y.pages = PageAt(q) /\ i \in Extent(hd[q])
    BY <1>9
  <2>3. p = q
    BY <1>5, <1>7, <2>1, <2>2
  <2> QED
    BY <2>1, <2>2, <2>3 DEF BigOK
<1>11. inBig # {} => own # {}
  <2> SUFFICES ASSUME NEW b \in inBig PROVE own # {}
    OBVIOUS
  <2> QED
    BY <1>5, <1>9
<1>12. ASSUME a \in Addr, own # {}, inBig = {} PROVE a \in SlobUnits(hd, bg)
  <2>1. PICK s \in Page : s \in own /\ i \in Extent(hd[s])
    BY <1>5, <1>6, <1>12
  <2>2. hd[s] # NoBlock
    BY <2>1, NoBlockIs
  <2>3. ASSUME NEW b \in bg PROVE b.pages # PageAt(s)
    <3>1. PICK p \in Page : b.pages = PageAt(p) /\ hd[p] # NoBlock /\ hd[p].n = b.n
      BY DEF BigOK
    <3>2. i \notin Extent(hd[p])
      BY <1>8, <1>12, <3>1
    <3> QED
      BY <2>1, <3>1, <3>2, PagesDiffer
  <2>4. s \in SlobPages(hd, bg)
    BY <2>2, <2>3 DEF SlobPages
  <2> QED
    BY <1>2, <1>12, <2>1, <2>4 DEF SlobUnits
<1>13. ASSUME a \in SlobUnits(hd, bg) PROVE own # {} /\ inBig = {}
  <2>1. PICK s \in SlobPages(hd, bg) : i \in Extent(hd[s])
    BY <1>2, <1>13 DEF SlobUnits
  <2>2. s \in Page /\ \A b \in bg : b.pages # PageAt(s)
    BY <2>1 DEF SlobPages
  <2>3. s \in own
    BY <1>5, <2>1, <2>2
  <2>4. ASSUME NEW b \in inBig PROVE FALSE
    <3>1. PICK p \in Page : b \in bg /\ b.pages = PageAt(p) /\ i \in Extent(hd[p])
      BY <1>9
    <3>2. p \in own
      BY <1>5, <3>1
    <3>3. p = s
      BY <1>7, <2>3, <3>2
    <3> QED
      BY <2>2, <3>1, <3>3
  <2> QED
    BY <2>3, <2>4
<1> QED
  BY <1>7, <1>10, <1>11, <1>12, <1>13 DEF HeldOnce

\* The free blocks, the small blocks and the bigblock_ts that have the unit a.
FreeWith(a) == {b \in SlobBlocks : a \in From(b, slob.units[b])}
SmallWith(a) == {c \in Caller : got[c].units > 0 /\ a \in From(got[c].at - 1, got[c].units)}
NodesWith(a) == {b \in big : a \in From(b.node, SLOB_UNITS(BIGBLOCK))}

\* The units of the list are those of its pages: none is lost and none is shared.
LEMMA UnitOnce == HeapInv => EveryUnitOnce
<1> SUFFICES ASSUME HeapInv, ~Tailed PROVE EveryUnitOnce
  BY DEF EveryUnitOnce
<1>1. PICK h, X, U0 : h = Heap /\ X = Used(got, big) /\ U0 = SlobUnits(held, big)
  OBVIOUS
<1>2. /\ GoodHeap(h, big, X) /\ Pieces(got, big) /\ h.slob = slob /\ h.held = held
  BY <1>1, HeapIs DEF HeapOK
<1>3. /\ HeldOK(held) /\ HeldAt(held) /\ BigOK(held, big) /\ X \in SUBSET U0
      /\ \E S : Cells(slob, S, U0 \ X)
  BY <1>1, <1>2 DEF GoodHeap, PagesOK
<1>4. PICK S, H : Cells(slob, S, H) /\ H = U0 \ X
  BY <1>3
<1>5. SlobBlocks = S /\ SlobList(slob, S)
  BY <1>4, BlocksMet DEF Cells
<1>6. slob.slobfree \in SlobBlocks \union {ARENA}
  BY <1>5 DEF SlobList, Ring
<1>7. \A b \in SlobBlocks : slob.nxt[b] = ARENA \/ b + slob.units[b] < slob.nxt[b]
  <2> SUFFICES ASSUME NEW b \in S, slob.nxt[b] # ARENA PROVE b + slob.units[b] < slob.nxt[b]
    BY <1>5
  <2>1. b \in Ring(S) /\ slob.nxt[b] \in Ring(S) /\ b < slob.nxt[b]
    BY <1>5 DEF SlobList, Ring
  <2>2. slob.nxt[b] \in S
    BY <2>1 DEF Ring
  <2> QED
    BY <1>4, <2>1, <2>2 DEF Cells
<1>8. ASSUME NEW a \in Addr
      PROVE  Cardinality(FreeWith(a)) + Cardinality(SmallWith(a)) + Cardinality(NodesWith(a))
             = Cardinality(Owners(held, a)) - Cardinality(BigOwners(big, a))
  <2>1. PICK own, inBig, free, given, nodes : /\ own = Owners(held, a) /\ inBig = BigOwners(big, a)
                                              /\ free = FreeWith(a) /\ given = SmallWith(a) /\ nodes = NodesWith(a)
    OBVIOUS
  <2>2. a \in Nat
    BY UnitNumbers
  <2>3. /\ \A x, y \in own : x = y
        /\ \A x, y \in inBig : x = y
        /\ inBig # {} => own # {}
        /\ (own # {} /\ inBig = {}) <=> a \in U0
    <3>1. HeldOnce(own, inBig, a, SlobUnits(held, big))
      BY <1>3, <2>1, <2>2, UnitHeld
    <3> QED
      BY <1>1, <1>8, <3>1 DEF HeldOnce
  <2>4. /\ \A x, y \in free : x = y
        /\ free # {} <=> a \in H
    <3>1. \A b \in S : b \in Nat /\ slob.units[b] \in Nat
      BY <1>4, CellTypes
    <3>2. \A b \in S : b \in free <=> InCell(slob, b, a)
      <4> SUFFICES ASSUME NEW b \in S PROVE a \in From(b, slob.units[b]) <=> InCell(slob, b, a)
        BY <1>5, <2>1 DEF FreeWith
      <4> QED
        BY <2>2, <3>1 DEF From, InCell
    <3>3. free \subseteq S
      BY <1>5, <2>1 DEF FreeWith
    <3>4. ASSUME NEW x \in free, NEW y \in free, x # y PROVE FALSE
      <4>1. x \in S /\ y \in S /\ InCell(slob, x, a) /\ InCell(slob, y, a)
        BY <3>2, <3>3
      <4>2. x < y => x + slob.units[x] < y
        BY <1>4, <4>1 DEF Cells
      <4>3. y < x => y + slob.units[y] < x
        BY <1>4, <4>1 DEF Cells
      <4> QED
        BY <2>2, <3>1, <3>4, <4>1, <4>2, <4>3 DEF InCell
    <3>5. a \in H <=> \E p \in S : InCell(slob, p, a)
      BY <1>4, <1>8 DEF Cells
    <3> QED
      BY <3>2, <3>3, <3>4, <3>5
  <2>5. \A c \in Caller : c \in given <=> a \in SmallAt(got[c])
    <3> SUFFICES ASSUME NEW c \in Caller, a \in SmallAt(got[c]) PROVE got[c].units > 0
      BY <2>1 DEF SmallAt, SmallWith
    <3>1. got[c] \in Kept
      BY <1>2 DEF Pieces
    <3>2. got[c].units # 0 /\ got[c].units \in Nat
      BY <3>1, NoUnits DEF Kept
    <3> QED
      BY <3>2
  <2>6. \A b \in big : b \in nodes <=> a \in NodeAt(b)
    BY <2>1 DEF NodeAt, NODE, NodesWith
  <2>7. given \subseteq Caller /\ nodes \subseteq big
    BY <2>1 DEF SmallWith, NodesWith
  <2>8. \A x, y \in given : x = y
    BY <1>2, <2>5, <2>7 DEF Pieces
  <2>9. \A x, y \in nodes : x = y
    BY <1>2, <2>6, <2>7 DEF Pieces
  <2>10. given = {} \/ nodes = {}
    <3> SUFFICES ASSUME NEW x \in given, NEW y \in nodes PROVE FALSE
      OBVIOUS
    <3>1. a \in SmallAt(got[x]) /\ a \in NodeAt(y) /\ x \in Caller /\ y \in big
      BY <2>5, <2>6, <2>7
    <3> QED
      BY <1>2, <3>1 DEF Pieces
  <2>11. given # {} \/ nodes # {} <=> a \in X
    <3>1. a \in X <=> InUse(got, big, a)
      BY <1>1, UsedIs
    <3> QED
      BY <2>5, <2>6, <2>7, <3>1 DEF InUse
  <2>12. a \in H <=> a \in U0 /\ a \notin X
    BY <1>4
  <2>13. a \in X => a \in U0
    BY <1>3
  <2>14. /\ Cardinality(free) = IF free = {} THEN 0 ELSE 1
         /\ Cardinality(given) = IF given = {} THEN 0 ELSE 1
         /\ Cardinality(nodes) = IF nodes = {} THEN 0 ELSE 1
    BY <2>4, <2>8, <2>9, OneOrNone
  <2>15. /\ Cardinality(own) = IF own = {} THEN 0 ELSE 1
         /\ Cardinality(inBig) = IF inBig = {} THEN 0 ELSE 1
    BY <2>3, OneOrNone
  <2>16. PICK f, g, n, o, i : /\ f = Cardinality(free) /\ g = Cardinality(given) /\ n = Cardinality(nodes)
                              /\ o = Cardinality(own) /\ i = Cardinality(inBig)
    OBVIOUS
  <2>17. CASE a \in U0
    <3>1. o = 1 /\ i = 0
      BY <2>3, <2>15, <2>16, <2>17
    <3>2. f + g + n = 1
      BY <2>4, <2>10, <2>11, <2>12, <2>14, <2>16, <2>17
    <3> QED
      BY <2>1, <2>16, <3>1, <3>2
  <2>18. CASE a \notin U0
    <3>1. o = i /\ (o = 0 \/ o = 1)
      BY <2>3, <2>15, <2>16, <2>18
    <3>2. f = 0 /\ g = 0 /\ n = 0
      BY <2>4, <2>11, <2>12, <2>13, <2>14, <2>16, <2>18
    <3> QED
      BY <2>1, <2>16, <3>1, <3>2
  <2> QED
    BY <2>17, <2>18
<1>9. \A a \in Addr :
        Cardinality({b \in SlobBlocks : a \in From(b, slob.units[b])})
        + Cardinality({c \in Caller : got[c].units > 0 /\ a \in From(got[c].at - 1, got[c].units)})
        + Cardinality({b \in big : a \in From(b.node, SLOB_UNITS(BIGBLOCK))})
        = Cardinality({s \in Page : a \in From(PageAt(held[s].base), held[s].n * UnitsPerPage)})
          - Cardinality({b \in big : a \in From(b.pages, b.n * UnitsPerPage)})
  BY <1>8 DEF FreeWith, SmallWith, NodesWith, Owners, BigOwners
<1> QED
  BY <1>6, <1>7, <1>9, Zenon DEF EveryUnitOnce

\* Until a block is freed above all free blocks every unit of a page that SLOB took is in
\* exactly one free block, one small block or one bigblock_t, the free blocks are in address
\* order and none adjoins another: slob_free and slob_alloc neither lose nor share a unit,
\* whatever is asked for and freed in whatever order.
THEOREM UnitsOnce == HeapSpec => []EveryUnitOnce
  BY UnitOnce, HeapSteps, PTL

(***************************************************************************)
(* EnoughForAll                                                            *)
(***************************************************************************)
\* find_order rounds no size down that is asked for.
WholePages == \A size \in Requests : Small(size) \/ size <= Shifted[FindOrder(size)] * PAGE_SIZE

\* The units a caller may use.
RoomOf(x) == IF x.units > 0 THEN (x.units - 1) * SLOB_UNIT ELSE Shifted[FindOrder(x.size)] * PAGE_SIZE
SpanOf(x) == From(x.at, RoomOf(x) \div SLOB_UNIT)

\* A small block has its size after the header, and nothing outside its units.
LEMMA SmallRoom ==
  ASSUME NEW x \in Kept, GivenSmall(x)
  PROVE  x.size <= RoomOf(x) /\ SpanOf(x) \subseteq SmallAt(x)
<1>1. PICK u, s, a, size : u = x.units /\ s = SLOB_UNIT /\ a = x.at /\ size = x.size
  OBVIOUS
<1>2. u \in Nat /\ u >= 2 /\ s \in Nat /\ s >= 1 /\ a \in Int /\ size \in Nat
  BY <1>1, NoUnits, UnitNumbers DEF Kept
<1>3. size \in Requests /\ u = SLOB_UNITS(size + SLOB_UNIT)
  BY <1>1 DEF GivenSmall
<1>4. size <= (u - 1) * s
  <2>1. size \in Nat /\ size >= 1
    BY <1>3, Asked
  <2>2. (SLOB_UNITS(size + SLOB_UNIT) - 1) * SLOB_UNIT >= size
    BY <2>1, SizesInUnits
  <2>3. (u - 1) * s >= size
    BY <1>1, <1>3, <2>2
  <2>4. (u - 1) * s \in Int
    BY <1>2
  <2> QED
    BY <1>2, <2>3, <2>4
<1>5. RoomOf(x) = (u - 1) * s
  BY <1>1, <1>2 DEF RoomOf
<1>6. ((u - 1) * s) \div s = u - 1
  BY <1>2
<1>7. SpanOf(x) = From(a, u - 1) /\ SmallAt(x) = From(a - 1, u)
  BY <1>1, <1>5, <1>6 DEF SpanOf, SmallAt
<1>8. From(a, u - 1) \subseteq From(a - 1, u)
  BY <1>2 DEF From
<1> QED
  BY <1>1, <1>4, <1>5, <1>7, <1>8

\* A big block has its pages.
LEMMA BigRoom ==
  ASSUME NEW x \in Kept, NEW b, GivenBig(x, b), WholePages
  PROVE  x.size <= RoomOf(x) /\ SpanOf(x) = From(b.pages, b.n * UnitsPerPage)
<1>1. PICK n, s, w : n = b.n /\ s = SLOB_UNIT /\ w = UnitsPerPage
  OBVIOUS
<1>2. x.at = b.pages /\ x.units = 0 /\ x.size \in Requests /\ ~Small(x.size) /\ n = Shifted[FindOrder(x.size)]
  BY <1>1 DEF GivenBig
<1>3. n \in Nat /\ s \in Nat /\ s >= 1 /\ w \in Nat /\ PAGE_SIZE = s * w
  <2>1. x.size \in Nat
    BY <1>2, Asked
  <2> QED
    BY <1>1, <1>2, <2>1, ShiftedIs, FindOrderIs, UnitNumbers
<1>4. RoomOf(x) = n * PAGE_SIZE
  BY <1>2 DEF RoomOf
<1>5. (n * (s * w)) \div s = n * w
  <2>1. n * (s * w) = s * (n * w) /\ n * w \in Nat
    BY <1>3
  <2>2. PICK k : k = n * w
    OBVIOUS
  <2>3. (s * k) \div s = k
    BY <1>3, <2>1, <2>2
  <2> QED
    BY <2>1, <2>2, <2>3
<1>6. SpanOf(x) = From(b.pages, n * w)
  BY <1>1, <1>2, <1>3, <1>4, <1>5 DEF SpanOf
<1>7. x.size <= RoomOf(x)
  BY <1>2, <1>4 DEF WholePages
<1> QED
  BY <1>1, <1>6, <1>7

\* Each block has room for the size asked for when HeapInv holds.
LEMMA Enough == ASSUME WholePages PROVE HeapInv => EnoughForAll
<1> SUFFICES ASSUME HeapInv, ~Tailed PROVE EnoughForAll
  BY DEF EnoughForAll
<1>1. PICK h, X, U0 : h = Heap /\ X = Used(got, big) /\ U0 = SlobUnits(held, big)
  OBVIOUS
<1>2. /\ GoodHeap(h, big, X) /\ Pieces(got, big) /\ h.held = held
  BY <1>1, HeapIs DEF HeapOK
<1>3. HeldOK(held) /\ HeldAt(held) /\ BigOK(held, big) /\ X \in SUBSET U0
  BY <1>1, <1>2 DEF GoodHeap, PagesOK
<1>4. \A c \in Caller : got[c] \in Kept
  BY <1>2 DEF Pieces
<1>5. ASSUME NEW c \in Caller, GivenSmall(got[c]), NEW a \in SpanOf(got[c])
      PROVE  a \in SmallAt(got[c]) /\ a \in U0
  <2>1. a \in SmallAt(got[c])
    BY <1>4, <1>5, SmallRoom
  <2>2. a \in X
    <3>1. InUse(got, big, a)
      BY <2>1 DEF InUse
    <3> QED
      BY <1>1, <3>1, UsedIs
  <2> QED
    BY <1>3, <2>1, <2>2
<1>6. ASSUME NEW c \in Caller, NEW b \in big, GivenBig(got[c], b), NEW a \in SpanOf(got[c])
      PROVE  a \in Nat /\ b \in BigOwners(big, a)
  <2>1. a \in From(b.pages, b.n * UnitsPerPage)
    BY <1>4, <1>6, BigRoom
  <2>2. b.pages \in Nat
    BY <1>2 DEF Pieces
  <2>3. a \in Nat
    BY <2>1, <2>2 DEF From
  <2> QED
    BY <2>1, <2>3 DEF BigOwners
<1>7. ASSUME NEW a \in Nat, NEW b \in BigOwners(big, a)
      PROVE  a \notin U0 /\ \A d \in BigOwners(big, a) : d = b
  <2>1. PICK own, inBig : own = Owners(held, a) /\ inBig = BigOwners(big, a)
    OBVIOUS
  <2>2. HeldOnce(own, inBig, a, SlobUnits(held, big))
    BY <1>3, <2>1, UnitHeld
  <2>3. \A y \in U0 : y \in Addr
    BY <1>1 DEF SlobUnits
  <2> QED
    BY <1>1, <2>1, <2>2, <2>3 DEF HeldOnce
<1>8. ASSUME NEW c \in Caller, got[c] # NotGiven
      PROVE  GivenSmall(got[c]) \/ (got[c].units = 0 /\ \E b \in big : GivenBig(got[c], b))
  BY <1>2, <1>8 DEF Pieces, GivenBig
<1>9. ASSUME NEW c \in Caller, got[c] # NotGiven PROVE got[c].size <= RoomOf(got[c])
  BY <1>4, <1>8, <1>9, SmallRoom, BigRoom
<1>10. ASSUME NEW c \in Caller, got[c] # NotGiven, NEW d \in Caller, got[d] # NotGiven, c # d,
              NEW a \in SpanOf(got[c]), a \in SpanOf(got[d])
       PROVE  FALSE
  <2>1. CASE GivenSmall(got[c]) /\ GivenSmall(got[d])
    <3>1. a \in SmallAt(got[c]) /\ a \in SmallAt(got[d])
      BY <1>5, <1>10, <2>1
    <3> QED
      BY <1>2, <1>10, <3>1 DEF Pieces
  <2>2. ASSUME NEW x \in Caller, NEW y \in Caller, GivenSmall(got[x]), NEW b \in big, GivenBig(got[y], b),
               a \in SpanOf(got[x]), a \in SpanOf(got[y])
        PROVE  FALSE
    <3>1. a \in U0
      BY <1>5, <2>2
    <3>2. a \in Nat /\ b \in BigOwners(big, a)
      BY <1>6, <2>2
    <3> QED
      BY <1>7, <3>1, <3>2
  <2>3. ASSUME NEW b \in big, GivenBig(got[c], b), NEW e \in big, GivenBig(got[d], e) PROVE FALSE
    <3>1. a \in Nat /\ b \in BigOwners(big, a) /\ e \in BigOwners(big, a)
      BY <1>6, <1>10, <2>3
    <3>2. b = e
      BY <1>7, <3>1
    <3>3. got[c].at = got[d].at /\ got[c].units = 0 /\ got[d].units = 0
      BY <2>3, <3>2 DEF GivenBig
    <3> QED
      BY <1>2, <1>10, <3>3 DEF Pieces
  <2>4. (GivenSmall(got[c]) \/ \E b \in big : GivenBig(got[c], b)) /\ (GivenSmall(got[d]) \/ \E b \in big : GivenBig(got[d], b))
    BY <1>8, <1>10
  <2> QED
    BY <1>10, <2>1, <2>2, <2>3, <2>4
<1>11. \A c \in Caller : got[c] # NotGiven =>
         /\ got[c].size <= RoomOf(got[c])
         /\ \A d \in Caller : got[d] # NotGiven /\ d # c => SpanOf(got[c]) \intersect SpanOf(got[d]) = {}
  BY <1>9, <1>10
<1>12. ASSUME NEW c \in Caller PROVE got[c] # NotGiven => RoomOf(got[c]) \in Int /\ got[c].size \in Int
  <2>1. got[c].size \in Nat /\ got[c].units \in Nat
    BY <1>4 DEF Kept
  <2>2. Shifted[FindOrder(got[c].size)] \in Nat
    BY <2>1, ShiftedIs, FindOrderIs
  <2> QED
    BY <2>1, <2>2, UnitNumbers DEF RoomOf
<1>13. ASSUME NEW c \in Caller, got[c] # NotGiven PROVE RoomOf(got[c]) >= got[c].size
  BY <1>11, <1>12, <1>13
<1> QED
  BY <1>11, <1>13 DEF EnoughForAll, RoomOf, SpanOf

\* What kmalloc returns is as long as was asked for, header left out, and no two callers
\* share a unit of it, small blocks and big ones, whoever asks for how much and frees in
\* whatever order, when find_order rounds no size down that is asked for.
THEOREM EnoughAlways == ASSUME WholePages PROVE HeapSpec => []EnoughForAll
<1>1. HeapInv => EnoughForAll
  BY Enough
<1> QED
  BY <1>1, HeapSteps, PTL

\* find_order rounds no size of two pages or less down, nor one of four pages: the sizes
\* that the kernel asks for (the buffers of dev_disk0.c and the hash list of sfs_fs.c have
\* four pages, all others two or less).
THEOREM KernelSizesAreWhole ==
  ASSUME \A size \in Requests : size <= 2 * PAGE_SIZE \/ size = 4 * PAGE_SIZE
  PROVE  WholePages
<1> SUFFICES ASSUME NEW size \in Requests PROVE size <= Shifted[FindOrder(size)] * PAGE_SIZE
  BY DEF WholePages
<1>1. PICK o, n, pg : o = FindOrder(size) /\ n = Shifted[o] /\ pg = PAGE_SIZE
  OBVIOUS
<1>2. size \in Nat /\ pg \in Nat /\ pg >= 1 /\ (size <= 2 * pg \/ size = 4 * pg)
  <2>1. PAGE_SIZE \in Nat /\ PAGE_SIZE >= 1
    BY KmallocAssumption
  <2> QED
    BY <1>1, <2>1, Asked
<1>3. o \in Nat /\ (o = 0 => size <= pg) /\ (o = 1 => size <= 2 * pg + 1)
  BY <1>1, <1>2, FindOrderIs
<1>4. n \in Nat /\ n >= 1 /\ (o # 0 => n >= 2) /\ (o # 0 /\ o # 1 => n >= 4)
  BY <1>1, <1>3, ShiftedIs
<1>5. /\ n * pg \in Nat /\ n * pg >= pg /\ (n >= 2 => n * pg >= 2 * pg)
      /\ n >= 4 => n * pg >= 4 * pg
  BY <1>2, <1>4
<1>6. size <= n * pg
  BY <1>2, <1>3, <1>4, <1>5
<1> QED
  BY <1>1, <1>6
====
