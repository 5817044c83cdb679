--------------------------- MODULE PidTimerProofs ---------------------------
(***************************************************************************)
(* Proofs about the numbers the kernel keeps for its processes.            *)
(* PidAlloc: for any MAX_PID and MAX_PROCESS no two processes share a pid, *)
(* and get_pid implements PidSpec.  TimerList: for any processes and times *)
(* the list of distances implements TimerSpec.                             *)
(***************************************************************************)
EXTENDS PidAlloc, TimerList, WellFoundedInduction, TLAPS

\* No pid in lo..hi-1 belongs to a process of S.
NoneIn(S, lo, hi) == \A pid \in S : ~(lo <= pid /\ pid < hi)

\* What the processes met so far in a scan, and the pids passed over, say.
ScanInv ==
  at = "scan" => /\ last_pid < next_safe
                 /\ NoneIn(pids \ rest, last_pid, next_safe)
                 /\ Promise!Skipped(from, last_pid) \subseteq pids

GotInv ==
  at = "got" => NoneIn(pids, last_pid, next_safe) /\ last_pid < next_safe

OutInv == at = "out" => NoneIn(pids, last_pid + 1, next_safe)

IInv == TypeOK /\ ScanInv /\ GotInv /\ OutInv

LEMMA StartIInv == Start => IInv
BY PidAssumption DEF Start, IInv, TypeOK, ScanInv, GotInv, OutInv, NoneIn

\* One pid further is passed over.
LEMMA SkipOne ==
  ASSUME NEW a \in 1..MaxPid, NEW b \in Pids, b \in pids, pids \subseteq Pids,
         Promise!Skipped(a, b) \subseteq pids
  PROVE  Promise!Skipped(a, NextPid(b + 1)) \subseteq pids
BY PidAssumption DEF Promise!Skipped, NextPid, Pids

LEMMA GetPidIInv == ASSUME IInv, GetPid PROVE IInv'
<1>1. last_pid' \in Pids /\ from' \in 1..MaxPid
  BY PidAssumption DEF GetPid, NextPid, Pids, IInv, TypeOK
<1>2. Promise!Skipped(from', last_pid') = {}
  BY PidAssumption DEF GetPid, NextPid, Pids, IInv, TypeOK, Promise!Skipped
<1>3. CASE last_pid + 1 >= MaxPid \/ last_pid + 1 >= next_safe
  <2>1. /\ next_safe' = MaxPid /\ rest' = pids /\ at' = "scan" /\ UNCHANGED pids
    BY <1>3 DEF GetPid, StartScan
  <2>2. TypeOK' /\ last_pid' < next_safe'
    BY <1>1, <2>1, PidAssumption DEF IInv, TypeOK, Pids
  <2>3. NoneIn(pids' \ rest', last_pid', next_safe')
    BY <2>1 DEF NoneIn
  <2>4. ScanInv'
    BY <1>2, <2>2, <2>3 DEF ScanInv, Promise!Skipped
  <2> QED
    BY <2>1, <2>2, <2>4 DEF IInv, GotInv, OutInv
<1>4. CASE ~(last_pid + 1 >= MaxPid \/ last_pid + 1 >= next_safe)
  <2>1. last_pid' = last_pid + 1 /\ at' = "got" /\ UNCHANGED <<pids, next_safe, rest>>
    BY <1>4, PidAssumption DEF GetPid, NextPid, IInv, TypeOK
  <2>2. last_pid + 1 < next_safe /\ last_pid + 1 < MaxPid
    BY <1>4, PidAssumption DEF IInv, TypeOK
  <2>3. NoneIn(pids, last_pid + 1, next_safe) /\ rest = {}
    BY DEF GetPid, IInv, TypeOK, OutInv
  <2>4. TypeOK'
    BY <1>1, <2>1, <2>3, PidAssumption DEF IInv, TypeOK, Pids
  <2>5. GotInv'
    BY <2>1, <2>2, <2>3 DEF GotInv, NoneIn
  <2> QED
    BY <2>1, <2>4, <2>5 DEF IInv, ScanInv, OutInv
<1> QED
  BY <1>3, <1>4

LEMMA TakenIInv == ASSUME IInv, Taken PROVE IInv'
<1>1. last_pid \in pids /\ pids \subseteq Pids /\ last_pid \in Pids
  BY DEF Taken, IInv, TypeOK
<1>2. NextPid(last_pid + 1) \in Pids
  BY <1>1, PidAssumption DEF NextPid, Pids
<1>3. CASE last_pid + 1 >= next_safe
  <2>1. Promise!Skipped(from, NextPid(last_pid + 1)) \subseteq pids
    BY <1>1, SkipOne DEF Taken, IInv, TypeOK, ScanInv
  <2>2. /\ last_pid' = NextPid(last_pid + 1) /\ rest' = pids /\ next_safe' = MaxPid
        /\ at' = "scan" /\ UNCHANGED <<pids, from>>
    BY <1>3 DEF Taken, StartScan
  <2>3. TypeOK' /\ last_pid' < next_safe'
    BY <1>1, <1>2, <2>2, PidAssumption DEF IInv, TypeOK, Pids
  <2>4. NoneIn(pids' \ rest', last_pid', next_safe')
    BY <2>2 DEF NoneIn
  <2>5. ScanInv'
    BY <2>1, <2>2, <2>3, <2>4 DEF ScanInv, Promise!Skipped
  <2> QED
    BY <2>2, <2>3, <2>5 DEF IInv, GotInv, OutInv
<1>4. CASE ~(last_pid + 1 >= next_safe)
  <2>1. NextPid(last_pid + 1) = last_pid + 1
    BY <1>1, <1>4, PidAssumption DEF NextPid, IInv, TypeOK, Pids
  <2>2. Promise!Skipped(from, last_pid + 1) \subseteq pids
    BY <1>1, <2>1, SkipOne DEF Taken, IInv, TypeOK, ScanInv
  <2>3. /\ last_pid' = last_pid + 1 /\ rest' = rest \ {last_pid} /\ last_pid + 1 < next_safe
        /\ at = "scan" /\ UNCHANGED <<pids, from, next_safe, at>>
    BY <1>1, <1>4 DEF Taken, IInv, TypeOK, Pids
  <2>4. NoneIn(pids' \ rest', last_pid', next_safe')
    BY <1>1, <2>3 DEF IInv, TypeOK, Pids, ScanInv, NoneIn
  <2>5. TypeOK'
    BY <1>1, <1>2, <2>1, <2>3, PidAssumption DEF IInv, TypeOK, Pids
  <2>6. ScanInv'
    BY <2>2, <2>3, <2>4 DEF ScanInv, Promise!Skipped
  <2> QED
    BY <2>3, <2>5, <2>6 DEF IInv, GotInv, OutInv
<1> QED
  BY <1>3, <1>4

LEMMA PassIInv == ASSUME IInv, NEW pid \in Pids, Pass(pid) PROVE IInv'
BY PidAssumption DEF Pass, IInv, TypeOK, Pids, ScanInv, GotInv, OutInv, NoneIn

LEMMA OthersIInv ==
  ASSUME IInv, EndScan \/ SetLinks \/ ForkFails \/ (\E pid \in pids : RemoveLinks(pid))
  PROVE  IInv'
<1>1. CASE EndScan
  BY <1>1 DEF EndScan, IInv, TypeOK, ScanInv, GotInv, OutInv, NoneIn
<1>2. CASE SetLinks
  BY <1>2 DEF SetLinks, IInv, TypeOK, Pids, ScanInv, GotInv, OutInv, NoneIn
<1>3. CASE ForkFails
  BY <1>3 DEF ForkFails, IInv, TypeOK, Pids, ScanInv, GotInv, OutInv, NoneIn
<1>4. CASE \E pid \in pids : RemoveLinks(pid)
  BY <1>4 DEF RemoveLinks, IInv, TypeOK, ScanInv, GotInv, OutInv, NoneIn
<1> QED
  BY <1>1, <1>2, <1>3, <1>4

LEMMA NextIInv == IInv /\ [Next]_vars => IInv'
<1> SUFFICES ASSUME IInv, [Next]_vars PROVE IInv'
  OBVIOUS
<1>1. CASE UNCHANGED vars
  BY <1>1 DEF vars, IInv, TypeOK, ScanInv, GotInv, OutInv
<1> QED
  BY <1>1, GetPidIInv, TakenIInv, PassIInv, OthersIInv DEF Next, Scan

LEMMA Inductive == Spec => []IInv
BY StartIInv, NextIInv, PTL DEF Spec

\* The statics and the scan keep their types: last_pid is a legal pid whenever
\* get_pid returns.
THEOREM PidTypes == Spec => []TypeOK
<1>1. IInv => TypeOK
  BY DEF IInv
<1> QED
  BY <1>1, Inductive, PTL

\* No two processes have the same pid.
THEOREM PidsUnique == Spec => []Unique
<1>1. IInv => Unique
  BY DEF IInv, TypeOK, Pids, GotInv, NoneIn, Unique
<1> QED
  BY <1>1, Inductive, PTL

\* The pids between the two statics are free between calls.
THEOREM GapKept == Spec => []GapFree
<1>1. IInv => GapFree
  BY DEF IInv, TypeOK, Pids, OutInv, NoneIn, GapFree
<1> QED
  BY <1>1, Inductive, PTL

\* get_pid gives the next free pid after the one given last.
THEOREM PidsInTurn == Spec => PidInTurn
<1> DEFINE last == IF at = "scan" THEN from ELSE last_pid
<1>1. Start => Promise!Init
  BY DEF Start, Promise!Init
<1>2. IInv /\ [Next]_vars => [Promise!Next]_<<pids, last>>
  <2> SUFFICES ASSUME IInv, [Next]_vars
               PROVE  Promise!Next \/ UNCHANGED <<pids, last>>
    OBVIOUS
  <2>1. CASE GetPid
    <3>1. CASE at' = "scan"
      BY <2>1, <3>1 DEF GetPid
    <3>2. CASE at' # "scan"
      <4>1. last_pid' = last_pid + 1 /\ at' = "got" /\ UNCHANGED <<pids, next_safe>>
        BY <2>1, <3>2, PidAssumption DEF GetPid, StartScan, NextPid, IInv, TypeOK
      <4>2. last = last_pid /\ last' = last_pid'
        BY <2>1, <4>1 DEF GetPid
      <4>3. IInv'
        BY <2>1, GetPidIInv
      <4>4. last_pid' \in Pids \ pids
        BY <4>1, <4>3 DEF IInv, TypeOK, Pids, GotInv, NoneIn
      <4>5. Promise!Skipped(last_pid, last_pid') = {}
        BY <4>1 DEF Promise!Skipped, IInv, TypeOK
      <4> QED
        BY <4>1, <4>2, <4>4, <4>5 DEF Promise!Next, Promise!Give, Promise!Pids, Pids
    <3> QED
      BY <3>1, <3>2
  <2>2. CASE Taken \/ \E pid \in Pids : Pass(pid)
    BY <2>2 DEF Taken, StartScan, Pass
  <2>3. CASE EndScan
    <3>1. last = from /\ last' = last_pid /\ UNCHANGED pids
      BY <2>3 DEF EndScan
    <3>2. last_pid \in Pids \ pids /\ Promise!Skipped(from, last_pid) \subseteq pids
      BY <2>3 DEF EndScan, IInv, TypeOK, Pids, ScanInv, NoneIn
    <3> QED
      BY <3>1, <3>2 DEF Promise!Next, Promise!Give, Promise!Pids, Pids
  <2>4. CASE SetLinks
    <3>1. last = last_pid /\ UNCHANGED last
      BY <2>4 DEF SetLinks
    <3>2. last_pid \in Pids \ pids
      BY <2>4 DEF SetLinks, IInv, TypeOK, Pids, GotInv, NoneIn
    <3> QED
      BY <2>4, <3>1, <3>2 DEF SetLinks, Promise!Next, Promise!Join, Promise!Pids, Pids
  <2>5. CASE ForkFails \/ UNCHANGED vars
    BY <2>5 DEF ForkFails, vars
  <2>6. CASE \E pid \in pids : RemoveLinks(pid)
    BY <2>6 DEF RemoveLinks, Promise!Next, Promise!Leave
  <2> QED
    BY <2>1, <2>2, <2>3, <2>4, <2>5, <2>6 DEF Next, Scan
<1> QED
  BY <1>1, <1>2, Inductive, PTL DEF Spec, PidInTurn, Promise!Spec

-----------------------------------------------------------------------------
(***************************************************************************)
(* The timers                                                              *)
(***************************************************************************)
\* A set of natural numbers has a least element.
LEMMA LeastOf == ASSUME NEW S \in SUBSET Nat, S # {} PROVE \E n \in S : \A m \in S : n <= m
<1>1. PICK x \in S : \A y \in S : ~(<<y, x>> \in OpToRel(<, Nat))
  BY NatLessThanWellFounded, WFMin, Zenon
<1>2. \A a, b \in Nat : <<b, a>> \in OpToRel(<, Nat) <=> b < a
  BY DEF OpToRel
<1>3. \A y \in S : ~(y < x)
  BY <1>1, <1>2
<1> QED
  BY <1>3

\* A set with 0 that has the successor of each of its members has every natural number.
LEMMA Induct == ASSUME NEW S, 0 \in S, \A n \in Nat : n \in S => n + 1 \in S PROVE \A n \in Nat : n \in S
<1> SUFFICES ASSUME {n \in Nat : n \notin S} # {} PROVE FALSE
  OBVIOUS
<1>1. PICK n \in {k \in Nat : k \notin S} : \A m \in {k \in Nat : k \notin S} : n <= m
  BY LeastOf
<1>2. n # 0 /\ n - 1 \in Nat /\ ~(n <= n - 1)
  BY <1>1
<1>3. n - 1 \in S
  BY <1>1, <1>2
<1>4. (n - 1) + 1 \in S /\ (n - 1) + 1 = n
  BY <1>2, <1>3
<1> QED
  BY <1>1, <1>4

Distance == [proc : Proc, expires : Int]

\* f has the sums of the first n distances of list.
AddsUp(f, list, n) ==
  f \in [0 .. n -> Int] /\ f[0] = 0 /\ \A i \in 1 .. n : f[i] = f[i - 1] + list[i].expires

\* There are sums of the distances.
LEMMA SumsExist ==
  ASSUME NEW list \in Seq(Distance)
  PROVE  \E f : AddsUp(f, list, Len(list))
<1> DEFINE S == {n \in Nat : n <= Len(list) => \E f : AddsUp(f, list, n)}
<1>1. 0 \in S
  <2>1. AddsUp([i \in 0 .. 0 |-> 0], list, 0)
    BY DEF AddsUp
  <2> QED
    BY <2>1
<1>2. ASSUME NEW n \in Nat, n \in S PROVE n + 1 \in S
  <2> SUFFICES ASSUME n + 1 <= Len(list) PROVE \E f : AddsUp(f, list, n + 1)
    OBVIOUS
  <2>1. PICK f : AddsUp(f, list, n)
    BY <1>2
  <2>2. list[n + 1].expires \in Int /\ f[n] \in Int /\ n + 1 \in Nat
    <3>1. n + 1 \in 1 .. Len(list) /\ n \in 0 .. n
      OBVIOUS
    <3>2. list[n + 1] \in Distance
      BY <3>1
    <3>3. f[n] \in Int
      BY <2>1, <3>1 DEF AddsUp
    <3> QED
      BY <3>2, <3>3 DEF Distance
  <2>3. PICK g : g = [i \in 0 .. n + 1 |-> IF i = n + 1 THEN f[n] + list[n + 1].expires ELSE f[i]]
    OBVIOUS
  <2>4. g \in [0 .. n + 1 -> Int] /\ g[0] = 0
    BY <2>1, <2>2, <2>3 DEF AddsUp
  <2>5. ASSUME NEW i \in 1 .. n + 1 PROVE g[i] = g[i - 1] + list[i].expires
    <3>1. i - 1 \in 0 .. n /\ i - 1 # n + 1
      OBVIOUS
    <3>2. g[i - 1] = f[i - 1]
      BY <2>3, <3>1
    <3>3. CASE i = n + 1
      BY <2>2, <2>3, <3>2, <3>3
    <3>4. CASE i # n + 1
      BY <2>1, <2>3, <3>2, <3>4 DEF AddsUp
    <3> QED
      BY <3>3, <3>4
  <2>6. AddsUp(g, list, n + 1)
    BY <2>4, <2>5 DEF AddsUp
  <2> QED
    BY <2>6
<1> HIDE DEF S
<1>3. \A n \in Nat : n \in S
  BY <1>1, <1>2, Induct
<1>4. Len(list) \in S /\ Len(list) \in Nat
  BY <1>3
<1> QED
  BY <1>4 DEF S

\* What follows the recursion of Sums, on whatever numbers, has the sums.
LEMMA OneSum ==
  ASSUME NEW list \in Seq(Distance), NEW f, AddsUp(f, list, Len(list)),
         NEW g, g = [i \in 0 .. Len(list) |-> IF i = 0 THEN 0 ELSE g[i - 1] + list[i].expires]
  PROVE  g = f
<1> DEFINE S == {n \in Nat : n <= Len(list) => g[n] = f[n]}
<1>1. 0 \in S
  <2>1. g[0] = 0 /\ f[0] = 0
    BY DEF AddsUp
  <2> QED
    BY <2>1
<1>2. ASSUME NEW n \in Nat, n \in S PROVE n + 1 \in S
  <2> SUFFICES ASSUME n + 1 <= Len(list) PROVE g[n + 1] = f[n + 1]
    OBVIOUS
  <2>1. n + 1 \in 1 .. Len(list) /\ n + 1 # 0 /\ (n + 1) - 1 = n
    OBVIOUS
  <2>2. g[n + 1] = g[n] + list[n + 1].expires
    BY <2>1
  <2>3. f[n + 1] = f[n] + list[n + 1].expires
    BY <2>1 DEF AddsUp
  <2> QED
    BY <1>2, <2>2, <2>3
<1> HIDE DEF S
<1>3. \A n \in Nat : n \in S
  BY <1>1, <1>2, Induct
<1>4. \A n \in 0 .. Len(list) : g[n] = f[n]
  <2>1. Len(list) \in Nat
    OBVIOUS
  <2> SUFFICES ASSUME NEW n \in 0 .. Len(list) PROVE g[n] = f[n]
    OBVIOUS
  <2>2. n \in Nat /\ n <= Len(list)
    BY <2>1
  <2> QED
    BY <1>3, <2>2 DEF S
<1>5. DOMAIN g = 0 .. Len(list) /\ g = [n \in 0 .. Len(list) |-> g[n]]
  OBVIOUS
<1>6. f = [n \in 0 .. Len(list) |-> f[n]]
  BY DEF AddsUp
<1> QED
  BY <1>4, <1>5, <1>6

\* Sums has the sums, and nothing else does.
LEMMA SumsAre ==
  ASSUME NEW list \in Seq(Distance)
  PROVE  AddsUp(Sums(list), list, Len(list)) /\ \A f : AddsUp(f, list, Len(list)) => Sums(list) = f
<1>1. PICK f : AddsUp(f, list, Len(list))
  BY SumsExist
<1>2. PICK g : g = CHOOSE h : h = [i \in 0 .. Len(list) |-> IF i = 0 THEN 0 ELSE h[i - 1] + list[i].expires]
  OBVIOUS
<1>3. Sums(list) = g
  BY <1>2 DEF Sums
<1>4. f = [i \in 0 .. Len(list) |-> IF i = 0 THEN 0 ELSE f[i - 1] + list[i].expires]
  <2>1. f = [i \in 0 .. Len(list) |-> f[i]]
    BY <1>1 DEF AddsUp
  <2>2. \A i \in 0 .. Len(list) : f[i] = IF i = 0 THEN 0 ELSE f[i - 1] + list[i].expires
    BY <1>1 DEF AddsUp
  <2> QED
    BY <2>1, <2>2
<1>5. g = [i \in 0 .. Len(list) |-> IF i = 0 THEN 0 ELSE g[i - 1] + list[i].expires]
  BY <1>2, <1>4
<1>6. \A h : AddsUp(h, list, Len(list)) => g = h
  BY <1>5, OneSum
<1> QED
  BY <1>1, <1>3, <1>6

\* The least of a set of natural numbers.
LEMMA MinIs == ASSUME NEW S \in SUBSET Nat, S # {} PROVE Min(S) \in S /\ \A n \in S : Min(S) <= n
<1>1. PICK m : m = CHOOSE n \in S : \A k \in S : n <= k
  OBVIOUS
<1>2. m \in S /\ \A k \in S : m <= k
  BY <1>1, LeastOf
<1> QED
  BY <1>1, <1>2 DEF Min

\* c is a with b after it.
Follows(c, a, b) ==
  /\ Len(c) = Len(a) + Len(b)
  /\ \A i \in 1 .. Len(c) : c[i] = IF i <= Len(a) THEN a[i] ELSE b[i - Len(a)]

\* So is the sequence joined of the two.
LEMMA Joined ==
  ASSUME NEW T, NEW a \in Seq(T), NEW b \in Seq(T)
  PROVE  a \o b \in Seq(T) /\ Follows(a \o b, a, b)
<1>1. PICK c : c = a \o b
  OBVIOUS
<1>2. c \in Seq(T) /\ Len(c) = Len(a) + Len(b)
  BY <1>1
<1>3. \A i \in 1 .. Len(c) : c[i] = IF i <= Len(a) THEN a[i] ELSE b[i - Len(a)]
  BY <1>1
<1> QED
  BY <1>1, <1>2, <1>3 DEF Follows

\* The first n of a sequence.
LEMMA FirstOf ==
  ASSUME NEW T, NEW s \in Seq(T), NEW n \in 0 .. Len(s), NEW t, t = SubSeq(s, 1, n)
  PROVE  t \in Seq(T) /\ Len(t) = n /\ \A i \in 1 .. n : t[i] = s[i]
  OBVIOUS

\* What comes after the first n of a sequence.
LEMMA LastOf ==
  ASSUME NEW T, NEW s \in Seq(T), NEW n \in 0 .. Len(s), NEW t, t = SubSeq(s, n + 1, Len(s))
  PROVE  t \in Seq(T) /\ Len(t) = Len(s) - n /\ \A i \in 1 .. Len(s) - n : t[i] = s[n + i]
  OBVIOUS

\* Sequences as long as each other with the same in each place are the same.
LEMMA SameSeq ==
  ASSUME NEW T, NEW a \in Seq(T), NEW b \in Seq(T), Len(a) = Len(b), \A i \in 1 .. Len(a) : a[i] = b[i]
  PROVE  a = b
  OBVIOUS

\* r begins with the first i - 1 of s and goes on with x and those of t.
Joins(r, s, i, x, t) ==
  /\ Len(r) = i + Len(t)
  /\ \A j \in 1 .. Len(r) : r[j] = IF j < i THEN s[j] ELSE IF j = i THEN x ELSE t[j - i]

\* So does the sequence joined of the three.
LEMMA Spliced ==
  ASSUME NEW T, NEW s \in Seq(T), NEW i \in 1 .. Len(s) + 1, NEW x \in T, NEW t \in Seq(T),
         NEW r, r = SubSeq(s, 1, i - 1) \o <<x>> \o t
  PROVE  r \in Seq(T) /\ Joins(r, s, i, x, t)
<1>1. PICK a, b, c : a = SubSeq(s, 1, i - 1) /\ b = <<x>> /\ c = a \o b
  OBVIOUS
<1>2. i - 1 \in 0 .. Len(s) /\ i \in Nat
  OBVIOUS
<1>3. a \in Seq(T) /\ Len(a) = i - 1 /\ \A j \in 1 .. i - 1 : a[j] = s[j]
  BY <1>1, <1>2, FirstOf
<1>4. b \in Seq(T) /\ Len(b) = 1 /\ b[1] = x
  BY <1>1
<1>5. c \in Seq(T) /\ Len(c) = i /\ \A j \in 1 .. Len(c) : c[j] = IF j <= i - 1 THEN a[j] ELSE b[j - (i - 1)]
  <2>1. a \in Seq(T) /\ b \in Seq(T)
    BY <1>3, <1>4
  <2>2. c \in Seq(T) /\ Follows(c, a, b)
    BY <1>1, <2>1, Joined
  <2>3. Len(c) = i
    BY <1>2, <1>3, <1>4, <2>2 DEF Follows
  <2> QED
    BY <1>3, <2>2, <2>3 DEF Follows
<1>6. r = c \o t
  BY <1>1
<1>7. r \in Seq(T) /\ Len(r) = i + Len(t) /\ \A j \in 1 .. Len(r) : r[j] = IF j <= i THEN c[j] ELSE t[j - i]
  <2>1. c \in Seq(T) /\ Len(c) = i
    BY <1>5
  <2>2. r \in Seq(T) /\ Follows(r, c, t)
    BY <1>6, <2>1, Joined
  <2> QED
    BY <2>1, <2>2 DEF Follows
<1>8. ASSUME NEW j \in 1 .. Len(r) PROVE r[j] = IF j < i THEN s[j] ELSE IF j = i THEN x ELSE t[j - i]
  <2>1. CASE j < i
    BY <1>2, <1>3, <1>5, <1>7, <2>1
  <2>2. CASE j = i
    BY <1>2, <1>4, <1>5, <1>7, <2>2
  <2>3. CASE j > i
    BY <1>2, <1>7, <2>3
  <2> QED
    BY <1>2, <2>1, <2>2, <2>3
<1> QED
  BY <1>7, <1>8 DEF Joins

\* The list without the i-th of s, with those of t after the ones before it.
LEMMA Closed ==
  ASSUME NEW T, NEW s \in Seq(T), NEW i \in 1 .. Len(s), NEW t \in Seq(T), NEW r, r = SubSeq(s, 1, i - 1) \o t
  PROVE  /\ r \in Seq(T) /\ Len(r) = (i - 1) + Len(t)
         /\ \A j \in 1 .. Len(r) : r[j] = IF j < i THEN s[j] ELSE t[j - (i - 1)]
<1>1. PICK a : a = SubSeq(s, 1, i - 1)
  OBVIOUS
<1>2. i - 1 \in 0 .. Len(s) /\ i \in Nat
  OBVIOUS
<1>3. a \in Seq(T) /\ Len(a) = i - 1 /\ \A j \in 1 .. i - 1 : a[j] = s[j]
  BY <1>1, <1>2, FirstOf
<1>4. r = a \o t
  BY <1>1
<1>5. /\ r \in Seq(T) /\ Len(r) = (i - 1) + Len(t)
      /\ \A j \in 1 .. Len(r) : r[j] = IF j <= i - 1 THEN a[j] ELSE t[j - (i - 1)]
  <2>1. a \in Seq(T)
    BY <1>3
  <2>2. r \in Seq(T) /\ Follows(r, a, t)
    BY <1>4, <2>1, Joined
  <2>3. Len(r) = (i - 1) + Len(t)
    BY <1>3, <2>2 DEF Follows
  <2> QED
    BY <1>3, <2>2, <2>3 DEF Follows
<1> QED
  BY <1>2, <1>3, <1>5

\* The distances of list are not negative, and no timer of it has ended.
OnList(list) ==
  /\ list \in Seq(Distance)
  /\ \A i \in 1 .. Len(list) : list[i].expires >= 0
  /\ Len(list) # 0 => list[1].expires >= 1

TimerInv == OnList(timer_list)

\* Each place of a list has a process and a distance.
LEMMA Places ==
  ASSUME NEW list \in Seq(Distance), NEW i \in 1 .. Len(list)
  PROVE  list[i] \in Distance /\ list[i].proc \in Proc /\ list[i].expires \in Int
<1>1. list[i] \in Distance
  OBVIOUS
<1> QED
  BY <1>1 DEF Distance

\* The sums of such a list begin with 0 and rise.
LEMMA SumsRise ==
  ASSUME NEW list, OnList(list), NEW s, s = Sums(list)
  PROVE  /\ AddsUp(s, list, Len(list))
         /\ \A i, j \in 0 .. Len(list) : i <= j => s[i] <= s[j]
         /\ \A i \in 1 .. Len(list) : s[i] >= 1
<1>1. list \in Seq(Distance) /\ Len(list) \in Nat
  BY DEF OnList
<1>2. AddsUp(s, list, Len(list))
  BY <1>1, SumsAre
<1>3. \A i \in 1 .. Len(list) : list[i].expires \in Int /\ list[i].expires >= 0
  BY <1>1, Places DEF OnList
<1> DEFINE D == {j \in Nat : j <= Len(list) => \A i \in 0 .. j : s[i] <= s[j]}
<1>4. 0 \in D
  <2>1. s[0] = 0 /\ \A i \in 0 .. 0 : i = 0
    BY <1>2 DEF AddsUp
  <2> QED
    BY <2>1
<1>5. ASSUME NEW j \in Nat, j \in D PROVE j + 1 \in D
  <2> SUFFICES ASSUME j + 1 <= Len(list), NEW i \in 0 .. j + 1 PROVE s[i] <= s[j + 1]
    OBVIOUS
  <2>1. j + 1 \in 1 .. Len(list) /\ (j + 1) - 1 = j /\ j \in 0 .. Len(list) /\ i \in 0 .. Len(list)
    BY <1>1
  <2>2. s[j + 1] = s[j] + list[j + 1].expires /\ s[j] \in Int /\ s[i] \in Int
    BY <1>2, <2>1 DEF AddsUp
  <2>3. s[j] <= s[j + 1]
    BY <1>3, <2>1, <2>2
  <2>4. CASE i = j + 1
    BY <2>2, <2>4, <1>3, <2>1
  <2>5. CASE i # j + 1
    <3>1. i \in 0 .. j /\ j <= Len(list)
      BY <1>1, <2>5
    <3>2. s[i] <= s[j]
      BY <1>5, <3>1
    <3>3. list[j + 1].expires \in Int
      BY <1>3, <2>1
    <3> QED
      BY <2>2, <2>3, <3>2, <3>3
  <2> QED
    BY <2>4, <2>5
<1> HIDE DEF D
<1>6. \A j \in Nat : j \in D
  BY <1>4, <1>5, Induct
<1>7. ASSUME NEW i \in 0 .. Len(list), NEW j \in 0 .. Len(list), i <= j PROVE s[i] <= s[j]
  <2>1. j \in Nat /\ j <= Len(list) /\ i \in 0 .. j
    BY <1>1, <1>7
  <2> QED
    BY <1>6, <2>1 DEF D
<1>8. ASSUME NEW i \in 1 .. Len(list) PROVE s[i] >= 1
  <2>1. 1 \in 1 .. Len(list) /\ 1 \in 0 .. Len(list) /\ i \in 0 .. Len(list) /\ 1 <= i /\ Len(list) # 0
    BY <1>1
  <2>2. s[1] = s[0] + list[1].expires /\ s[0] = 0 /\ s[i] \in Int
    BY <1>2, <2>1 DEF AddsUp
  <2>3. s[1] >= 1 /\ s[1] \in Int
    BY <1>3, <2>1, <2>2 DEF OnList
  <2>4. s[1] <= s[i]
    BY <1>7, <2>1
  <2> QED
    BY <2>2, <2>3, <2>4
<1> QED
  BY <1>2, <1>7, <1>8

\* A list whose sums rise from 0 is such a list.
LEMMA FromSums ==
  ASSUME NEW list \in Seq(Distance), NEW s, AddsUp(s, list, Len(list)),
         \A i \in 1 .. Len(list) : s[i - 1] <= s[i] /\ s[i] >= 1
  PROVE  OnList(list) /\ Sums(list) = s
<1>1. Sums(list) = s
  BY SumsAre
<1>2. ASSUME NEW i \in 1 .. Len(list) PROVE list[i].expires >= 0 /\ (i = 1 => list[i].expires >= 1)
  <2>1. list[i].expires \in Int /\ i \in 0 .. Len(list) /\ i - 1 \in 0 .. Len(list) /\ 1 - 1 = 0
    BY Places
  <2>2. s[i] = s[i - 1] + list[i].expires /\ s[i] \in Int /\ s[i - 1] \in Int /\ s[0] = 0
    BY <2>1 DEF AddsUp
  <2> QED
    BY <2>1, <2>2
<1>3. Len(list) # 0 => 1 \in 1 .. Len(list)
  OBVIOUS
<1> QED
  BY <1>1, <1>2, <1>3 DEF OnList

\* b is what comes after the first i of list, its first moved by d.
Moved(list, i, d, b) ==
  /\ b \in Seq(Distance) /\ Len(b) = Len(list) - i
  /\ \A j \in 1 .. Len(list) - i :
       /\ b[j].proc = list[i + j].proc
       /\ b[j].expires = list[i + j].expires + (IF j = 1 THEN d ELSE 0)

\* What Behind makes of the timers after the first i.
LEMMA BehindIs ==
  ASSUME timer_list \in Seq(Distance), NEW i \in 0 .. Len(timer_list), NEW d \in Int
  PROVE  Moved(timer_list, i, d, Behind(i, d))
<1> SUFFICES ASSUME NEW b, b = Behind(i, d) PROVE Moved(timer_list, i, d, b)
  OBVIOUS
<1>1. ASSUME NEW j \in 1 .. Len(timer_list) - i
      PROVE  /\ timer_list[i + j] \in Distance
             /\ [timer_list[i + j] EXCEPT !.expires = @ + d] \in Distance
             /\ [timer_list[i + j] EXCEPT !.expires = @ + d].proc = timer_list[i + j].proc
             /\ [timer_list[i + j] EXCEPT !.expires = @ + d].expires = timer_list[i + j].expires + d
  <2>1. i + j \in 1 .. Len(timer_list)
    OBVIOUS
  <2>2. PICK r : r = timer_list[i + j]
    OBVIOUS
  <2>3. r \in Distance
    BY <2>1, <2>2
  <2>4. PICK q : q = [r EXCEPT !.expires = @ + d]
    OBVIOUS
  <2>5. q \in Distance
    BY <2>3, <2>4 DEF Distance
  <2>6. q.proc = r.proc /\ q.expires = r.expires + d
    BY <2>3, <2>4 DEF Distance
  <2> QED
    BY <2>2, <2>3, <2>4, <2>5, <2>6
<1>2. Len(timer_list) - i \in Nat
  OBVIOUS
<1>3. b = [j \in 1 .. Len(timer_list) - i |->
             IF j = 1 THEN [timer_list[i + 1] EXCEPT !.expires = @ + d] ELSE timer_list[i + j]]
  BY DEF Behind
<1>4. \A j \in 1 .. Len(timer_list) - i :
        b[j] = IF j = 1 THEN [timer_list[i + j] EXCEPT !.expires = @ + d] ELSE timer_list[i + j]
  BY <1>3
<1>5. b \in [1 .. Len(timer_list) - i -> Distance]
  BY <1>1, <1>3, <1>4
<1>6. b \in Seq(Distance) /\ Len(b) = Len(timer_list) - i
  BY <1>2, <1>5
<1>7. ASSUME NEW j \in 1 .. Len(timer_list) - i
      PROVE  /\ b[j].proc = timer_list[i + j].proc
             /\ b[j].expires = timer_list[i + j].expires + (IF j = 1 THEN d ELSE 0)
  <2>1. timer_list[i + j].expires \in Int
    BY <1>1 DEF Distance
  <2>2. CASE j = 1
    BY <1>1, <1>4, <2>2
  <2>3. CASE j # 1
    <3>1. b[j] = timer_list[i + j]
      BY <1>4, <2>3
    <3> QED
      BY <2>1, <2>3, <3>1
  <2> QED
    BY <2>2, <2>3
<1> QED
  BY <1>6, <1>7 DEF Moved

\* The list that add_timer makes, by the sums of its distances.
LEMMA AddTimerSays ==
  ASSUME TimerInv, NEW p \in Proc, NEW time \in 1 .. MaxTime, AddTimer(p, time)
  PROVE  \E n \in 0 .. Len(timer_list) :
           /\ \A j \in 1 .. Len(timer_list) : j <= n <=> Sums(timer_list)[j] <= time
           /\ OnList(timer_list') /\ Len(timer_list') = Len(timer_list) + 1
           /\ \A j \in 1 .. Len(timer_list) + 1 :
                /\ timer_list'[j].proc = IF j <= n THEN timer_list[j].proc
                                         ELSE IF j = n + 1 THEN p ELSE timer_list[j - 1].proc
                /\ Sums(timer_list')[j] = IF j <= n THEN Sums(timer_list)[j]
                                          ELSE IF j = n + 1 THEN time ELSE Sums(timer_list)[j - 1]
<1>1. PICK L, len, s, i : L = timer_list /\ len = Len(timer_list) /\ s = Sums(timer_list) /\ i = Stop(time)
  OBVIOUS
<1>2. L \in Seq(Distance) /\ len = Len(L) /\ len \in Nat /\ OnList(L) /\ time \in Int /\ time >= 1
  BY <1>1, TimerAssumption DEF TimerInv, OnList
<1>3. /\ AddsUp(s, L, len)
      /\ \A j, k \in 0 .. len : j <= k => s[j] <= s[k]
      /\ \A j \in 1 .. len : s[j] >= 1
  BY <1>1, <1>2, SumsRise
<1>4. i \in 1 .. len + 1 /\ \A j \in 1 .. len : j < i <=> s[j] <= time
  <2> DEFINE S == {j \in 1 .. len : time < s[j]} \union {len + 1}
  <2>1. S \in SUBSET Nat /\ S # {}
    BY <1>2
  <2>2. i = Min(S)
    BY <1>1 DEF Stop, TicksLeft
  <2>3. i \in S /\ \A j \in S : i <= j
    BY <2>1, <2>2, MinIs
  <2>4. i \in 1 .. len + 1
    BY <1>2, <2>3
  <2>5. ASSUME NEW j \in 1 .. len PROVE j < i <=> s[j] <= time
    <3>1. s[j] \in Int /\ j \in 0 .. len
      BY <1>2, <1>3 DEF AddsUp
    <3>2. CASE j < i
      BY <1>2, <2>3, <2>4, <3>1, <3>2
    <3>3. CASE i <= j
      <4>1. i \in 1 .. len /\ i \in 0 .. len /\ time < s[i]
        BY <1>2, <2>3, <2>4, <3>3
      <4>2. s[i] <= s[j] /\ s[i] \in Int
        BY <1>3, <3>1, <3>3, <4>1 DEF AddsUp
      <4> QED
        BY <1>2, <2>4, <3>1, <3>3, <4>1, <4>2
    <3> QED
      BY <1>2, <2>4, <3>2, <3>3
  <2> QED
    BY <2>4, <2>5
<1>5. PICK mine, x, b, N : /\ mine = time - s[i - 1] /\ x = [proc |-> p, expires |-> mine]
                           /\ b = Behind(i - 1, -mine) /\ N = timer_list'
  OBVIOUS
<1>6. /\ i - 1 \in 0 .. len /\ s[i - 1] \in Int /\ mine \in Int /\ -mine \in Int
      /\ x \in Distance /\ x.proc = p /\ x.expires = mine
  <2>1. i - 1 \in 0 .. len
    BY <1>2, <1>4
  <2>2. s[i - 1] \in Int
    BY <1>3, <2>1 DEF AddsUp
  <2> QED
    BY <1>2, <1>5, <2>1, <2>2 DEF Distance
<1>7. /\ b \in Seq(Distance) /\ Len(b) = len - (i - 1)
      /\ \A j \in 1 .. len - (i - 1) : /\ b[j].proc = L[(i - 1) + j].proc
                                       /\ b[j].expires = L[(i - 1) + j].expires + (IF j = 1 THEN -mine ELSE 0)
  <2>1. timer_list \in Seq(Distance) /\ i - 1 \in 0 .. Len(timer_list)
    BY <1>1, <1>2, <1>6
  <2>2. Moved(timer_list, i - 1, -mine, Behind(i - 1, -mine))
    BY <1>6, <2>1, BehindIs
  <2> QED
    BY <1>1, <1>5, <2>2 DEF Moved
<1>8. N = SubSeq(L, 1, i - 1) \o <<x>> \o b
  BY <1>1, <1>5 DEF AddTimer, TicksLeft
<1>9. /\ N \in Seq(Distance) /\ Len(N) = i + Len(b)
      /\ \A j \in 1 .. Len(N) : N[j] = IF j < i THEN L[j] ELSE IF j = i THEN x ELSE b[j - i]
  <2>1. L \in Seq(Distance) /\ i \in 1 .. Len(L) + 1 /\ x \in Distance /\ b \in Seq(Distance)
    BY <1>2, <1>4, <1>6, <1>7
  <2>2. N \in Seq(Distance) /\ Joins(N, L, i, x, b)
    BY <1>8, <2>1, Spliced
  <2> QED
    BY <2>2 DEF Joins
<1>10. Len(N) = len + 1
  BY <1>2, <1>4, <1>7, <1>9
<1>11. PICK g : g = [j \in 0 .. len + 1 |-> IF j < i THEN s[j] ELSE IF j = i THEN time ELSE s[j - 1]]
  OBVIOUS
<1>12. \A j \in 0 .. len : s[j] \in Int
  BY <1>3 DEF AddsUp
<1>13. ASSUME NEW j \in 1 .. len + 1
       PROVE  /\ N[j].proc = IF j <= i - 1 THEN L[j].proc ELSE IF j = (i - 1) + 1 THEN p ELSE L[j - 1].proc
              /\ g[j] \in Int /\ g[j - 1] \in Int
              /\ g[j] = g[j - 1] + N[j].expires /\ g[j - 1] <= g[j] /\ g[j] >= 1
  <2>1. j - 1 \in 0 .. len + 1 /\ j \in 0 .. len + 1 /\ j \in 1 .. Len(N) /\ i \in Nat /\ j \in Nat
    BY <1>2, <1>4, <1>10
  <2>2. CASE j < i
    <3>1. j \in 1 .. len /\ j \in 0 .. len /\ j - 1 \in 0 .. len /\ j - 1 < i
      BY <1>2, <1>4, <2>1, <2>2
    <3>2. g[j] = s[j] /\ g[j - 1] = s[j - 1] /\ N[j] = L[j]
      BY <1>9, <1>11, <2>1, <2>2, <3>1
    <3>3. s[j] = s[j - 1] + L[j].expires /\ s[j] >= 1 /\ s[j - 1] <= s[j]
      BY <1>3, <3>1 DEF AddsUp
    <3> QED
      BY <1>12, <2>1, <2>2, <3>1, <3>2, <3>3
  <2>3. CASE j = i
    <3>1. g[j] = time /\ g[j - 1] = s[j - 1] /\ N[j] = x
      BY <1>9, <1>11, <2>1, <2>3
    <3>2. s[j - 1] <= time
      <4>1. CASE j = 1
        <5>1. s[0] = 0 /\ j - 1 = 0
          BY <1>3, <4>1 DEF AddsUp
        <5> QED
          BY <1>2, <5>1
      <4>2. CASE j # 1
        <5>1. j - 1 \in 1 .. len /\ j - 1 < i
          BY <1>2, <1>4, <2>3, <4>2
        <5> QED
          BY <1>4, <5>1
      <4> QED
        BY <4>1, <4>2
    <3> QED
      BY <1>2, <1>5, <1>6, <2>1, <2>3, <3>1, <3>2
  <2>4. CASE j > i
    <3>1. j - 1 \in 1 .. len /\ ~(j - 1 < i) /\ j - 1 \in 0 .. len /\ (j - 1) - 1 \in 0 .. len
      BY <1>2, <1>4, <2>1, <2>4
    <3>2. g[j] = s[j - 1] /\ N[j] = b[j - i]
      BY <1>9, <1>11, <2>1, <2>4
    <3>3. s[j - 1] = s[(j - 1) - 1] + L[j - 1].expires /\ s[j - 1] >= 1 /\ s[(j - 1) - 1] <= s[j - 1]
      BY <1>3, <3>1 DEF AddsUp
    <3>4. s[j - 1] > time
      BY <1>2, <1>4, <1>12, <3>1
    <3>5. j - i \in 1 .. len - (i - 1) /\ (i - 1) + (j - i) = j - 1
      BY <1>2, <1>4, <2>1, <2>4
    <3>6. b[j - i].proc = L[j - 1].proc /\ b[j - i].expires = L[j - 1].expires + (IF j - i = 1 THEN -mine ELSE 0)
      BY <1>7, <3>5
    <3>7. L[j - 1].expires \in Int
      BY <1>2, <3>1, Places
    <3>8. N[j].proc = L[j - 1].proc /\ ~(j <= i - 1) /\ j # (i - 1) + 1
      <4>1. ~(j <= i - 1) /\ j # (i - 1) + 1
        BY <2>1, <2>4
      <4> QED
        BY <3>2, <3>6, <4>1
    <3>9. PICK d, e : d = L[j - 1].expires /\ e = N[j].expires
      OBVIOUS
    <3>10. CASE j = i + 1
      <4>1. g[j - 1] = time /\ (j - 1) - 1 = i - 1 /\ j - i = 1
        BY <1>11, <2>1, <3>10
      <4>2. e = d - mine /\ d \in Int
        BY <1>6, <3>2, <3>6, <3>7, <3>9, <4>1
      <4>3. g[j] = g[j - 1] + e /\ g[j - 1] <= g[j] /\ g[j] >= 1 /\ g[j] \in Int /\ g[j - 1] \in Int
        <5>1. PICK u, v : u = s[j - 1] /\ v = s[i - 1]
          OBVIOUS
        <5>2. u \in Int /\ v \in Int /\ u > time /\ u >= 1 /\ mine = time - v
          BY <1>5, <1>6, <1>12, <3>1, <3>3, <3>4, <5>1
        <5>3. u = v + d
          BY <3>3, <3>9, <4>1, <5>1
        <5>4. g[j] = u /\ g[j - 1] = time
          BY <3>2, <4>1, <5>1
        <5> QED
          BY <1>2, <4>2, <5>2, <5>3, <5>4
      <4> QED
        BY <3>8, <3>9, <4>3
    <3>11. CASE j # i + 1
      <4>1. g[j - 1] = s[(j - 1) - 1] /\ j - i # 1
        BY <1>11, <2>1, <2>4, <3>11
      <4>2. e = d /\ d \in Int
        BY <3>2, <3>6, <3>7, <3>9, <4>1
      <4>3. g[j] = g[j - 1] + e /\ g[j - 1] <= g[j] /\ g[j] >= 1 /\ g[j] \in Int /\ g[j - 1] \in Int
        BY <1>12, <3>1, <3>2, <3>3, <3>9, <4>1, <4>2
      <4> QED
        BY <3>8, <3>9, <4>3
    <3> QED
      BY <3>10, <3>11
  <2> QED
    BY <2>1, <2>2, <2>3, <2>4
<1>14. AddsUp(g, N, Len(N))
  <2>1. s[0] = 0 /\ 0 \in 0 .. len + 1
    BY <1>2, <1>3 DEF AddsUp
  <2>2. g[0] = 0
    BY <1>4, <1>11, <2>1
  <2>3. \A j \in 0 .. len + 1 : g[j] \in Int
    BY <1>2, <1>13, <2>2
  <2>4. g \in [0 .. len + 1 -> Int]
    BY <1>11, <2>3
  <2> QED
    BY <1>10, <1>13, <2>2, <2>4 DEF AddsUp
<1>15. OnList(N) /\ Sums(N) = g
  BY <1>9, <1>10, <1>13, <1>14, FromSums
<1>16. \A j \in 1 .. len + 1 : g[j] = IF j <= i - 1 THEN s[j] ELSE IF j = (i - 1) + 1 THEN time ELSE s[j - 1]
  BY <1>2, <1>4, <1>11
<1>17. \A j \in 1 .. len : j <= i - 1 <=> s[j] <= time
  BY <1>2, <1>4
<1> QED
  BY <1>1, <1>5, <1>6, <1>10, <1>13, <1>15, <1>16, <1>17

\* The list that del_timer makes, by the sums of its distances.
LEMMA DelTimerSays ==
  ASSUME TimerInv, NEW p \in Proc, DelTimer(p)
  PROVE  \E i \in 1 .. Len(timer_list) :
           /\ timer_list[i].proc = p
           /\ OnList(timer_list') /\ Len(timer_list') = Len(timer_list) - 1
           /\ \A j \in 1 .. Len(timer_list) - 1 :
                /\ timer_list'[j].proc = IF j < i THEN timer_list[j].proc ELSE timer_list[j + 1].proc
                /\ Sums(timer_list')[j] = IF j < i THEN Sums(timer_list)[j] ELSE Sums(timer_list)[j + 1]
<1>1. PICK i \in PlacesOf(p) : timer_list' = SubSeq(timer_list, 1, i - 1) \o Behind(i, timer_list[i].expires)
  BY DEF DelTimer
<1>2. PICK L, len, s : L = timer_list /\ len = Len(timer_list) /\ s = Sums(timer_list)
  OBVIOUS
<1>3. L \in Seq(Distance) /\ len = Len(L) /\ len \in Nat /\ OnList(L)
  BY <1>2 DEF TimerInv, OnList
<1>4. i \in 1 .. len /\ L[i].proc = p /\ i \in 0 .. len
  BY <1>2, <1>3 DEF PlacesOf
<1>5. /\ AddsUp(s, L, len)
      /\ \A j, k \in 0 .. len : j <= k => s[j] <= s[k]
      /\ \A j \in 1 .. len : s[j] >= 1
  BY <1>2, <1>3, SumsRise
<1>6. \A j \in 0 .. len : s[j] \in Int
  BY <1>5 DEF AddsUp
<1>7. \A j \in 1 .. len : L[j].expires \in Int
  BY <1>3, Places
<1>8. PICK c, b, N : c = L[i].expires /\ b = Behind(i, L[i].expires) /\ N = timer_list'
  OBVIOUS
<1>9. /\ b \in Seq(Distance) /\ Len(b) = len - i
      /\ \A j \in 1 .. len - i : /\ b[j].proc = L[i + j].proc
                                 /\ b[j].expires = L[i + j].expires + (IF j = 1 THEN c ELSE 0)
  <2>1. timer_list \in Seq(Distance) /\ i \in 0 .. Len(timer_list) /\ L[i].expires \in Int
    BY <1>2, <1>3, <1>4, <1>7
  <2>2. Moved(timer_list, i, L[i].expires, Behind(i, L[i].expires))
    BY <2>1, BehindIs
  <2> QED
    BY <1>2, <1>8, <2>2 DEF Moved
<1>10. N = SubSeq(L, 1, i - 1) \o b
  BY <1>1, <1>2, <1>8
<1>11. /\ N \in Seq(Distance) /\ Len(N) = (i - 1) + Len(b)
       /\ \A j \in 1 .. Len(N) : N[j] = IF j < i THEN L[j] ELSE b[j - (i - 1)]
  <2>1. L \in Seq(Distance) /\ i \in 1 .. Len(L) /\ b \in Seq(Distance)
    BY <1>3, <1>4, <1>9
  <2> QED
    BY <1>10, <2>1, Closed
<1>12. Len(N) = len - 1 /\ len - 1 \in Nat
  BY <1>3, <1>4, <1>9, <1>11
<1>13. PICK g : g = [j \in 0 .. len - 1 |-> IF j < i THEN s[j] ELSE s[j + 1]]
  OBVIOUS
<1>14. ASSUME NEW j \in 1 .. len - 1
       PROVE  /\ N[j].proc = IF j < i THEN L[j].proc ELSE L[j + 1].proc
              /\ g[j] \in Int /\ g[j - 1] \in Int
              /\ g[j] = g[j - 1] + N[j].expires /\ g[j - 1] <= g[j] /\ g[j] >= 1
  <2>1. /\ j - 1 \in 0 .. len - 1 /\ j \in 0 .. len - 1 /\ j \in 1 .. Len(N) /\ i \in Nat /\ j \in Nat
        /\ j \in 1 .. len /\ j + 1 \in 1 .. len /\ j \in 0 .. len /\ j + 1 \in 0 .. len /\ j - 1 \in 0 .. len
        /\ (j - 1) + 1 = j /\ (j + 1) - 1 = j
    BY <1>3, <1>4, <1>12
  <2>2. PICK u, v, w, d, e, h : /\ u = s[j - 1] /\ v = s[j] /\ w = s[j + 1]
                                /\ d = L[j].expires /\ e = L[j + 1].expires /\ h = N[j].expires
    OBVIOUS
  <2>3. /\ u \in Int /\ v \in Int /\ w \in Int /\ d \in Int /\ e \in Int
        /\ u <= v /\ v <= w /\ v >= 1 /\ v = u + d /\ w = v + e
    <3>1. s[j] = s[j - 1] + L[j].expires
      BY <1>5, <2>1 DEF AddsUp
    <3>2. s[j + 1] = s[j] + L[j + 1].expires
      BY <1>5, <2>1 DEF AddsUp
    <3>3. s[j - 1] <= s[j] /\ s[j] <= s[j + 1]
      BY <1>5, <2>1
    <3>4. s[j] >= 1
      BY <1>5, <2>1
    <3> QED
      BY <1>6, <1>7, <2>1, <2>2, <3>1, <3>2, <3>3, <3>4
  <2>4. CASE j < i
    <3>1. g[j] = v /\ g[j - 1] = u
      BY <1>13, <2>1, <2>2, <2>4
    <3>2. N[j].proc = L[j].proc /\ h = d
      BY <1>11, <2>1, <2>2, <2>4
    <3> QED
      BY <2>2, <2>3, <2>4, <3>1, <3>2
  <2>5. CASE ~(j < i)
    <3>1. g[j] = w
      BY <1>13, <2>1, <2>2, <2>5
    <3>2. PICK k : k = j - (i - 1)
      OBVIOUS
    <3>3. k \in 1 .. len - i /\ i + k = j + 1
      BY <1>3, <1>4, <2>1, <2>5, <3>2
    <3>4. N[j] = b[k]
      BY <1>11, <2>1, <2>5, <3>2
    <3>5. N[j].proc = L[j + 1].proc /\ N[j].expires = L[j + 1].expires + (IF k = 1 THEN c ELSE 0)
      BY <1>9, <3>3, <3>4
    <3>6. CASE j = i
      <4>1. g[j - 1] = u /\ k = 1 /\ c = d
        BY <1>8, <1>13, <2>1, <2>2, <3>2, <3>6
      <4>2. h = e + d
        BY <2>2, <2>3, <3>5, <4>1
      <4> QED
        BY <2>2, <2>3, <2>5, <3>1, <3>5, <4>1, <4>2
    <3>7. CASE j # i
      <4>1. g[j - 1] = v /\ k # 1
        BY <1>13, <2>1, <2>2, <2>5, <3>2, <3>7
      <4>2. h = e
        BY <2>2, <2>3, <3>5, <4>1
      <4> QED
        BY <2>2, <2>3, <2>5, <3>1, <3>5, <4>1, <4>2
    <3> QED
      BY <3>6, <3>7
  <2> QED
    BY <2>4, <2>5
<1>15. AddsUp(g, N, Len(N))
  <2>1. s[0] = 0 /\ 0 \in 0 .. len - 1 /\ 0 < i
    BY <1>4, <1>5, <1>12 DEF AddsUp
  <2>2. g[0] = 0
    BY <1>13, <2>1
  <2>3. \A j \in 0 .. len - 1 : g[j] \in Int
    BY <1>3, <1>14, <2>2
  <2>4. g \in [0 .. len - 1 -> Int]
    BY <1>13, <2>3
  <2> QED
    BY <1>12, <1>14, <2>2, <2>4 DEF AddsUp
<1>16. OnList(N) /\ Sums(N) = g
  BY <1>11, <1>12, <1>14, <1>15, FromSums
<1>17. \A j \in 1 .. len - 1 : g[j] = IF j < i THEN s[j] ELSE s[j + 1]
  BY <1>3, <1>13
<1> QED
  BY <1>2, <1>4, <1>8, <1>12, <1>14, <1>16, <1>17

\* The timers that run_timer_list ends are those with one tick left.
LEMMA EndingIs ==
  ASSUME TimerInv, NEW n, n = Ending, NEW s, s = Sums(timer_list)
  PROVE  /\ n \in 0 .. Len(timer_list)
         /\ \A j \in 1 .. n : s[j] = 1
         /\ \A j \in 1 .. Len(timer_list) : j <= n <=> s[j] <= 1
<1>1. PICK L, len, t : L = timer_list /\ len = Len(timer_list) /\ t = Behind(0, -1)
  OBVIOUS
<1>2. L \in Seq(Distance) /\ len = Len(L) /\ len \in Nat /\ OnList(L)
  BY <1>1 DEF TimerInv, OnList
<1>3. /\ AddsUp(s, L, len)
      /\ \A j, k \in 0 .. len : j <= k => s[j] <= s[k]
      /\ \A j \in 1 .. len : s[j] >= 1
  BY <1>1, <1>2, SumsRise
<1>4. \A j \in 0 .. len : s[j] \in Int
  BY <1>3 DEF AddsUp
<1>5. \A j \in 1 .. len : L[j].expires \in Int /\ L[j].expires >= 0
  BY <1>2, Places DEF OnList
<1>6. Len(t) = len /\ \A j \in 1 .. len : t[j].expires = L[j].expires + (IF j = 1 THEN -1 ELSE 0)
  <2>1. timer_list \in Seq(Distance) /\ 0 \in 0 .. Len(timer_list) /\ -1 \in Int
    BY <1>1, <1>2
  <2>2. Moved(timer_list, 0, -1, Behind(0, -1))
    BY <2>1, BehindIs
  <2>3. /\ Len(t) = len - 0
        /\ \A j \in 1 .. len - 0 : t[j].expires = L[0 + j].expires + (IF j = 1 THEN -1 ELSE 0)
    BY <1>1, <2>2 DEF Moved
  <2>4. len - 0 = len /\ \A j \in 1 .. len : 0 + j = j
    BY <1>2
  <2> QED
    BY <2>3, <2>4
<1>7. /\ n \in 0 .. len
      /\ n < len => t[n + 1].expires # 0
      /\ \A j \in 0 .. len : j < n => t[j + 1].expires = 0
  <2> DEFINE S == {j \in 0 .. len : j < len => t[j + 1].expires # 0}
  <2>1. n = Min(S)
    BY <1>1, <1>6 DEF Ending
  <2>2. len \in S /\ S \in SUBSET Nat
    BY <1>2
  <2>3. n \in S /\ \A j \in S : n <= j
    BY <2>1, <2>2, MinIs
  <2>4. n \in 0 .. len /\ (n < len => t[n + 1].expires # 0)
    BY <2>3
  <2>5. ASSUME NEW j \in 0 .. len, j < n PROVE t[j + 1].expires = 0
    <3>1. j \notin S
      BY <1>2, <2>3, <2>4, <2>5
    <3> QED
      BY <1>2, <2>4, <2>5, <3>1
  <2> QED
    BY <2>4, <2>5
<1> DEFINE D == {j \in Nat : j <= n => s[j] = IF j = 0 THEN 0 ELSE 1}
<1>8. 0 \in D
  <2>1. s[0] = 0
    BY <1>3 DEF AddsUp
  <2> QED
    BY <2>1
<1>9. ASSUME NEW j \in Nat, j \in D PROVE j + 1 \in D
  <2> SUFFICES ASSUME j + 1 <= n PROVE s[j + 1] = 1
    OBVIOUS
  <2>1. j < n /\ j <= n /\ j \in 0 .. len /\ j + 1 \in 1 .. len /\ (j + 1) - 1 = j /\ j + 1 # 0
    BY <1>2, <1>7
  <2>2. s[j] = IF j = 0 THEN 0 ELSE 1
    BY <1>9, <2>1
  <2>3. s[j + 1] = s[j] + L[j + 1].expires
    BY <1>3, <2>1 DEF AddsUp
  <2>4. t[j + 1].expires = 0
    BY <1>7, <2>1
  <2>5. t[j + 1].expires = L[j + 1].expires + (IF j + 1 = 1 THEN -1 ELSE 0) /\ L[j + 1].expires \in Int
    BY <1>5, <1>6, <2>1
  <2>6. j + 1 = 1 <=> j = 0
    OBVIOUS
  <2>7. PICK d, u : d = L[j + 1].expires /\ u = s[j]
    OBVIOUS
  <2>8. CASE j = 0
    BY <2>2, <2>3, <2>4, <2>5, <2>6, <2>7, <2>8
  <2>9. CASE j # 0
    BY <2>2, <2>3, <2>4, <2>5, <2>6, <2>7, <2>9
  <2> QED
    BY <2>8, <2>9
<1> HIDE DEF D
<1>10. \A j \in Nat : j \in D
  BY <1>8, <1>9, Induct
<1>11. ASSUME NEW j \in 0 .. n PROVE s[j] = IF j = 0 THEN 0 ELSE 1
  <2>1. j \in Nat /\ j <= n
    BY <1>2, <1>7
  <2> QED
    BY <1>10, <2>1 DEF D
<1>12. \A j \in 1 .. n : s[j] = 1
  <2>1. \A j \in 1 .. n : j \in 0 .. n /\ j # 0
    BY <1>2, <1>7
  <2> QED
    BY <1>11, <2>1
<1>13. ASSUME NEW j \in 1 .. len PROVE j <= n <=> s[j] <= 1
  <2>1. j \in 0 .. len /\ s[j] \in Int /\ n \in Nat
    BY <1>2, <1>4, <1>7
  <2>2. CASE j <= n
    <3>1. j \in 1 .. n
      BY <2>1, <2>2
    <3> QED
      BY <1>12, <2>2, <3>1
  <2>3. CASE ~(j <= n)
    <3>1. n + 1 \in 1 .. len /\ n + 1 \in 0 .. len /\ n + 1 <= j /\ n < len /\ (n + 1) - 1 = n /\ n \in 0 .. n
      BY <1>2, <1>7, <2>1, <2>3
    <3>2. s[n + 1] = s[n] + L[n + 1].expires /\ s[n] = IF n = 0 THEN 0 ELSE 1
      BY <1>3, <1>11, <3>1 DEF AddsUp
    <3>3. t[n + 1].expires # 0
      BY <1>7, <3>1
    <3>4. t[n + 1].expires = L[n + 1].expires + (IF n + 1 = 1 THEN -1 ELSE 0)
      BY <1>6, <3>1
    <3>5. PICK d, u, v : d = L[n + 1].expires /\ u = s[n] /\ v = s[n + 1]
      OBVIOUS
    <3>6. d \in Int /\ d >= 0 /\ v >= 1 /\ v \in Int /\ v <= s[j] /\ v = u + d
      BY <1>3, <1>4, <1>5, <2>1, <3>1, <3>2, <3>5
    <3>7. v > 1
      <4>1. CASE n = 0
        BY <3>2, <3>3, <3>4, <3>5, <3>6, <4>1
      <4>2. CASE n # 0
        <5>1. n + 1 # 1
          BY <2>1, <4>2
        <5>2. u = 1 /\ d # 0
          BY <3>2, <3>3, <3>4, <3>5, <3>6, <4>2, <5>1
        <5> QED
          BY <3>6, <5>2
      <4> QED
        BY <4>1, <4>2
    <3> QED
      BY <2>1, <2>3, <3>6, <3>7
  <2> QED
    BY <2>2, <2>3
<1> QED
  BY <1>1, <1>7, <1>12, <1>13

\* The list that run_timer_list leaves, by the sums of its distances.
LEMMA RunTimerListSays ==
  ASSUME TimerInv, RunTimerList
  PROVE  \E n \in 0 .. Len(timer_list) :
           /\ \A j \in 1 .. Len(timer_list) : j <= n <=> Sums(timer_list)[j] <= 1
           /\ woken' = [j \in 1 .. n |-> timer_list[j].proc]
           /\ OnList(timer_list') /\ Len(timer_list') = Len(timer_list) - n
           /\ \A j \in 1 .. Len(timer_list) - n :
                /\ timer_list'[j].proc = timer_list[n + j].proc
                /\ Sums(timer_list')[j] = Sums(timer_list)[n + j] - 1
<1>1. PICK L, len, s, n, N : /\ L = timer_list /\ len = Len(timer_list) /\ s = Sums(timer_list)
                             /\ n = Ending /\ N = timer_list'
  OBVIOUS
<1>2. L \in Seq(Distance) /\ len = Len(L) /\ len \in Nat /\ OnList(L)
  BY <1>1 DEF TimerInv, OnList
<1>3. /\ AddsUp(s, L, len)
      /\ \A j, k \in 0 .. len : j <= k => s[j] <= s[k]
  BY <1>1, <1>2, SumsRise
<1>4. \A j \in 0 .. len : s[j] \in Int
  BY <1>3 DEF AddsUp
<1>5. \A j \in 1 .. len : L[j].expires \in Int
  BY <1>2, Places
<1>6. n \in 0 .. len /\ (\A j \in 1 .. n : s[j] = 1) /\ \A j \in 1 .. len : j <= n <=> s[j] <= 1
  BY <1>1, EndingIs
<1>7. len - n \in Nat /\ n \in Nat
  BY <1>2, <1>6
<1>8. woken' = [j \in 1 .. n |-> timer_list[j].proc]
  BY <1>1 DEF RunTimerList
<1>9. /\ N \in Seq(Distance) /\ Len(N) = len - n
      /\ \A j \in 1 .. len - n : /\ N[j].proc = L[n + j].proc
                                 /\ N[j].expires = L[n + j].expires + (IF n = 0 /\ j = 1 THEN -1 ELSE 0)
  <2>1. CASE n = 0
    <3>1. timer_list \in Seq(Distance) /\ 0 \in 0 .. Len(timer_list) /\ -1 \in Int
      BY <1>1, <1>2
    <3>2. Moved(timer_list, 0, -1, Behind(0, -1))
      BY <3>1, BehindIs
    <3>3. N = Behind(0, -1)
      BY <1>1, <2>1 DEF RunTimerList
    <3>4. /\ N \in Seq(Distance) /\ Len(N) = len - 0
          /\ \A j \in 1 .. len - 0 : /\ N[j].proc = L[0 + j].proc
                                     /\ N[j].expires = L[0 + j].expires + (IF j = 1 THEN -1 ELSE 0)
      BY <1>1, <3>2, <3>3 DEF Moved
    <3> QED
      BY <2>1, <3>4
  <2>2. CASE n # 0
    <3>1. N = SubSeq(L, n + 1, Len(L))
      BY <1>1, <2>2 DEF RunTimerList
    <3>2. N \in Seq(Distance) /\ Len(N) = Len(L) - n /\ \A j \in 1 .. Len(L) - n : N[j] = L[n + j]
      <4>1. n \in 0 .. Len(L)
        BY <1>2, <1>6
      <4> QED
        BY <1>2, <3>1, <4>1, LastOf
    <3>3. \A j \in 1 .. len - n : n + j \in 1 .. len
      BY <1>2, <1>6
    <3> QED
      BY <1>2, <1>5, <2>2, <3>2, <3>3
  <2> QED
    BY <2>1, <2>2
<1>10. PICK g : g = [j \in 0 .. len - n |-> IF j = 0 THEN 0 ELSE s[n + j] - 1]
  OBVIOUS
<1>11. ASSUME NEW j \in 1 .. len - n
       PROVE  /\ g[j] = s[n + j] - 1
              /\ g[j] \in Int /\ g[j - 1] \in Int
              /\ g[j] = g[j - 1] + N[j].expires /\ g[j - 1] <= g[j] /\ g[j] >= 1
  <2>1. /\ j \in 0 .. len - n /\ j - 1 \in 0 .. len - n /\ j # 0 /\ (j - 1 = 0 <=> j = 1)
        /\ n + j \in 1 .. len /\ n + j \in 0 .. len /\ (n + j) - 1 \in 0 .. len /\ n + (j - 1) = (n + j) - 1
        /\ ~(n + j <= n) /\ (n + j) - 1 <= n + j
    BY <1>2, <1>6
  <2>2. g[j] = s[n + j] - 1 /\ g[j - 1] = IF j = 1 THEN 0 ELSE s[(n + j) - 1] - 1
    BY <1>10, <2>1
  <2>3. PICK u, v, d, e : u = s[(n + j) - 1] /\ v = s[n + j] /\ d = L[n + j].expires /\ e = N[j].expires
    OBVIOUS
  <2>4. u \in Int /\ v \in Int /\ d \in Int /\ u <= v /\ v = u + d /\ v > 1
    <3>1. s[n + j] = s[(n + j) - 1] + L[n + j].expires
      BY <1>3, <2>1 DEF AddsUp
    <3>2. s[(n + j) - 1] <= s[n + j]
      BY <1>3, <2>1
    <3>3. ~(s[n + j] <= 1)
      BY <1>6, <2>1
    <3> QED
      BY <1>4, <1>5, <2>1, <2>3, <3>1, <3>2, <3>3
  <2>5. e = d + (IF n = 0 /\ j = 1 THEN -1 ELSE 0)
    BY <1>9, <2>3
  <2>6. CASE j = 1
    <3>1. g[j] = v - 1 /\ g[j - 1] = 0
      BY <2>2, <2>3, <2>6
    <3>2. u = IF n = 0 THEN 0 ELSE 1
      <4>1. (n + j) - 1 = n
        BY <1>7, <2>6
      <4>2. CASE n = 0
        BY <1>3, <2>3, <4>1, <4>2 DEF AddsUp
      <4>3. CASE n # 0
        <5>1. n \in 1 .. n
          BY <1>7, <4>3
        <5> QED
          BY <1>6, <2>3, <4>1, <4>3, <5>1
      <4> QED
        BY <4>2, <4>3
    <3> QED
      BY <2>2, <2>3, <2>4, <2>5, <2>6, <3>1, <3>2
  <2>7. CASE j # 1
    <3>1. g[j] = v - 1 /\ g[j - 1] = u - 1
      BY <2>2, <2>3, <2>7
    <3> QED
      BY <2>2, <2>3, <2>4, <2>5, <2>7, <3>1
  <2> QED
    BY <2>6, <2>7
<1>12. AddsUp(g, N, Len(N))
  <2>1. 0 \in 0 .. len - n
    BY <1>7
  <2>2. g[0] = 0
    BY <1>10, <2>1
  <2>3. \A j \in 0 .. len - n : g[j] \in Int
    BY <1>7, <1>11, <2>2
  <2>4. g \in [0 .. len - n -> Int]
    BY <1>10, <2>3
  <2> QED
    BY <1>9, <1>11, <2>2, <2>4 DEF AddsUp
<1>13. OnList(N) /\ Sums(N) = g
  BY <1>9, <1>11, <1>12, FromSums
<1> QED
  BY <1>1, <1>6, <1>8, <1>9, <1>11, <1>13

\* TimerSpec's timers for a list of distances.
Times(list) == [i \in 1 .. Len(list) |-> [proc |-> list[i].proc, left |-> Sums(list)[i]]]

Armed == [proc : Proc, left : Int]

\* They are timers of TimerSpec, one for each of the list.
LEMMA TimesAre ==
  ASSUME NEW list, OnList(list)
  PROVE  /\ Times(list) \in Seq(Armed) /\ Len(Times(list)) = Len(list)
         /\ \A i \in 1 .. Len(list) : /\ Times(list)[i] = [proc |-> list[i].proc, left |-> Sums(list)[i]]
                                      /\ Times(list)[i].proc = list[i].proc
                                      /\ Times(list)[i].left = Sums(list)[i]
<1>1. list \in Seq(Distance) /\ Len(list) \in Nat
  BY DEF OnList
<1>2. PICK s : s = Sums(list)
  OBVIOUS
<1>3. AddsUp(s, list, Len(list))
  BY <1>2, SumsRise
<1>4. \A i \in 1 .. Len(list) : s[i] \in Int
  BY <1>1, <1>3 DEF AddsUp
<1>5. \A i \in 1 .. Len(list) : list[i].proc \in Proc
  BY <1>1, Places
<1>6. PICK t : t = Times(list)
  OBVIOUS
<1>7. t = [i \in 1 .. Len(list) |-> [proc |-> list[i].proc, left |-> s[i]]]
  BY <1>2, <1>6 DEF Times
<1>8. \A i \in 1 .. Len(list) : [proc |-> list[i].proc, left |-> s[i]] \in Armed
  BY <1>4, <1>5 DEF Armed
<1>9. t \in [1 .. Len(list) -> Armed]
  BY <1>7, <1>8
<1>10. t \in Seq(Armed) /\ Len(t) = Len(list)
  BY <1>1, <1>9
<1>11. \A i \in 1 .. Len(list) : /\ t[i] = [proc |-> list[i].proc, left |-> s[i]]
                                 /\ t[i].proc = list[i].proc /\ t[i].left = s[i]
  BY <1>7
<1> QED
  BY <1>2, <1>6, <1>10, <1>11

\* What a timer in the n + 1-th place makes of the list.
LEMMA Inserted ==
  ASSUME NEW T, NEW s \in Seq(T), NEW n \in 0 .. Len(s), NEW x \in T, NEW r \in Seq(T),
         Len(r) = Len(s) + 1,
         \A j \in 1 .. Len(s) + 1 : r[j] = IF j <= n THEN s[j] ELSE IF j = n + 1 THEN x ELSE s[j - 1]
  PROVE  r = InsertAt(s, n + 1, x)
<1>1. PICK i, t, q : i = n + 1 /\ t = SubSeq(s, n + 1, Len(s)) /\ q = InsertAt(s, n + 1, x)
  OBVIOUS
<1>2. Len(s) \in Nat /\ n \in Nat /\ i \in 1 .. Len(s) + 1 /\ i - 1 = n
  BY <1>1
<1>3. t \in Seq(T) /\ Len(t) = Len(s) - n /\ \A j \in 1 .. Len(s) - n : t[j] = s[n + j]
  BY <1>1, LastOf
<1>4. q = SubSeq(s, 1, i - 1) \o <<x>> \o t
  BY <1>1 DEF InsertAt
<1>5. /\ q \in Seq(T) /\ Len(q) = i + Len(t)
      /\ \A j \in 1 .. Len(q) : q[j] = IF j < i THEN s[j] ELSE IF j = i THEN x ELSE t[j - i]
  <2>1. s \in Seq(T) /\ i \in 1 .. Len(s) + 1 /\ x \in T /\ t \in Seq(T)
    BY <1>2, <1>3
  <2>2. q \in Seq(T) /\ Joins(q, s, i, x, t)
    BY <1>4, <2>1, Spliced
  <2> QED
    BY <2>2 DEF Joins
<1>6. Len(q) = Len(s) + 1
  <2>1. Len(q) = i + Len(t) /\ Len(t) = Len(s) - n /\ i = n + 1
    BY <1>1, <1>3, <1>5
  <2> QED
    BY <1>2, <2>1
<1>7. ASSUME NEW j \in 1 .. Len(s) + 1 PROVE r[j] = q[j]
  <2>1. j \in Nat /\ j \in 1 .. Len(q)
    BY <1>2, <1>6
  <2>2. CASE j < i
    BY <1>1, <1>2, <1>5, <2>1, <2>2
  <2>3. CASE j = i
    BY <1>1, <1>2, <1>5, <2>1, <2>3
  <2>4. CASE j > i
    <3>1. j - i \in 1 .. Len(s) - n /\ n + (j - i) = j - 1
      BY <1>1, <1>2, <2>1, <2>4
    <3>2. ~(j < i) /\ j # i
      BY <1>2, <2>1, <2>4
    <3>3. q[j] = t[j - i]
      BY <1>5, <2>1, <3>2
    <3>4. t[j - i] = s[n + (j - i)]
      BY <1>3, <3>1
    <3>5. ~(j <= n) /\ j # n + 1
      BY <1>1, <1>2, <2>1, <2>4
    <3> QED
      BY <3>1, <3>3, <3>4, <3>5
  <2> QED
    BY <1>2, <2>1, <2>2, <2>3, <2>4
<1>8. r = q
  <2>1. Len(r) = Len(q) /\ \A j \in 1 .. Len(r) : r[j] = q[j]
    BY <1>6, <1>7
  <2> QED
    BY <1>5, <2>1, SameSeq
<1> QED
  BY <1>1, <1>8

\* What the list is without the timer in the i-th place.
LEMMA Removed ==
  ASSUME NEW T, NEW s \in Seq(T), NEW i \in 1 .. Len(s), NEW r \in Seq(T), Len(r) = Len(s) - 1,
         \A j \in 1 .. Len(s) - 1 : r[j] = IF j < i THEN s[j] ELSE s[j + 1]
  PROVE  r = RemoveAt(s, i)
<1>1. PICK t, q : t = SubSeq(s, i + 1, Len(s)) /\ q = RemoveAt(s, i)
  OBVIOUS
<1>2. Len(s) \in Nat /\ i \in Nat /\ i \in 0 .. Len(s)
  OBVIOUS
<1>3. t \in Seq(T) /\ Len(t) = Len(s) - i /\ \A j \in 1 .. Len(s) - i : t[j] = s[i + j]
  BY <1>1, <1>2, LastOf
<1>4. q = SubSeq(s, 1, i - 1) \o t
  BY <1>1 DEF RemoveAt
<1>5. /\ q \in Seq(T) /\ Len(q) = (i - 1) + Len(t)
      /\ \A j \in 1 .. Len(q) : q[j] = IF j < i THEN s[j] ELSE t[j - (i - 1)]
  <2>1. s \in Seq(T) /\ i \in 1 .. Len(s) /\ t \in Seq(T)
    BY <1>3
  <2> QED
    BY <1>4, <2>1, Closed
<1>6. Len(q) = Len(s) - 1
  BY <1>2, <1>3, <1>5
<1>7. ASSUME NEW j \in 1 .. Len(s) - 1 PROVE r[j] = q[j]
  <2>1. j \in Nat /\ j \in 1 .. Len(q)
    BY <1>2, <1>6
  <2>2. CASE j < i
    BY <1>5, <2>1, <2>2
  <2>3. CASE ~(j < i)
    <3>1. j - (i - 1) \in 1 .. Len(s) - i /\ i + (j - (i - 1)) = j + 1
      BY <1>2, <2>1, <2>3
    <3>2. q[j] = t[j - (i - 1)] /\ t[j - (i - 1)] = s[i + (j - (i - 1))]
      BY <1>3, <1>5, <2>1, <2>3, <3>1
    <3> QED
      BY <2>3, <3>1, <3>2
  <2> QED
    BY <2>2, <2>3
<1>8. r = q
  <2>1. Len(r) = Len(q) /\ \A j \in 1 .. Len(r) : r[j] = q[j]
    BY <1>6, <1>7
  <2> QED
    BY <1>5, <2>1, SameSeq
<1> QED
  BY <1>1, <1>8

\* add_timer sets a timer: it moves no other one.
LEMMA AddTimerSets ==
  ASSUME TimerInv, NEW p \in Proc, NEW time \in 1 .. MaxTime, AddTimer(p, time)
  PROVE  OnList(timer_list') /\ Absolute!Set(p, time)
<1>1. PICK L, N, s, u, r, q : /\ L = timer_list /\ N = timer_list' /\ s = Sums(timer_list) /\ u = Sums(timer_list')
                              /\ r = Times(timer_list) /\ q = Times(timer_list')
  OBVIOUS
<1>2. PICK n \in 0 .. Len(L) :
        /\ \A j \in 1 .. Len(L) : j <= n <=> s[j] <= time
        /\ OnList(N) /\ Len(N) = Len(L) + 1
        /\ \A j \in 1 .. Len(L) + 1 :
             /\ N[j].proc = IF j <= n THEN L[j].proc ELSE IF j = n + 1 THEN p ELSE L[j - 1].proc
             /\ u[j] = IF j <= n THEN s[j] ELSE IF j = n + 1 THEN time ELSE s[j - 1]
  BY <1>1, AddTimerSays
<1>3. OnList(L) /\ Len(L) \in Nat
  BY <1>1 DEF TimerInv, OnList
<1>4. /\ r \in Seq(Armed) /\ Len(r) = Len(L)
      /\ \A i \in 1 .. Len(L) : /\ r[i] = [proc |-> L[i].proc, left |-> s[i]]
                                /\ r[i].proc = L[i].proc /\ r[i].left = s[i]
  BY <1>1, <1>3, TimesAre
<1>5. /\ q \in Seq(Armed) /\ Len(q) = Len(N)
      /\ \A i \in 1 .. Len(N) : q[i] = [proc |-> N[i].proc, left |-> u[i]]
  BY <1>1, <1>2, TimesAre
<1>6. PICK x : x = [proc |-> p, left |-> time]
  OBVIOUS
<1>7. x \in Armed
  BY <1>6, TimerAssumption DEF Armed
<1>8. ASSUME NEW j \in 1 .. Len(r) + 1
      PROVE  q[j] = IF j <= n THEN r[j] ELSE IF j = n + 1 THEN x ELSE r[j - 1]
  <2>1. j \in 1 .. Len(L) + 1 /\ j \in 1 .. Len(N) /\ j \in Nat /\ n \in Nat
    BY <1>2, <1>3, <1>4
  <2>2. q[j] = [proc |-> N[j].proc, left |-> u[j]]
    BY <1>5, <2>1
  <2>3. CASE j <= n
    <3>1. j \in 1 .. Len(L)
      BY <1>2, <1>3, <2>1, <2>3
    <3>2. N[j].proc = L[j].proc /\ u[j] = s[j]
      BY <1>2, <2>1, <2>3
    <3> QED
      BY <1>4, <2>2, <2>3, <3>1, <3>2
  <2>4. CASE j = n + 1
    <3>1. ~(j <= n)
      BY <2>1, <2>4
    <3>2. N[j].proc = p /\ u[j] = time
      BY <1>2, <2>1, <2>4, <3>1
    <3> QED
      BY <1>6, <2>2, <2>4, <3>1, <3>2
  <2>5. CASE j > n + 1
    <3>1. ~(j <= n) /\ j # n + 1 /\ j - 1 \in 1 .. Len(L)
      BY <1>3, <2>1, <2>5
    <3>2. N[j].proc = L[j - 1].proc /\ u[j] = s[j - 1]
      BY <1>2, <2>1, <3>1
    <3>3. r[j - 1] = [proc |-> L[j - 1].proc, left |-> s[j - 1]]
      BY <1>4, <3>1
    <3> QED
      BY <2>2, <3>1, <3>2, <3>3
  <2> QED
    BY <2>1, <2>3, <2>4, <2>5
<1>9. q = InsertAt(r, n + 1, x)
  <2>1. r \in Seq(Armed) /\ n \in 0 .. Len(r) /\ x \in Armed /\ q \in Seq(Armed) /\ Len(q) = Len(r) + 1
    BY <1>2, <1>4, <1>5, <1>7
  <2> QED
    BY <1>8, <2>1, Inserted
<1>10. ~(\E i \in 1 .. Len(r) : r[i].proc = p)
  <2>1. PlacesOf(p) = {}
    BY DEF AddTimer
  <2>2. ~(\E i \in 1 .. Len(L) : L[i].proc = p)
    BY <1>1, <2>1 DEF PlacesOf
  <2> QED
    BY <1>4, <2>2
<1>11. n \in 0 .. Len(r) /\ \A i \in 1 .. Len(r) : i <= n <=> r[i].left <= time
  BY <1>2, <1>4
<1>12. woken' = woken
  BY DEF AddTimer
<1>13. /\ r = [i \in 1 .. Len(timer_list) |-> [proc |-> timer_list[i].proc, left |-> TicksLeft(i)]]
       /\ q = [i \in 1 .. Len(timer_list') |-> [proc |-> timer_list'[i].proc, left |-> TicksLeft(i)']]
  BY <1>1 DEF Times, TicksLeft
<1>14. q = InsertAt(r, n + 1, [proc |-> p, left |-> time])
  BY <1>6, <1>9
<1>15. q = SubSeq(r, 1, (n + 1) - 1) \o <<[proc |-> p, left |-> time]>> \o SubSeq(r, n + 1, Len(r))
  BY <1>14 DEF InsertAt
<1>16. Absolute!Set(p, time)
  <2> DEFINE R == [i \in 1 .. Len(timer_list) |-> [proc |-> timer_list[i].proc, left |-> TicksLeft(i)]]
  <2>1. r = R /\ q = R'
    BY <1>13
  <2> HIDE DEF R
  <2>2. ~(\E i \in 1 .. Len(R) : R[i].proc = p)
    BY <1>10, <2>1
  <2>3. n \in 0 .. Len(R) /\ \A i \in 1 .. Len(R) : i <= n <=> R[i].left <= time
    BY <1>11, <2>1
  <2>4. R' = SubSeq(R, 1, (n + 1) - 1) \o <<[proc |-> p, left |-> time]>> \o SubSeq(R, n + 1, Len(R))
    BY <1>15, <2>1
  <2> USE DEF R
  <2>5. ~Absolute!Armed(p)
    BY <2>2 DEF Absolute!Armed
  <2>6. Absolute!Until(n, time)
    BY <2>3 DEF Absolute!Until
  <2> QED
    BY <1>12, <2>3, <2>4, <2>5, <2>6 DEF Absolute!Set, Absolute!InsertAt
<1> QED
  BY <1>1, <1>2, <1>16

\* del_timer cancels a timer: it moves no other one.
LEMMA DelTimerCancels ==
  ASSUME TimerInv, NEW p \in Proc, DelTimer(p)
  PROVE  OnList(timer_list') /\ Absolute!Cancel(p)
<1>1. PICK L, N, s, u, r, q : /\ L = timer_list /\ N = timer_list' /\ s = Sums(timer_list) /\ u = Sums(timer_list')
                              /\ r = Times(timer_list) /\ q = Times(timer_list')
  OBVIOUS
<1>2. PICK i \in 1 .. Len(L) :
        /\ L[i].proc = p /\ OnList(N) /\ Len(N) = Len(L) - 1
        /\ \A j \in 1 .. Len(L) - 1 :
             /\ N[j].proc = IF j < i THEN L[j].proc ELSE L[j + 1].proc
             /\ u[j] = IF j < i THEN s[j] ELSE s[j + 1]
  BY <1>1, DelTimerSays
<1>3. OnList(L) /\ Len(L) \in Nat
  BY <1>1 DEF TimerInv, OnList
<1>4. /\ r \in Seq(Armed) /\ Len(r) = Len(L)
      /\ \A j \in 1 .. Len(L) : /\ r[j] = [proc |-> L[j].proc, left |-> s[j]] /\ r[j].proc = L[j].proc
  BY <1>1, <1>3, TimesAre
<1>5. /\ q \in Seq(Armed) /\ Len(q) = Len(N)
      /\ \A j \in 1 .. Len(N) : q[j] = [proc |-> N[j].proc, left |-> u[j]]
  BY <1>1, <1>2, TimesAre
<1>6. ASSUME NEW j \in 1 .. Len(r) - 1 PROVE q[j] = IF j < i THEN r[j] ELSE r[j + 1]
  <2>1. j \in 1 .. Len(L) - 1 /\ j \in 1 .. Len(N) /\ j \in 1 .. Len(L) /\ j + 1 \in 1 .. Len(L)
    BY <1>2, <1>3, <1>4
  <2>2. q[j] = [proc |-> N[j].proc, left |-> u[j]]
    BY <1>5, <2>1
  <2>3. CASE j < i
    <3>1. N[j].proc = L[j].proc /\ u[j] = s[j]
      BY <1>2, <2>1, <2>3
    <3> QED
      BY <1>4, <2>1, <2>2, <2>3, <3>1
  <2>4. CASE ~(j < i)
    <3>1. N[j].proc = L[j + 1].proc /\ u[j] = s[j + 1]
      BY <1>2, <2>1, <2>4
    <3>2. r[j + 1] = [proc |-> L[j + 1].proc, left |-> s[j + 1]]
      BY <1>4, <2>1
    <3> QED
      BY <2>2, <2>4, <3>1, <3>2
  <2> QED
    BY <2>3, <2>4
<1>7. q = RemoveAt(r, i)
  <2>1. r \in Seq(Armed) /\ i \in 1 .. Len(r) /\ q \in Seq(Armed) /\ Len(q) = Len(r) - 1
    BY <1>2, <1>4, <1>5
  <2> QED
    BY <1>6, <2>1, Removed
<1>8. i \in 1 .. Len(r) /\ r[i].proc = p
  BY <1>2, <1>4
<1>9. woken' = woken
  BY DEF DelTimer
<1>10. /\ r = [j \in 1 .. Len(timer_list) |-> [proc |-> timer_list[j].proc, left |-> TicksLeft(j)]]
       /\ q = [j \in 1 .. Len(timer_list') |-> [proc |-> timer_list'[j].proc, left |-> TicksLeft(j)']]
  BY <1>1 DEF Times, TicksLeft
<1>11. q = SubSeq(r, 1, i - 1) \o SubSeq(r, i + 1, Len(r))
  BY <1>7 DEF RemoveAt
<1>12. Absolute!Cancel(p)
  <2> DEFINE R == [j \in 1 .. Len(timer_list) |-> [proc |-> timer_list[j].proc, left |-> TicksLeft(j)]]
  <2>1. r = R /\ q = R'
    BY <1>10
  <2> HIDE DEF R
  <2>2. i \in 1 .. Len(R) /\ R[i].proc = p /\ R' = SubSeq(R, 1, i - 1) \o SubSeq(R, i + 1, Len(R))
    BY <1>8, <1>11, <2>1
  <2> USE DEF R
  <2> QED
    BY <1>9, <2>2 DEF Absolute!Cancel, Absolute!RemoveAt
<1> QED
  BY <1>1, <1>2, <1>12

\* run_timer_list is a tick: it ends the timers with one tick left, in their
\* order, and every other one is a tick nearer.
LEMMA RunTimerListTicks ==
  ASSUME TimerInv, RunTimerList
  PROVE  OnList(timer_list') /\ Absolute!Tick
<1>1. PICK L, N, s, u, r, q : /\ L = timer_list /\ N = timer_list' /\ s = Sums(timer_list) /\ u = Sums(timer_list')
                              /\ r = Times(timer_list) /\ q = Times(timer_list')
  OBVIOUS
<1>2. PICK n \in 0 .. Len(L) :
        /\ \A j \in 1 .. Len(L) : j <= n <=> s[j] <= 1
        /\ woken' = [j \in 1 .. n |-> L[j].proc]
        /\ OnList(N) /\ Len(N) = Len(L) - n
        /\ \A j \in 1 .. Len(L) - n : N[j].proc = L[n + j].proc /\ u[j] = s[n + j] - 1
  BY <1>1, RunTimerListSays
<1>3. OnList(L) /\ Len(L) \in Nat /\ n \in Nat
  BY <1>1, <1>2 DEF TimerInv, OnList
<1>4. /\ r \in Seq(Armed) /\ Len(r) = Len(L)
      /\ \A j \in 1 .. Len(L) : /\ r[j] = [proc |-> L[j].proc, left |-> s[j]]
                                /\ r[j].proc = L[j].proc /\ r[j].left = s[j]
  BY <1>1, <1>3, TimesAre
<1>5. q = [j \in 1 .. Len(N) |-> [proc |-> N[j].proc, left |-> u[j]]]
  BY <1>1 DEF Times
<1>6. ASSUME NEW j \in 1 .. Len(L) - n
      PROVE  [proc |-> N[j].proc, left |-> u[j]] = [r[n + j] EXCEPT !.left = @ - 1]
  <2>1. n + j \in 1 .. Len(L)
    BY <1>3
  <2>2. r[n + j] = [proc |-> L[n + j].proc, left |-> s[n + j]]
    BY <1>4, <2>1
  <2>3. N[j].proc = L[n + j].proc /\ u[j] = s[n + j] - 1
    BY <1>2
  <2> QED
    BY <2>2, <2>3
<1>7. q = [j \in 1 .. Len(r) - n |-> [r[n + j] EXCEPT !.left = @ - 1]]
  BY <1>2, <1>4, <1>5, <1>6
<1>8. woken' = [j \in 1 .. n |-> r[j].proc]
  <2>1. \A j \in 1 .. n : j \in 1 .. Len(L)
    BY <1>2, <1>3
  <2> QED
    BY <1>2, <1>4, <2>1
<1>9. n \in 0 .. Len(r) /\ \A i \in 1 .. Len(r) : i <= n <=> r[i].left <= 1
  BY <1>2, <1>4
<1>10. /\ r = [j \in 1 .. Len(timer_list) |-> [proc |-> timer_list[j].proc, left |-> TicksLeft(j)]]
       /\ q = [j \in 1 .. Len(timer_list') |-> [proc |-> timer_list'[j].proc, left |-> TicksLeft(j)']]
  BY <1>1 DEF Times, TicksLeft
<1>11. Absolute!Tick
  <2> DEFINE R == [j \in 1 .. Len(timer_list) |-> [proc |-> timer_list[j].proc, left |-> TicksLeft(j)]]
  <2>1. r = R /\ q = R'
    BY <1>10
  <2> HIDE DEF R
  <2>2. n \in 0 .. Len(R) /\ \A i \in 1 .. Len(R) : i <= n <=> R[i].left <= 1
    BY <1>9, <2>1
  <2>3. woken' = [j \in 1 .. n |-> R[j].proc]
    BY <1>8, <2>1
  <2>4. R' = [j \in 1 .. Len(R) - n |-> [R[n + j] EXCEPT !.left = @ - 1]]
    BY <1>7, <2>1
  <2> USE DEF R
  <2>5. Absolute!Until(n, 1)
    BY <2>2 DEF Absolute!Until
  <2> QED
    BY <2>2, <2>3, <2>4, <2>5 DEF Absolute!Tick
<1> QED
  BY <1>1, <1>2, <1>11

\* The distances are never negative and the first is not 0: run_timer_list
\* asserts the latter before it takes a tick off, which therefore never wraps.
THEOREM OnListAlways == Timers => []TimerInv
<1>1. NoTimers => TimerInv
  BY DEF NoTimers, TimerInv, OnList
<1>2. TimerInv /\ [TimersNext]_timer_vars => TimerInv'
  <2> SUFFICES ASSUME TimerInv, [TimersNext]_timer_vars PROVE TimerInv'
    OBVIOUS
  <2>1. ASSUME NEW p \in Proc, DelTimer(p) PROVE TimerInv'
    BY <2>1, DelTimerCancels DEF TimerInv
  <2>2. ASSUME NEW p \in Proc, NEW time \in 1 .. MaxTime, AddTimer(p, time) PROVE TimerInv'
    BY <2>2, AddTimerSets DEF TimerInv
  <2>3. CASE RunTimerList
    BY <2>3, RunTimerListTicks DEF TimerInv
  <2>4. CASE UNCHANGED timer_vars
    BY <2>4 DEF TimerInv, timer_vars
  <2> QED
    BY <2>1, <2>2, <2>3, <2>4 DEF TimersNext
<1> QED
  BY <1>1, <1>2, PTL DEF Timers

\* The list of distances is a list of times: a timer that add_timer links ends
\* with the tick it was set for, whatever is linked or unlinked before or
\* behind it, and those of one tick end in the order they were set.
THEOREM OnTime == Timers => TimersOnTime
<1>1. NoTimers => Absolute!Init
  <2> SUFFICES ASSUME NoTimers PROVE Absolute!Init
    OBVIOUS
  <2>1. timer_list = <<>> /\ woken = <<>>
    BY DEF NoTimers
  <2>2. Len(timer_list) = 0
    BY <2>1
  <2>3. [i \in 1 .. Len(timer_list) |-> [proc |-> timer_list[i].proc, left |-> TicksLeft(i)]] = <<>>
    BY <2>2
  <2> QED
    BY <2>1, <2>3 DEF Absolute!Init
<1>2. TimerInv /\ [TimersNext]_timer_vars =>
        [Absolute!Next]_<<[i \in 1 .. Len(timer_list) |-> [proc |-> timer_list[i].proc, left |-> TicksLeft(i)]], woken>>
  <2> SUFFICES ASSUME TimerInv, [TimersNext]_timer_vars
               PROVE  \/ Absolute!Next
                      \/ UNCHANGED <<[i \in 1 .. Len(timer_list) |->
                                        [proc |-> timer_list[i].proc, left |-> TicksLeft(i)]], woken>>
    OBVIOUS
  <2>1. ASSUME NEW p \in Proc, DelTimer(p) PROVE Absolute!Next
    <3>1. Absolute!Cancel(p)
      BY <2>1, DelTimerCancels
    <3> QED
      BY <3>1 DEF Absolute!Next
  <2>2. ASSUME NEW p \in Proc, NEW time \in 1 .. MaxTime, AddTimer(p, time) PROVE Absolute!Next
    <3>1. Absolute!Set(p, time)
      BY <2>2, AddTimerSets
    <3> QED
      BY <3>1 DEF Absolute!Next
  <2>3. CASE RunTimerList
    <3>1. Absolute!Tick
      BY <2>3, RunTimerListTicks
    <3> QED
      BY <3>1 DEF Absolute!Next
  <2>4. CASE UNCHANGED timer_vars
    <3>1. timer_list' = timer_list /\ woken' = woken
      BY <2>4 DEF timer_vars
    <3> QED
      BY <3>1 DEF TicksLeft
  <2> QED
    BY <2>1, <2>2, <2>3, <2>4 DEF TimersNext
<1> QED
  BY <1>1, <1>2, OnListAlways, PTL DEF Timers, TimersOnTime, Absolute!Spec

=============================================================================
