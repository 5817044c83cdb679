------------------------------- MODULE MCCow -------------------------------
EXTENDS Cow, TLC
Symmetry == Permutations(Proc) \union Permutations(Value)

\* States that differ only in the numbers of the pages go on in the same way, and so
\* do states that differ in the pages that are counted but not mapped: of these only
\* their number matters, and what RefsExact says of them.
Sharers(p, v) == {m \in Proc \X VPage : pte[m[1]][m[2]].page = pte[p][v].page}
Used == {g \in Page : ref[g] # 0}
NotMapped == {g \in Page : \A p \in Proc, v \in VPage : pte[p][v].page # g}
View ==
  <<state, parent, gone, calls, halt, Cardinality(Used),
    {ref[g] - shares[g] : g \in NotMapped},
    [p \in Proc |-> [v \in VPage |->
       IF ~Mapped(p, v) THEN <<>>
       ELSE <<Sharers(p, v), pte[p][v].w, pte[p][v].cow,
              ref[pte[p][v].page], shares[pte[p][v].page], data[pte[p][v].page]>>]]>>
=============================================================================
