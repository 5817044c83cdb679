--------------------------- MODULE SfsFileProofs ---------------------------
(***************************************************************************)
(* The free map, the blocks, the inodes and the bytes of the files, for    *)
(* disks, files and block sizes of any size: whatever is read, written,    *)
(* truncated and closed, and wherever a call stops on a full disk, a block *)
(* in use belongs to one place of one file, what is on disk is not lost,   *)
(* and the files are those of FileSpec.                                    *)
(***************************************************************************)
EXTENDS SfsFile, FiniteSetTheorems, WellFoundedInduction, SequenceTheorems, TLAPS

Content == Int \union Value
Ino == Block \union {NoBlock}
Inode == [size : Int, blocks : 0 .. NDIRECT + NENTRY,
          direct : [0 .. NDIRECT - 1 -> Ino], indirect : Ino]

TypeOK ==
  /\ freemap \in SUBSET Block
  /\ disk \in [Block -> [Cell -> Content]]
  /\ din \in [File -> Inode] /\ dinode \in [File -> Inode]
  /\ dirty \in [File -> BOOLEAN]
  /\ node \in [Handle -> File \union {NoFile}]
  /\ pos \in [Handle -> Int]

IoFields == {"op", "h", "f", "off", "len", "end", "v", "blkno", "nblks", "alen", "got", "at"}
TruncateFields == {"op", "h", "f", "len", "why", "nblks", "tblks", "at"}

\* The call in progress is one of file.c on a file, with what it moves.
CallOK ==
  \/ call = Idle
  \/ /\ call.op \in {"read", "write"} /\ DOMAIN call = IoFields
     /\ call.f \in File /\ call.h \in Handle /\ call.v \in Value
     /\ call.off \in Int /\ call.alen \in Int /\ call.end \in Int
  \/ /\ call.op = "truncate" /\ DOMAIN call = TruncateFields
     /\ call.f \in File /\ call.h \in Handle /\ call.len \in Int

\* Blocks in use have one owner, and free ones none.
OwnOK ==
  /\ \A f \in File, i \in Index : BlockAt(f, i) \in (Block \ freemap) \union {NoBlock}
  /\ \A f \in File : din[f].indirect \in (Block \ freemap) \union {NoBlock}
  /\ \A f, g \in File, i, j \in Index :
       BlockAt(f, i) = BlockAt(g, j) /\ BlockAt(f, i) # NoBlock => f = g /\ i = j
  /\ \A f, g \in File : din[f].indirect = din[g].indirect /\ din[f].indirect # NoBlock => f = g
  /\ \A f, g \in File, i \in Index : BlockAt(g, i) = din[f].indirect => BlockAt(g, i) = NoBlock
  /\ \A b \in Block \ freemap :
       (\E f \in File, i \in Index : BlockAt(f, i) = b) \/ (\E f \in File : din[f].indirect = b)

\* The disk has the entries of an inode that is not marked dirty.
SyncOK ==
  \A f \in File :
    dirty[f] \/ (din[f].direct = dinode[f].direct /\ din[f].indirect = dinode[f].indirect)

CountOK == unused_blocks = Cardinality(freemap)

IInv == TypeOK /\ CallOK /\ OwnOK /\ SyncOK /\ CountOK

-----------------------------------------------------------------------------
\* No block has the number that stands for none, and every place of a file is in its
\* inode or in one cell of its indirect block.
LEMMA Numbers ==
  /\ NoBlock \notin Block /\ IsFiniteSet(Block) /\ BLKSIZE \in Nat \ {0} /\ NDIRECT \in Nat /\ NENTRY \in Nat
  /\ Index \subseteq Int
  /\ \A i \in Index : IF i < NDIRECT THEN i \in 0 .. NDIRECT - 1 ELSE i - NDIRECT \in Cell
  /\ \A i, j \in Index : i >= NDIRECT /\ j >= NDIRECT /\ i - NDIRECT = j - NDIRECT => i = j
<1>1. NoBlock \notin Block /\ IsFiniteSet(Block)
  BY BlockAssumption DEF NoBlock
<1>2. BLKSIZE \in Nat \ {0} /\ NDIRECT \in Nat /\ NENTRY \in Nat /\ NENTRY <= BLKSIZE
  BY SizesAssumption
<1>3. \A i \in Index : IF i < NDIRECT THEN i \in 0 .. NDIRECT - 1 ELSE i - NDIRECT \in Cell
  BY <1>2 DEF Index, Cell
<1>4. \A i, j \in Index : i >= NDIRECT /\ j >= NDIRECT /\ i - NDIRECT = j - NDIRECT => i = j
  BY <1>2 DEF Index
<1> QED
  BY <1>1, <1>2, <1>3, <1>4 DEF Index

\* bitmap_alloc finds the lowest set bit, if there is one.
LEMMA LowestIn == ASSUME NEW S \in SUBSET Block, S # {} PROVE Lowest(S) \in S
<1>1. S \subseteq Nat
  BY BlockAssumption
<1>2. \E x \in S : \A y \in S : ~(<<y, x>> \in OpToRel(<, Nat))
  BY <1>1, NatLessThanWellFounded, WFMin, Zenon
<1>3. \A x, y \in Nat : <<y, x>> \in OpToRel(<, Nat) <=> y < x
  BY DEF OpToRel
<1>4. \E x \in S : \A y \in S : x <= y
  <2>1. PICK x \in S : \A y \in S : ~(<<y, x>> \in OpToRel(<, Nat))
    BY <1>2
  <2>2. \A y \in S : ~(y < x)
    BY <1>1, <1>3, <2>1
  <2> QED
    BY <1>1, <2>2
<1> QED
  BY <1>4 DEF Lowest

\* An empty disk: all blocks are free and no file has one.
LEMMA StartInv == Init => IInv
<1> SUFFICES ASSUME Init PROVE IInv
  OBVIOUS
<1>1. EmptyInode \in Inode
  BY Numbers DEF EmptyInode, Inode, Ino
<1>2. Zeroed \in [Cell -> Content]
  BY DEF Zeroed, Content
<1>3. TypeOK
  BY <1>1, <1>2 DEF Init, TypeOK
<1>4. \A f \in File, i \in Index : BlockAt(f, i) = NoBlock
  <2> SUFFICES ASSUME NEW f \in File, NEW i \in Index PROVE BlockAt(f, i) = NoBlock
    OBVIOUS
  <2>1. din[f] = EmptyInode
    BY DEF Init
  <2>2. CASE i < NDIRECT
    BY <2>1, <2>2, Numbers DEF BlockAt, EmptyInode
  <2>3. CASE ~(i < NDIRECT)
    BY <2>1, <2>3 DEF BlockAt, EmptyInode
  <2> QED
    BY <2>2, <2>3
<1>5. \A f \in File : din[f].indirect = NoBlock /\ din[f] = dinode[f]
  BY DEF Init, EmptyInode
<1>6. OwnOK
  BY <1>4, <1>5, Numbers DEF OwnOK, Init
<1>7. SyncOK
  BY <1>5 DEF SyncOK
<1>8. CallOK /\ CountOK
  BY DEF Init, CallOK, CountOK
<1> QED
  BY <1>3, <1>6, <1>7, <1>8 DEF IInv

-----------------------------------------------------------------------------
\* The entries of all files are where they were when no inode changes its own entries
\* and no indirect block changes.
LEMMA EntriesSame ==
  ASSUME TypeOK,
         \A g \in File : din'[g].direct = din[g].direct /\ din'[g].indirect = din[g].indirect,
         \A g \in File : din[g].indirect # NoBlock => disk'[din[g].indirect] = disk[din[g].indirect]
  PROVE  \A g \in File, i \in Index : BlockAt(g, i)' = BlockAt(g, i)
  BY Numbers DEF BlockAt

\* Nothing changes hands.
LEMMA OwnKept ==
  ASSUME OwnOK, freemap' = freemap,
         \A g \in File, i \in Index : BlockAt(g, i)' = BlockAt(g, i),
         \A g \in File : din'[g].indirect = din[g].indirect
  PROVE  OwnOK'
  BY DEF OwnOK

\* A place of f gets a free block, and f perhaps another one for its entries.
LEMMA OwnGrow ==
  ASSUME OwnOK, TypeOK, NEW f \in File, NEW index \in Index, BlockAt(f, index) = NoBlock,
         NEW new \in freemap, NEW table \in Ino,
         table # NoBlock => table \in freemap /\ table # new /\ din[f].indirect = NoBlock,
         freemap' = freemap \ {new, table},
         \A g \in File, i \in Index : BlockAt(g, i)' = IF g = f /\ i = index THEN new ELSE BlockAt(g, i),
         \A g \in File : din'[g].indirect = IF g = f /\ table # NoBlock THEN table ELSE din[g].indirect
  PROVE  OwnOK'
<1>0. freemap \subseteq Block /\ NoBlock \notin Block
  BY Numbers DEF TypeOK
<1>1. \A g \in File, i \in Index : BlockAt(g, i)' \in (Block \ freemap') \union {NoBlock}
  BY <1>0 DEF OwnOK
<1>2. \A g \in File : din'[g].indirect \in (Block \ freemap') \union {NoBlock}
  BY <1>0 DEF OwnOK
<1>3. ASSUME NEW g \in File, NEW h \in File, NEW i \in Index, NEW j \in Index,
             BlockAt(g, i)' = BlockAt(h, j)', BlockAt(g, i)' # NoBlock
      PROVE  g = h /\ i = j
  BY <1>0, <1>3 DEF OwnOK
<1>4. \A g, h \in File : din'[g].indirect = din'[h].indirect /\ din'[g].indirect # NoBlock => g = h
  BY <1>0 DEF OwnOK
<1>5. ASSUME NEW g \in File, NEW h \in File, NEW i \in Index, BlockAt(h, i)' = din'[g].indirect
      PROVE  BlockAt(h, i)' = NoBlock
  BY <1>0, <1>5 DEF OwnOK
<1>6. ASSUME NEW b \in Block \ freemap'
      PROVE  (\E g \in File, i \in Index : BlockAt(g, i)' = b) \/ (\E g \in File : din'[g].indirect = b)
  <2>1. CASE b = new
    BY <2>1
  <2>2. CASE b = table
    BY <1>0, <2>2
  <2>3. CASE b # new /\ b # table
    <3>1. b \in Block \ freemap
      BY <2>3
    <3>2. CASE \E g \in File, i \in Index : BlockAt(g, i) = b
      <4>1. PICK g \in File, i \in Index : BlockAt(g, i) = b
        BY <3>2
      <4>2. ~(g = f /\ i = index)
        BY <1>0, <4>1
      <4> QED
        BY <4>1, <4>2
    <3>3. CASE \E g \in File : din[g].indirect = b
      <4>1. PICK g \in File : din[g].indirect = b
        BY <3>3
      <4>2. ~(g = f /\ table # NoBlock)
        BY <1>0, <4>1
      <4> QED
        BY <4>1, <4>2
    <3> QED
      BY <3>1, <3>2, <3>3 DEF OwnOK
  <2> QED
    BY <2>1, <2>2, <2>3
<1> QED
  BY <1>1, <1>2, <1>3, <1>4, <1>5, <1>6 DEF OwnOK

\* A place of f loses its block, which is free then.
LEMMA OwnShrink ==
  ASSUME OwnOK, TypeOK, NEW f \in File, NEW index \in Index,
         freemap' = freemap \union ({BlockAt(f, index)} \ {NoBlock}),
         \A g \in File, i \in Index : BlockAt(g, i)' = IF g = f /\ i = index THEN NoBlock ELSE BlockAt(g, i),
         \A g \in File : din'[g].indirect = din[g].indirect
  PROVE  OwnOK'
<1>1. \A g \in File, i \in Index : BlockAt(g, i)' \in (Block \ freemap') \union {NoBlock}
  BY DEF OwnOK
<1>2. \A g \in File : din'[g].indirect \in (Block \ freemap') \union {NoBlock}
  BY DEF OwnOK
<1>3. \A g, h \in File, i, j \in Index :
        BlockAt(g, i)' = BlockAt(h, j)' /\ BlockAt(g, i)' # NoBlock => g = h /\ i = j
  BY DEF OwnOK
<1>4. \A g, h \in File : din'[g].indirect = din'[h].indirect /\ din'[g].indirect # NoBlock => g = h
  BY DEF OwnOK
<1>5. \A g, h \in File, i \in Index : BlockAt(h, i)' = din'[g].indirect => BlockAt(h, i)' = NoBlock
  BY DEF OwnOK
<1>6. ASSUME NEW b \in Block \ freemap'
      PROVE  (\E g \in File, i \in Index : BlockAt(g, i)' = b) \/ (\E g \in File : din'[g].indirect = b)
  <2>1. b \in Block \ freemap /\ b # BlockAt(f, index)
    BY Numbers
  <2>2. CASE \E g \in File, i \in Index : BlockAt(g, i) = b
    <3>1. PICK g \in File, i \in Index : BlockAt(g, i) = b
      BY <2>2
    <3>2. ~(g = f /\ i = index)
      BY <2>1, <3>1
    <3> QED
      BY <3>1, <3>2
  <2> QED
    BY <2>1, <2>2 DEF OwnOK
<1> QED
  BY <1>1, <1>2, <1>3, <1>4, <1>5, <1>6 DEF OwnOK

-----------------------------------------------------------------------------
(***************************************************************************)
(* What sfs_bmap_load_nolock comes to: m is what BmapLoad returns.         *)
(***************************************************************************)
\* The entry was there, or there is no block for it.
Found(f, index, m) ==
  /\ m.took = {}
  /\ m.inode.direct = din[f].direct /\ m.inode.indirect = din[f].indirect /\ m.dirty = dirty[f]
  /\ \A b \in Block \ freemap : m.disk[b] = disk[b]
  /\ m.ino \in {BlockAt(f, index), NoBlock}

\* A new block for an entry of the inode.
NewDirect(f, index, m) ==
  /\ m.ok /\ BlockAt(f, index) = NoBlock /\ index < NDIRECT
  /\ m.ino \in freemap /\ m.took = {m.ino}
  /\ m.disk = [disk EXCEPT ![m.ino] = Zeroed]
  /\ m.inode.direct = [din[f].direct EXCEPT ![index] = m.ino]
  /\ m.inode.indirect = din[f].indirect /\ m.dirty = TRUE

\* A new block for an entry of the indirect block.
NewEntry(f, index, m) ==
  /\ m.ok /\ BlockAt(f, index) = NoBlock /\ ~(index < NDIRECT) /\ din[f].indirect # NoBlock
  /\ m.ino \in freemap /\ m.took = {m.ino}
  /\ m.disk = [disk EXCEPT ![m.ino] = Zeroed, ![din[f].indirect][index - NDIRECT] = m.ino]
  /\ m.inode.direct = din[f].direct /\ m.inode.indirect = din[f].indirect /\ m.dirty = dirty[f]

\* A new indirect block, and the block for its entry.
NewTable(f, index, m) ==
  /\ m.ok /\ BlockAt(f, index) = NoBlock /\ ~(index < NDIRECT) /\ din[f].indirect = NoBlock
  /\ m.ino \in freemap /\ m.inode.indirect \in freemap /\ m.inode.indirect # m.ino
  /\ m.took = {m.inode.indirect, m.ino}
  /\ m.disk = [disk EXCEPT ![m.ino] = Zeroed,
                           ![m.inode.indirect] = [Zeroed EXCEPT ![index - NDIRECT] = m.ino]]
  /\ m.inode.direct = din[f].direct /\ m.dirty = TRUE

\* Those are all cases, and what comes back is a disk and an inode.
LEMMA BmapCases ==
  ASSUME IInv, NEW f \in File, NEW index \in Index, index <= din[f].blocks
  PROVE  LET m == BmapLoad(f, index)
         IN  /\ m.inode \in Inode /\ m.dirty \in BOOLEAN /\ m.disk \in [Block -> [Cell -> Content]]
             /\ m.took \in SUBSET freemap /\ m.ok \in BOOLEAN
             /\ Found(f, index, m) \/ NewDirect(f, index, m) \/ NewEntry(f, index, m) \/ NewTable(f, index, m)
<1> DEFINE d == din[f]
           create == index = d.blocks
           g == BmapGet(f, index, create)
           m == BmapLoad(f, index)
           first == Lowest(freemap)
           second == Lowest(freemap \ {first})
           entry == index - NDIRECT
<1>1. /\ d \in Inode /\ freemap \in SUBSET Block /\ disk \in [Block -> [Cell -> Content]] /\ dirty[f] \in BOOLEAN
      /\ Block \subseteq Int
  BY BlockAssumption DEF IInv, TypeOK
<1>2. /\ freemap # {} => first \in freemap
      /\ freemap # {} /\ freemap # {first} => second \in freemap /\ second # first
  <2>1. freemap # {} => first \in freemap
    BY <1>1, LowestIn
  <2>2. ASSUME freemap # {}, freemap # {first} PROVE second \in freemap \ {first}
    <3>1. freemap \ {first} # {} /\ freemap \ {first} \in SUBSET Block
      BY <1>1, <2>1, <2>2
    <3> QED
      BY <3>1, LowestIn
  <2> QED
    BY <2>1, <2>2
<1>3. Zeroed \in [Cell -> Content] /\ Block \subseteq Content
  BY <1>1 DEF Zeroed, Content
<1>4. IF index < NDIRECT THEN index \in 0 .. NDIRECT - 1 ELSE entry \in Cell
  BY Numbers
<1>5. /\ m.ino = g.ino /\ m.ok = g.ok /\ m.took = g.took /\ m.disk = g.disk /\ m.dirty = g.dirty
      /\ m.inode = IF create /\ g.ok THEN [g.inode EXCEPT !.blocks = @ + 1] ELSE g.inode
  BY DEF BmapLoad, BmapGet, Unchanged, Failed, GiveBack
<1>6. create => d.blocks + 1 \in 0 .. NDIRECT + NENTRY
  BY <1>1, Numbers DEF Index, Inode
<1>7. ASSUME g.inode \in Inode, g.inode.blocks = d.blocks
      PROVE  /\ m.inode \in Inode /\ m.inode.direct = g.inode.direct /\ m.inode.indirect = g.inode.indirect
  BY <1>5, <1>6, <1>7 DEF Inode
<1> HIDE DEF m, create, first, second, entry
<1>8. CASE BlockAt(f, index) # NoBlock \/ ~create
  <2>1. g = Unchanged(f, BlockAt(f, index))
    BY <1>8 DEF BmapGet
  <2>2. /\ g.ok = TRUE /\ g.ino = BlockAt(f, index) /\ g.took = {} /\ g.disk = disk /\ g.inode = d /\ g.dirty = dirty[f]
    BY <2>1 DEF Unchanged
  <2>3. Found(f, index, m)
    BY <1>1, <1>5, <1>7, <2>2 DEF Found
  <2> QED
    BY <1>1, <1>5, <1>7, <2>2, <2>3 DEF m
<1>9. CASE ~(BlockAt(f, index) # NoBlock \/ ~create) /\ freemap = {}
  <2>1. g = Failed(f)
    BY <1>9 DEF BmapGet
  <2>2. /\ g.ok = FALSE /\ g.ino = NoBlock /\ g.took = {} /\ g.disk = disk /\ g.inode = d /\ g.dirty = dirty[f]
    BY <2>1 DEF Unchanged, Failed
  <2>3. Found(f, index, m)
    BY <1>1, <1>5, <1>7, <2>2 DEF Found
  <2> QED
    BY <1>1, <1>5, <1>7, <2>2, <2>3 DEF m
<1>10. CASE ~(BlockAt(f, index) # NoBlock \/ ~create) /\ freemap # {} /\ index < NDIRECT
  <2>1. g = [ok |-> TRUE, ino |-> first, took |-> {first}, disk |-> [disk EXCEPT ![first] = Zeroed],
             inode |-> [d EXCEPT !.direct[index] = first], dirty |-> TRUE]
    BY <1>10 DEF BmapGet, first
  <2>2. /\ g.ok = TRUE /\ g.ino = first /\ g.took = {first} /\ g.disk = [disk EXCEPT ![first] = Zeroed]
        /\ g.inode = [d EXCEPT !.direct[index] = first] /\ g.dirty = TRUE
    BY <2>1
  <2>3. first \in Block /\ first \in freemap /\ g.disk \in [Block -> [Cell -> Content]]
    BY <1>1, <1>2, <1>3, <1>10, <2>2
  <2>4. /\ g.inode \in Inode /\ g.inode.blocks = d.blocks
        /\ g.inode.direct = [d.direct EXCEPT ![index] = first] /\ g.inode.indirect = d.indirect
    <3> DEFINE T == [d.direct EXCEPT ![index] = first]
    <3>1. T \in [0 .. NDIRECT - 1 -> Ino]
      BY <1>1, <2>3 DEF Inode, Ino
    <3>2. g.inode = [d EXCEPT !.direct = T]
      BY <1>1, <2>2 DEF Inode
    <3> HIDE DEF T, g, d
    <3>3. g.inode \in Inode /\ g.inode.blocks = d.blocks /\ g.inode.direct = T /\ g.inode.indirect = d.indirect
      BY <1>1, <3>1, <3>2 DEF Inode
    <3> QED
      BY <3>3 DEF T
  <2>5. NewDirect(f, index, m)
    BY <1>5, <1>7, <1>10, <2>2, <2>3, <2>4 DEF NewDirect
  <2> QED
    BY <1>5, <1>7, <2>2, <2>3, <2>4, <2>5 DEF m
<1>11. CASE ~(BlockAt(f, index) # NoBlock \/ ~create) /\ freemap # {} /\ ~(index < NDIRECT) /\ d.indirect # NoBlock
  <2>1. g = [ok |-> TRUE, ino |-> first, took |-> {first},
             disk |-> [disk EXCEPT ![first] = Zeroed, ![d.indirect][entry] = first],
             inode |-> d, dirty |-> dirty[f]]
    BY <1>11 DEF BmapGet, first, entry
  <2>2. /\ g.ok = TRUE /\ g.ino = first /\ g.took = {first}
        /\ g.disk = [disk EXCEPT ![first] = Zeroed, ![d.indirect][entry] = first]
        /\ g.inode = d /\ g.dirty = dirty[f]
    BY <2>1
  <2>3. first \in Block /\ first \in freemap /\ d.indirect \in Block
    BY <1>1, <1>2, <1>11 DEF Inode, Ino
  <2>4. g.disk \in [Block -> [Cell -> Content]]
    <3> DEFINE zeroed == [disk EXCEPT ![first] = Zeroed]
               table == [zeroed[d.indirect] EXCEPT ![entry] = first]
    <3>1. zeroed \in [Block -> [Cell -> Content]]
      BY <1>1, <1>3
    <3>2. table \in [Cell -> Content]
      BY <1>3, <2>3, <3>1
    <3>3. g.disk = [zeroed EXCEPT ![d.indirect] = table]
      BY <2>2
    <3> HIDE DEF zeroed, table, g, d
    <3> QED
      BY <3>1, <3>2, <3>3
  <2>5. NewEntry(f, index, m)
    BY <1>1, <1>5, <1>7, <1>11, <2>2, <2>3 DEF NewEntry, entry
  <2> QED
    BY <1>1, <1>5, <1>7, <2>2, <2>3, <2>4, <2>5, ZenonT(60) DEF m
<1>12. CASE /\ ~(BlockAt(f, index) # NoBlock \/ ~create) /\ freemap # {} /\ ~(index < NDIRECT)
            /\ d.indirect = NoBlock /\ freemap = {first}
  <2>1. g = GiveBack(f, first)
    BY <1>12 DEF BmapGet, first
  <2>2. /\ g.ok = FALSE /\ g.ino = NoBlock /\ g.took = {} /\ g.disk = [disk EXCEPT ![first] = Zeroed] /\ g.inode = d /\ g.dirty = dirty[f]
    BY <2>1 DEF Unchanged, Failed, GiveBack
  <2>3. g.disk \in [Block -> [Cell -> Content]] /\ \A b \in Block \ freemap : g.disk[b] = disk[b]
    BY <1>1, <1>2, <1>3, <1>12, <2>2
  <2>4. Found(f, index, m)
    BY <1>1, <1>5, <1>7, <2>2, <2>3 DEF Found
  <2> QED
    BY <1>1, <1>5, <1>7, <2>2, <2>3, <2>4 DEF m
<1>13. CASE /\ ~(BlockAt(f, index) # NoBlock \/ ~create) /\ freemap # {} /\ ~(index < NDIRECT)
            /\ d.indirect = NoBlock /\ freemap # {first}
  <2>1. g = [ok |-> TRUE, ino |-> second, took |-> {first, second},
             disk |-> [disk EXCEPT ![second] = Zeroed, ![first] = [Zeroed EXCEPT ![entry] = second]],
             inode |-> [d EXCEPT !.indirect = first], dirty |-> TRUE]
    BY <1>13 DEF BmapGet, first, second, entry
  <2>2. /\ g.ok = TRUE /\ g.ino = second /\ g.took = {first, second}
        /\ g.disk = [disk EXCEPT ![second] = Zeroed, ![first] = [Zeroed EXCEPT ![entry] = second]]
        /\ g.inode = [d EXCEPT !.indirect = first] /\ g.dirty = TRUE
    BY <2>1
  <2>3. first \in Block /\ first \in freemap /\ second \in Block /\ second \in freemap /\ first # second
    BY <1>1, <1>2, <1>13
  <2>4. g.disk \in [Block -> [Cell -> Content]]
    <3>1. [Zeroed EXCEPT ![entry] = second] \in [Cell -> Content]
      BY <1>3, <2>3
    <3> QED
      BY <1>1, <1>3, <2>2, <2>3, <3>1
  <2>5. /\ g.inode \in Inode /\ g.inode.blocks = d.blocks
        /\ g.inode.direct = d.direct /\ g.inode.indirect = first
    BY <1>1, <2>2, <2>3 DEF Inode, Ino
  <2>6. NewTable(f, index, m)
    BY <1>5, <1>7, <1>13, <2>2, <2>3, <2>5 DEF NewTable, entry
  <2> QED
    BY <1>5, <1>7, <2>2, <2>3, <2>4, <2>5, <2>6 DEF m
<1> QED
  BY <1>8, <1>9, <1>10, <1>11, <1>12, <1>13

\* All of that, of a call of sfs_bmap_load_nolock.
Loads(f, index, m) ==
  /\ m.inode \in Inode /\ m.dirty \in BOOLEAN /\ m.disk \in [Block -> [Cell -> Content]]
  /\ m.took \in SUBSET freemap /\ m.ok \in BOOLEAN
  /\ Found(f, index, m) \/ NewDirect(f, index, m) \/ NewEntry(f, index, m) \/ NewTable(f, index, m)

\* All entries stay where they are.
EntriesKept ==
  /\ \A g \in File, i \in Index : BlockAt(g, i)' = BlockAt(g, i)
  /\ \A g \in File : din'[g].indirect = din[g].indirect

\* A place of f gets a free block, and f another one for its entries unless table is none.
EntryMade(f, index, new, table) ==
  /\ BlockAt(f, index) = NoBlock /\ new \in freemap /\ table \in Ino
  /\ table # NoBlock => table \in freemap /\ table # new /\ din[f].indirect = NoBlock
  /\ freemap' = freemap \ {new, table}
  /\ \A g \in File, i \in Index : BlockAt(g, i)' = IF g = f /\ i = index THEN new ELSE BlockAt(g, i)
  /\ \A g \in File : din'[g].indirect = IF g = f /\ table # NoBlock THEN table ELSE din[g].indirect

\* Where the blocks are after a load, and a transfer into the block that was loaded.
LEMMA AdoptPlaces ==
  ASSUME IInv, NEW f \in File, NEW index \in Index, NEW m, Loads(f, index, m),
         NEW data \in [Block -> [Cell -> Content]],
         \A b \in Block : b # m.ino => data[b] = m.disk[b],
         freemap' = freemap \ m.took, disk' = data, din' = [din EXCEPT ![f] = m.inode]
  PROVE  IF m.took = {} THEN EntriesKept ELSE \E table \in Ino : EntryMade(f, index, m.ino, table)
<1>1. TypeOK /\ OwnOK /\ NoBlock \notin Block /\ freemap \subseteq Block
  BY Numbers DEF IInv, TypeOK
<1>2. /\ din'[f] = m.inode /\ \A g \in File \ {f} : din'[g] = din[g]
  BY <1>1 DEF TypeOK
<1>3. \A g \in File : din[g].indirect # NoBlock => din[g].indirect \in Block \ freemap
  BY <1>1 DEF OwnOK
<1>4. /\ din[f].direct \in [0 .. NDIRECT - 1 -> Ino] /\ din[f].indirect \in Ino
      /\ disk \in [Block -> [Cell -> Content]] /\ DOMAIN din[f].direct = 0 .. NDIRECT - 1
  BY <1>1 DEF TypeOK, Inode
<1>5. CASE Found(f, index, m)
  <2>1. m.took = {} /\ m.inode.direct = din[f].direct /\ m.inode.indirect = din[f].indirect
        /\ \A b \in Block \ freemap : m.disk[b] = disk[b]
        /\ m.ino \in {BlockAt(f, index), NoBlock}
    BY <1>5 DEF Found
  <2>2. ASSUME NEW g \in File, din[g].indirect # NoBlock PROVE disk'[din[g].indirect] = disk[din[g].indirect]
    <3>1. BlockAt(f, index) # din[g].indirect
      BY <1>1, <2>2 DEF OwnOK
    <3> DEFINE t == din[g].indirect
    <3>2. t \in Block \ freemap
      BY <1>3, <2>2
    <3>3. t # m.ino
      BY <1>1, <2>1, <3>1, <3>2
    <3> HIDE DEF t
    <3>4. data[t] = m.disk[t] /\ m.disk[t] = disk[t]
      BY <2>1, <3>2, <3>3
    <3> QED
      BY <3>4 DEF t
  <2>3. \A g \in File : din'[g].direct = din[g].direct /\ din'[g].indirect = din[g].indirect
    BY <1>2, <2>1
  <2>4. \A g \in File, i \in Index : BlockAt(g, i)' = BlockAt(g, i)
    BY <1>1, <2>2, <2>3, EntriesSame
  <2> QED
    BY <2>1, <2>3, <2>4 DEF EntriesKept
<1>6. CASE NewDirect(f, index, m)
  <2>1. /\ m.ok /\ BlockAt(f, index) = NoBlock /\ index < NDIRECT /\ m.ino \in freemap /\ m.took = {m.ino}
        /\ m.disk = [disk EXCEPT ![m.ino] = Zeroed]
        /\ m.inode.direct = [din[f].direct EXCEPT ![index] = m.ino] /\ m.inode.indirect = din[f].indirect
    BY <1>6 DEF NewDirect
  <2>2. \A b \in Block : b # m.ino => disk'[b] = disk[b]
    BY <2>1, <1>4
  <2>3. \A g \in File : din'[g].indirect = din[g].indirect
    BY <1>2, <2>1
  <2>4. ASSUME NEW g \in File, NEW i \in Index
        PROVE  BlockAt(g, i)' = IF g = f /\ i = index THEN m.ino ELSE BlockAt(g, i)
    <3>1. CASE i < NDIRECT
      <4>1. BlockAt(g, i)' = din'[g].direct[i] /\ BlockAt(g, i) = din[g].direct[i]
        BY <3>1 DEF BlockAt
      <4>2. i \in 0 .. NDIRECT - 1
        BY <3>1, Numbers
      <4>3. g = f => din'[g].direct[i] = IF i = index THEN m.ino ELSE din[f].direct[i]
        <5> DEFINE D == din[f].direct
        <5>1. DOMAIN D = 0 .. NDIRECT - 1 /\ m.inode.direct = [D EXCEPT ![index] = m.ino]
          BY <1>4, <2>1
        <5> HIDE DEF D
        <5>2. [D EXCEPT ![index] = m.ino][i] = IF i = index THEN m.ino ELSE D[i]
          BY <4>2, <5>1
        <5> QED
          BY <1>2, <5>1, <5>2 DEF D
      <4> QED
        BY <1>2, <4>1, <4>3
    <3>2. CASE ~(i < NDIRECT)
      <4>1. i # index
        BY <2>1, <3>2
      <4>2. din[g].indirect # NoBlock => disk'[din[g].indirect] = disk[din[g].indirect]
        BY <1>1, <1>3, <2>1, <2>2
      <4> QED
        BY <2>3, <3>2, <4>1, <4>2 DEF BlockAt
    <3> QED
      BY <3>1, <3>2
  <2>5. NoBlock \in Ino /\ freemap' = freemap \ {m.ino, NoBlock}
    BY <1>1, <2>1 DEF Ino
  <2>6. EntryMade(f, index, m.ino, NoBlock)
    BY <1>1, <2>1, <2>3, <2>4, <2>5 DEF EntryMade
  <2> QED
    BY <2>1, <2>5, <2>6
<1>7. CASE NewEntry(f, index, m)
  <2> DEFINE t == din[f].indirect
  <2>1. /\ m.ok /\ BlockAt(f, index) = NoBlock /\ ~(index < NDIRECT) /\ t # NoBlock
        /\ m.ino \in freemap /\ m.took = {m.ino}
        /\ m.disk = [disk EXCEPT ![m.ino] = Zeroed, ![t][index - NDIRECT] = m.ino]
        /\ m.inode.direct = din[f].direct /\ m.inode.indirect = din[f].indirect
    BY <1>7 DEF NewEntry
  <2>2. \A g \in File : din'[g].direct = din[g].direct /\ din'[g].indirect = din[g].indirect
    BY <1>2, <2>1
  <2>3. t \in Block \ freemap /\ t # m.ino
    BY <1>3, <2>1
  <2>4. /\ disk'[t] = [disk[t] EXCEPT ![index - NDIRECT] = m.ino]
        /\ \A b \in Block : b # m.ino /\ b # t => disk'[b] = disk[b]
    BY <1>1, <1>4, <2>1, <2>3, ZenonT(60)
  <2>5. ASSUME NEW g \in File, NEW i \in Index
        PROVE  BlockAt(g, i)' = IF g = f /\ i = index THEN m.ino ELSE BlockAt(g, i)
    <3>1. CASE i < NDIRECT
      BY <2>1, <2>2, <3>1 DEF BlockAt
    <3>2. CASE ~(i < NDIRECT) /\ g = f
      <4>1. BlockAt(g, i)' = disk'[t][i - NDIRECT] /\ BlockAt(g, i) = disk[t][i - NDIRECT]
        BY <2>1, <2>2, <3>2 DEF BlockAt
      <4>2. i - NDIRECT \in Cell /\ (i - NDIRECT = index - NDIRECT <=> i = index)
        BY <2>1, <3>2, Numbers
      <4>3. disk[t] \in [Cell -> Content]
        BY <1>4, <2>3
      <4> QED
        BY <2>4, <3>2, <4>1, <4>2, <4>3
    <3>3. CASE ~(i < NDIRECT) /\ g # f
      <4>1. din[g].indirect # NoBlock => din[g].indirect \in Block \ freemap /\ din[g].indirect # t
        BY <1>1, <1>3, <3>3 DEF OwnOK
      <4>2. din[g].indirect # NoBlock => disk'[din[g].indirect] = disk[din[g].indirect]
        BY <2>1, <2>4, <4>1
      <4> QED
        BY <2>2, <3>3, <4>2 DEF BlockAt
    <3> QED
      BY <3>1, <3>2, <3>3
  <2>6. NoBlock \in Ino /\ freemap' = freemap \ {m.ino, NoBlock}
    BY <1>1, <2>1 DEF Ino
  <2>7. EntryMade(f, index, m.ino, NoBlock)
    BY <1>1, <2>1, <2>2, <2>5, <2>6 DEF EntryMade
  <2> QED
    BY <2>1, <2>6, <2>7
<1>8. CASE NewTable(f, index, m)
  <2> DEFINE t == m.inode.indirect
  <2>1. /\ m.ok /\ BlockAt(f, index) = NoBlock /\ ~(index < NDIRECT) /\ din[f].indirect = NoBlock
        /\ m.ino \in freemap /\ t \in freemap /\ t # m.ino /\ m.took = {t, m.ino}
        /\ m.disk = [disk EXCEPT ![m.ino] = Zeroed, ![t] = [Zeroed EXCEPT ![index - NDIRECT] = m.ino]]
        /\ m.inode.direct = din[f].direct
    BY <1>8 DEF NewTable
  <2>2. \A g \in File : din'[g].direct = din[g].direct
    BY <1>2, <2>1
  <2>3. \A g \in File : din'[g].indirect = IF g = f THEN t ELSE din[g].indirect
    BY <1>2
  <2>4. /\ disk'[t] = [Zeroed EXCEPT ![index - NDIRECT] = m.ino]
        /\ \A b \in Block \ freemap : disk'[b] = disk[b]
    BY <1>1, <1>4, <2>1
  <2>5. ASSUME NEW g \in File, NEW i \in Index
        PROVE  BlockAt(g, i)' = IF g = f /\ i = index THEN m.ino ELSE BlockAt(g, i)
    <3>1. CASE i < NDIRECT
      BY <2>1, <2>2, <3>1 DEF BlockAt
    <3>2. CASE ~(i < NDIRECT) /\ g = f
      <4>1. BlockAt(g, i)' = disk'[t][i - NDIRECT] /\ BlockAt(g, i) = NoBlock
        BY <1>1, <2>1, <2>3, <3>2 DEF BlockAt
      <4>2. i - NDIRECT \in Cell /\ (i - NDIRECT = index - NDIRECT <=> i = index)
        BY <2>1, <3>2, Numbers
      <4> QED
        BY <2>4, <3>2, <4>1, <4>2 DEF Zeroed, NoBlock
    <3>3. CASE ~(i < NDIRECT) /\ g # f
      <4>1. din[g].indirect # NoBlock => disk'[din[g].indirect] = disk[din[g].indirect]
        BY <1>3, <2>4
      <4> QED
        BY <2>3, <3>3, <4>1 DEF BlockAt
    <3> QED
      BY <3>1, <3>2, <3>3
  <2>6. t \in Ino /\ t # NoBlock /\ freemap' = freemap \ {m.ino, t}
    BY <1>1, <2>1 DEF Ino
  <2> HIDE DEF t
  <2>7. EntryMade(f, index, m.ino, t)
    BY <1>1, <2>1, <2>3, <2>5, <2>6 DEF EntryMade
  <2> QED
    BY <2>1, <2>6, <2>7
<1> QED
  BY <1>5, <1>6, <1>7, <1>8 DEF Loads

\* Who owns what then.
LEMMA AdoptOwn ==
  ASSUME IInv, NEW f \in File, NEW index \in Index, NEW m, Loads(f, index, m),
         NEW data \in [Block -> [Cell -> Content]],
         \A b \in Block : b # m.ino => data[b] = m.disk[b],
         freemap' = freemap \ m.took, disk' = data, din' = [din EXCEPT ![f] = m.inode]
  PROVE  OwnOK'
<1>1. TypeOK /\ OwnOK
  BY DEF IInv
<1>2. IF m.took = {} THEN EntriesKept ELSE \E table \in Ino : EntryMade(f, index, m.ino, table)
  BY AdoptPlaces
<1>3. CASE m.took = {}
  BY <1>1, <1>2, <1>3, OwnKept DEF EntriesKept
<1>4. CASE m.took # {}
  <2>1. PICK table \in Ino : EntryMade(f, index, m.ino, table)
    BY <1>2, <1>4
  <2> QED
    BY <1>1, <2>1, OwnGrow DEF EntryMade
<1> QED
  BY <1>3, <1>4

\* An inode that changes its entries is marked, or has been.
LEMMA MarkedKeeps ==
  ASSUME TypeOK, SyncOK, NEW f \in File, NEW mark \in BOOLEAN, Marked(f, mark),
         \A g \in File \ {f} : din'[g].direct = din[g].direct /\ din'[g].indirect = din[g].indirect,
         ~mark => ~dirty[f] /\ din'[f].direct = din[f].direct /\ din'[f].indirect = din[f].indirect
  PROVE  SyncOK' /\ dirty' \in [File -> BOOLEAN] /\ dinode' \in [File -> Inode]
<1>1. EmptyInode \in Inode
  BY Numbers DEF EmptyInode, Inode, Ino
<1>2. dirty' = [dirty EXCEPT ![f] = mark] /\ dinode' = IF mark THEN [dinode EXCEPT ![f] = EmptyInode] ELSE dinode
  BY DEF Marked
<1>3. dirty \in [File -> BOOLEAN] /\ dinode \in [File -> Inode]
  BY DEF TypeOK
<1>4. dirty' \in [File -> BOOLEAN] /\ dinode' \in [File -> Inode]
  BY <1>1, <1>2, <1>3
<1>5. ASSUME NEW g \in File
      PROVE  dirty'[g] \/ (din'[g].direct = dinode'[g].direct /\ din'[g].indirect = dinode'[g].indirect)
  <2>1. dirty[g] \/ (din[g].direct = dinode[g].direct /\ din[g].indirect = dinode[g].indirect)
    BY DEF SyncOK
  <2>2. CASE g = f /\ mark
    BY <1>2, <1>3, <2>2
  <2>3. CASE g = f /\ ~mark
    BY <1>2, <1>3, <2>1, <2>3
  <2>4. CASE g # f
    <3>1. dinode'[g] = dinode[g] /\ dirty'[g] = dirty[g]
      BY <1>2, <1>3, <2>4
    <3> QED
      BY <2>1, <2>4, <3>1
  <2> QED
    BY <2>2, <2>3, <2>4
<1> QED
  BY <1>4, <1>5 DEF SyncOK

\* bitmap_alloc and sfs_block_alloc count alike.
LEMMA Counted ==
  ASSUME TypeOK, CountOK, NEW took \in SUBSET freemap,
         freemap' = freemap \ took, unused_blocks' = unused_blocks - Cardinality(took)
  PROVE  CountOK' /\ freemap' \in SUBSET Block
<1>1. IsFiniteSet(freemap) /\ freemap \in SUBSET Block
  BY Numbers, FS_Subset DEF TypeOK
<1>2. freemap \intersect took = took
  OBVIOUS
<1>3. Cardinality(freemap \ took) = Cardinality(freemap) - Cardinality(took)
  BY <1>1, <1>2, FS_Difference
<1> QED
  BY <1>1, <1>3 DEF CountOK

\* A load, with what is transferred into the block.
LEMMA AdoptKeeps ==
  ASSUME IInv, NEW f \in File, NEW index \in Index, NEW m, Loads(f, index, m),
         NEW data \in [Block -> [Cell -> Content]], \A b \in Block : b # m.ino => data[b] = m.disk[b],
         Adopt(f, m, data), UNCHANGED <<node, pos>>
  PROVE  TypeOK' /\ OwnOK' /\ SyncOK' /\ CountOK'
<1>1. /\ freemap' = freemap \ m.took /\ unused_blocks' = unused_blocks - Cardinality(m.took)
      /\ disk' = data /\ din' = [din EXCEPT ![f] = m.inode] /\ Marked(f, m.dirty)
  BY DEF Adopt
<1>2. /\ m.inode \in Inode /\ m.dirty \in BOOLEAN /\ m.took \in SUBSET freemap
      /\ Found(f, index, m) \/ NewDirect(f, index, m) \/ NewEntry(f, index, m) \/ NewTable(f, index, m)
  BY DEF Loads
<1>3. TypeOK /\ SyncOK /\ CountOK
  BY DEF IInv
<1>4. OwnOK'
  BY <1>1, AdoptOwn, ZenonT(60)
<1>5. CountOK' /\ freemap' \in SUBSET Block
  BY <1>1, <1>2, <1>3, Counted
<1>6. din' \in [File -> Inode] /\ din'[f] = m.inode /\ \A g \in File \ {f} : din'[g] = din[g]
  BY <1>1, <1>2, <1>3 DEF TypeOK
<1>7. \/ m.dirty = TRUE
      \/ m.dirty = dirty[f] /\ m.inode.direct = din[f].direct /\ m.inode.indirect = din[f].indirect
  BY <1>2 DEF Found, NewDirect, NewEntry, NewTable
<1>8. SyncOK' /\ dirty' \in [File -> BOOLEAN] /\ dinode' \in [File -> Inode]
  <2>1. CASE m.dirty = TRUE
    BY <1>1, <1>3, <1>6, <2>1, MarkedKeeps
  <2>2. CASE m.dirty = FALSE
    BY <1>1, <1>3, <1>6, <1>7, <2>2, MarkedKeeps
  <2> QED
    BY <1>2, <2>1, <2>2
<1>9. TypeOK'
  BY <1>1, <1>3, <1>5, <1>6, <1>8 DEF TypeOK
<1> QED
  BY <1>4, <1>5, <1>8, <1>9

\* A step of call that is none of the disk leaves all of it.
LEMMA DiskKept ==
  ASSUME IInv, UNCHANGED <<fsvars, node, pos>>
  PROVE  TypeOK' /\ OwnOK' /\ SyncOK' /\ CountOK'
<1>1. UNCHANGED <<freemap, unused_blocks, disk, din, dinode, dirty>>
  BY DEF fsvars
<1>2. TypeOK' /\ SyncOK' /\ CountOK'
  BY <1>1 DEF IInv, TypeOK, SyncOK, CountOK
<1>3. \A g \in File, i \in Index : BlockAt(g, i)' = BlockAt(g, i)
  BY <1>1 DEF BlockAt
<1>4. OwnOK'
  BY <1>1, <1>3, OwnKept DEF IInv
<1> QED
  BY <1>2, <1>4

-----------------------------------------------------------------------------
\* What is known of the call that runs.
LEMMA Calls ==
  ASSUME CallOK
  PROVE  /\ call.op \in {"read", "write"} =>
              /\ DOMAIN call = IoFields /\ call.f \in File /\ call.h \in Handle /\ call.v \in Value
              /\ call.off \in Int /\ call.alen \in Int /\ call.end \in Int
         /\ call.op = "truncate" =>
              /\ DOMAIN call = TruncateFields /\ call.f \in File /\ call.h \in Handle /\ call.len \in Int
         /\ call.op = "idle" => call = Idle
  BY DEF CallOK, Idle

\* A failed assertion ends everything.
LEMMA PanicInv == ASSUME IInv, NEW why, Panics(why) PROVE IInv'
<1>1. UNCHANGED <<fsvars, node, pos, call>>
  BY DEF Panics
<1>2. CallOK'
  BY <1>1 DEF IInv, CallOK, Idle
<1> QED
  BY <1>1, <1>2, DiskKept DEF IInv

\* What passed the assertions of sfs_bmap_load_nolock is a block of the disk.
LEMMA LoadFacts ==
  ASSUME IInv, NEW f \in File, NEW index, BmapLoadPanics(f, index) = "none"
  PROVE  LET m == BmapLoad(f, index)
         IN  index \in Index /\ Loads(f, index, m) /\ (m.ok => m.ino \in Block)
<1>1. index \in Index /\ ~(index > din[f].blocks)
  BY DEF BmapLoadPanics
<1>2. index <= din[f].blocks
  <2>1. index \in Int /\ din[f].blocks \in Int
    BY <1>1, Numbers DEF IInv, TypeOK, Inode
  <2> QED
    BY <1>1, <2>1
<1> DEFINE m == BmapLoad(f, index)
<1>3. Loads(f, index, m)
  BY <1>1, <1>2, BmapCases DEF Loads
<1>4. ~(m.ok /\ ~(m.ino \in m.took \/ Inuse(m.ino)))
  BY <1>1 DEF BmapLoadPanics
<1>5. m.took \subseteq Block
  BY <1>3 DEF Loads, IInv, TypeOK
<1>6. m.ok => m.ino \in Block
  <2> HIDE DEF m
  <2> QED
    BY <1>4, <1>5 DEF Inuse
<1> QED
  BY <1>1, <1>3, <1>6

\* One block of a read or a write.
LEMMA TransferInv ==
  ASSUME IInv, call.op \in {"read", "write"}, NEW n \in Int, NEW c, NEW next, Transfer(n, c, next)
  PROVE  IInv'
<1> DEFINE f == call.f
           index == call.blkno
           m == BmapLoad(f, index)
           written == [m.disk EXCEPT ![m.ino] = [i \in Cell |-> IF c <= i /\ i < c + n THEN call.v ELSE @[i]]]
           why == BmapLoadPanics(f, index)
<1>1. /\ DOMAIN call = IoFields /\ f \in File /\ call.h \in Handle /\ call.v \in Value
      /\ call.off \in Int /\ call.alen \in Int /\ call.end \in Int /\ CallOK
  BY Calls DEF IInv
<1>2. CASE why # "none"
  <2>1. Panics(why)
    BY <1>2 DEF Transfer
  <2> HIDE DEF why
  <2> QED
    BY <2>1, PanicInv
<1>3. CASE why = "none"
  <2>1. index \in Index /\ Loads(f, index, m) /\ (m.ok => m.ino \in Block)
    BY <1>1, <1>3, LoadFacts
  <2>2. m.disk \in [Block -> [Cell -> Content]] /\ m.ok \in BOOLEAN
    BY <2>1 DEF Loads
  <2>3. CASE ~m.ok
    <3>1. Adopt(f, m, m.disk) /\ call' = [call EXCEPT !.at = "out"] /\ UNCHANGED <<node, pos>>
      BY <1>3, <2>3 DEF Transfer
    <3>2. CallOK'
      BY <1>1, <3>1 DEF CallOK, IoFields
    <3> HIDE DEF m
    <3>3. TypeOK' /\ OwnOK' /\ SyncOK' /\ CountOK'
      BY <1>1, <2>1, <2>2, <3>1, AdoptKeeps
    <3> QED
      BY <3>2, <3>3 DEF IInv
  <2>4. CASE m.ok
    <3> DEFINE data == IF call.op = "write" THEN written ELSE m.disk
               got == [i \in 1 .. n |-> m.disk[m.ino][c + i - 1]]
    <3>1. /\ Adopt(f, m, data) /\ UNCHANGED <<node, pos>>
          /\ call' = [call EXCEPT !.alen = @ + n, !.blkno = @ + 1, !.nblks = @ - 1, !.at = next,
                                  !.got = IF call.op = "read" THEN @ \o got ELSE @]
      BY <1>3, <2>4 DEF Transfer
    <3>2. CallOK'
      <4>1. /\ DOMAIN call' = IoFields /\ call'.op = call.op /\ call'.f = f /\ call'.h = call.h /\ call'.v = call.v
            /\ call'.off = call.off /\ call'.alen = call.alen + n /\ call'.end = call.end
        BY <1>1, <3>1 DEF IoFields
      <4> QED
        BY <1>1, <4>1 DEF CallOK
    <3>3. m.ino \in Block
      BY <2>1, <2>4
    <3> HIDE DEF m
    <3>4. written \in [Block -> [Cell -> Content]] /\ \A b \in Block : b # m.ino => written[b] = m.disk[b]
      <4> DEFINE new == [i \in Cell |-> IF c <= i /\ i < c + n THEN call.v ELSE m.disk[m.ino][i]]
      <4>1. new \in [Cell -> Content]
        BY <1>1, <2>2, <3>3 DEF Content
      <4>2. written = [m.disk EXCEPT ![m.ino] = new]
        BY <2>2, <3>3
      <4> HIDE DEF new, written
      <4> QED
        BY <2>2, <3>3, <4>1, <4>2
    <3>5. data \in [Block -> [Cell -> Content]] /\ \A b \in Block : b # m.ino => data[b] = m.disk[b]
      BY <2>2, <3>4
    <3> HIDE DEF data
    <3>6. TypeOK' /\ OwnOK' /\ SyncOK' /\ CountOK'
      BY <1>1, <2>1, <3>1, <3>5, AdoptKeeps
    <3> QED
      BY <3>2, <3>6 DEF IInv
  <2> QED
    BY <2>2, <2>3, <2>4
<1> QED
  BY <1>2, <1>3

\* A step that moves no block: the sizes, the mark and the copy on the disk may change.
LEMMA SizesMove ==
  ASSUME IInv, UNCHANGED <<freemap, unused_blocks, disk>>,
         din' \in [File -> Inode],
         \A g \in File : din'[g].direct = din[g].direct /\ din'[g].indirect = din[g].indirect,
         NEW f \in File, NEW mark \in BOOLEAN, Marked(f, mark), ~mark => ~dirty[f],
         node' \in [Handle -> File \union {NoFile}], pos' \in [Handle -> Int]
  PROVE  TypeOK' /\ OwnOK' /\ SyncOK' /\ CountOK'
<1>1. TypeOK /\ SyncOK /\ OwnOK /\ CountOK
  BY DEF IInv
<1>2. SyncOK' /\ dirty' \in [File -> BOOLEAN] /\ dinode' \in [File -> Inode]
  BY <1>1, MarkedKeeps
<1>3. \A g \in File, i \in Index : BlockAt(g, i)' = BlockAt(g, i)
  BY <1>1, EntriesSame
<1>4. OwnOK'
  BY <1>1, <1>3, OwnKept
<1>5. TypeOK' /\ CountOK'
  BY <1>1, <1>2 DEF TypeOK, CountOK
<1> QED
  BY <1>2, <1>4, <1>5

\* Reading or writing begins.
LEMMA StartIoInv ==
  ASSUME IInv, NEW op \in {"read", "write"}, NEW h \in Handle, NEW len \in Int, NEW v \in Value,
         StartIo(op, h, len, v)
  PROVE  IInv'
<1> DEFINE f == node[h]
           end == Least(pos[h] + len, IF op = "read" THEN din[f].size ELSE MAX_FILE_SIZE)
<1>1. UNCHANGED <<fsvars, node, pos>> /\ node[h] # NoFile
  BY DEF StartIo, Ready
<1>2. f \in File /\ pos[h] \in Int /\ din[f].size \in Int
  BY <1>1 DEF IInv, TypeOK, Inode
<1>3. MAX_FILE_SIZE \in Int
  BY Numbers DEF MAX_FILE_SIZE
<1>4. end \in Int
  BY <1>2, <1>3 DEF Least
<1>5. /\ DOMAIN call' = IoFields /\ call'.op = op /\ call'.f = f /\ call'.h = h /\ call'.v = v
      /\ call'.off = pos[h] /\ call'.alen = 0 /\ call'.end = end
  BY DEF StartIo, IoFields
<1>6. CallOK'
  BY <1>2, <1>4, <1>5 DEF CallOK
<1> QED
  BY <1>1, <1>6, DiskKept DEF IInv

\* The blocks of a read or a write, the first and the last only in part.
LEMMA PartsInv == ASSUME IInv, IoHead \/ IoBody \/ IoTail PROVE IInv'
<1>1. call.op \in {"read", "write"}
  BY DEF IoHead, IoBody, IoTail, InIo, Running
<1>2. call.off \in Int /\ call.end \in Int
  BY <1>1, Calls DEF IInv
<1>3. BLKSIZE - Blkoff(call.off) \in Int /\ call.end - call.off \in Int /\ BLKSIZE \in Int /\ call.end % BLKSIZE \in Int
  BY <1>2, Numbers DEF Blkoff
<1>4. CASE IoHead
  BY <1>1, <1>3, <1>4, TransferInv DEF IoHead
<1>5. CASE IoBody
  BY <1>1, <1>3, <1>5, TransferInv DEF IoBody
<1>6. CASE IoTail
  BY <1>1, <1>3, <1>6, TransferInv DEF IoTail
<1> QED
  BY <1>4, <1>5, <1>6

\* The end of a read or a write.
LEMMA IoOutInv == ASSUME IInv, IoOut PROVE IInv'
<1> DEFINE f == call.f
           reached == call.off + call.alen
           grows == call.end > call.off /\ reached > din[f].size
<1>1. call.op \in {"read", "write"}
  BY DEF IoOut, InIo, Running
<1>2. f \in File /\ call.h \in Handle /\ reached \in Int /\ call.alen \in Int
  BY <1>1, Calls DEF IInv
<1>3. /\ din' = IF grows THEN [din EXCEPT ![f].size = reached] ELSE din
      /\ Marked(f, dirty[f] \/ grows) /\ pos' = [pos EXCEPT ![call.h] = @ + call.alen] /\ call' = Idle
      /\ UNCHANGED <<freemap, unused_blocks, disk, node>>
  BY DEF IoOut
<1>4. /\ din \in [File -> Inode] /\ dirty[f] \in BOOLEAN
      /\ node' \in [Handle -> File \union {NoFile}] /\ pos' \in [Handle -> Int]
  BY <1>2, <1>3 DEF IInv, TypeOK
<1>5. /\ din' \in [File -> Inode]
      /\ \A g \in File : din'[g].direct = din[g].direct /\ din'[g].indirect = din[g].indirect
  <2>1. [din[f] EXCEPT !.size = reached] \in Inode
    BY <1>2, <1>4 DEF Inode
  <2>2. /\ [din[f] EXCEPT !.size = reached].direct = din[f].direct
        /\ [din[f] EXCEPT !.size = reached].indirect = din[f].indirect
    BY <1>2, <1>4 DEF Inode
  <2>3. din' = din \/ din' = [din EXCEPT ![f] = [din[f] EXCEPT !.size = reached]]
    BY <1>2, <1>3, <1>4
  <2> QED
    BY <1>2, <1>4, <2>1, <2>2, <2>3
<1>6. TypeOK' /\ OwnOK' /\ SyncOK' /\ CountOK'
  <2>1. ASSUME NEW mark \in BOOLEAN, mark <=> dirty[f] \/ grows, Marked(f, mark) PROVE TypeOK' /\ OwnOK' /\ SyncOK' /\ CountOK'
    BY <1>2, <1>3, <1>4, <1>5, <2>1, SizesMove
  <2> HIDE DEF grows
  <2> QED
    BY <1>3, <2>1, Zenon
<1>7. CallOK'
  BY <1>3 DEF CallOK
<1> QED
  BY <1>6, <1>7 DEF IInv

\* sfs_truncfile adds a block.
LEMMA TruncateGrowInv == ASSUME IInv, TruncateGrow PROVE IInv'
<1> DEFINE f == call.f
           index == call.nblks
           m == BmapLoad(f, index)
           why == BmapLoadPanics(f, index)
<1>1. call.op = "truncate"
  BY DEF TruncateGrow, Running
<1>2. DOMAIN call = TruncateFields /\ f \in File /\ call.h \in Handle /\ call.len \in Int
  BY <1>1, Calls DEF IInv
<1>3. CASE why # "none"
  <2>1. Panics(why)
    BY <1>3 DEF TruncateGrow
  <2> HIDE DEF why
  <2> QED
    BY <2>1, PanicInv
<1>4. CASE why = "none"
  <2>1. index \in Index /\ Loads(f, index, m)
    BY <1>2, <1>4, LoadFacts
  <2>2. m.disk \in [Block -> [Cell -> Content]]
    BY <2>1 DEF Loads
  <2>3. /\ Adopt(f, m, m.disk) /\ UNCHANGED <<node, pos>>
        /\ call' = [call EXCEPT !.nblks = @ + 1] \/ call' = [call EXCEPT !.at = "failed"]
    BY <1>4 DEF TruncateGrow
  <2>4. CallOK'
    <3>1. /\ DOMAIN call' = TruncateFields /\ call'.op = call.op /\ call'.f = f /\ call'.h = call.h
          /\ call'.len = call.len
      BY <1>2, <2>3 DEF TruncateFields
    <3> QED
      BY <1>1, <1>2, <3>1 DEF CallOK
  <2> HIDE DEF m
  <2>5. TypeOK' /\ OwnOK' /\ SyncOK' /\ CountOK'
    BY <1>2, <2>1, <2>2, <2>3, AdoptKeeps
  <2> QED
    BY <2>4, <2>5 DEF IInv
<1> QED
  BY <1>3, <1>4

\* Nothing that sfs_truncfile asserts fails.
ShrinkRuns == TruncateShrink /\ panic' = "none"

\* What changes when sfs_truncfile frees the last block: its place is empty, and the
\* block is free, unless there was none.
LEMMA ShrinkPlaces ==
  ASSUME IInv, ShrinkRuns
  PROVE  LET f == call.f
             index == din[f].blocks - 1
         IN  /\ f \in File /\ index \in Index /\ din' \in [File -> Inode]
             /\ din'[f].blocks = index /\ din'[f].size = din[f].size
             /\ \A g \in File : g # f => din'[g] = din[g]
             /\ \A g \in File : din'[g].indirect = din[g].indirect
             /\ \A g \in File, i \in Index : BlockAt(g, i)' = IF g = f /\ i = index THEN NoBlock ELSE BlockAt(g, i)
             /\ \A g \in File, i \in Index :
                  BlockAt(g, i) # NoBlock => disk'[BlockAt(g, i)] = disk[BlockAt(g, i)]
             /\ freemap' = freemap \union ({BlockAt(f, index)} \ {NoBlock})
             /\ Marked(f, TRUE) /\ call' = [call EXCEPT !.nblks = @ - 1] /\ UNCHANGED <<node, pos, panic, mishap>>
<1> DEFINE f == call.f
           index == din[f].blocks - 1
           t == din[f].indirect
           ino == BlockAt(f, index)
           freed == IF ino = NoBlock THEN {} ELSE {ino}
<1>0. f \in File
  BY Calls DEF IInv, ShrinkRuns, TruncateShrink, Running
<1>1. /\ din[f].blocks # 0 /\ freed \subseteq Block \ freemap
      /\ freemap' = freemap \union freed /\ unused_blocks' = unused_blocks + Cardinality(freed)
      /\ disk' = IF index < NDIRECT \/ freed = {} THEN disk ELSE [disk EXCEPT ![t][index - NDIRECT] = NoBlock]
      /\ din' = [din EXCEPT ![f].blocks = @ - 1,
                            ![f].direct = IF index < NDIRECT THEN [@ EXCEPT ![index] = NoBlock] ELSE @]
      /\ Marked(f, TRUE) /\ call' = [call EXCEPT !.nblks = @ - 1] /\ UNCHANGED <<node, pos, panic, mishap>>
  BY DEF TruncateShrink, ShrinkRuns, Panics
<1>2. /\ din \in [File -> Inode] /\ disk \in [Block -> [Cell -> Content]] /\ freemap \in SUBSET Block
      /\ OwnOK /\ TypeOK /\ SyncOK /\ CountOK
  BY DEF IInv, TypeOK
<1>3. index \in Index /\ din[f].blocks - 1 \in 0 .. NDIRECT + NENTRY
  BY <1>0, <1>1, <1>2, Numbers DEF Inode, Index
<1>4. IF index < NDIRECT THEN index \in 0 .. NDIRECT - 1 ELSE index - NDIRECT \in Cell
  BY <1>3, Numbers
<1> DEFINE D == din[f].direct
           E == IF index < NDIRECT THEN [D EXCEPT ![index] = NoBlock] ELSE D
<1>5. D \in [0 .. NDIRECT - 1 -> Ino] /\ E \in [0 .. NDIRECT - 1 -> Ino]
  BY <1>0, <1>2, <1>4 DEF Inode, Ino
<1>6. /\ din'[f].direct = E /\ din'[f].indirect = t /\ din'[f] \in Inode
      /\ din'[f].blocks = index /\ din'[f].size = din[f].size
      /\ \A g \in File : g # f => din'[g] = din[g]
  <2> DEFINE new == [din[f] EXCEPT !.blocks = @ - 1, !.direct = E]
  <2>1. din' = [din EXCEPT ![f] = new]
    BY <1>0, <1>1, <1>2 DEF Inode
  <2>2. new \in Inode /\ new.direct = E /\ new.indirect = t /\ new.blocks = index /\ new.size = din[f].size
    BY <1>0, <1>2, <1>3, <1>5 DEF Inode
  <2> HIDE DEF new
  <2> QED
    BY <1>0, <1>2, <2>1, <2>2
<1>7. din' \in [File -> Inode] /\ \A g \in File : din'[g].indirect = din[g].indirect
  BY <1>0, <1>1, <1>2, <1>6
<1>8. t # NoBlock => t \in Block \ freemap
  BY <1>0, <1>2 DEF OwnOK
<1>9. /\ ~(index < NDIRECT) /\ freed # {} => t # NoBlock /\ disk' = [disk EXCEPT ![t][index - NDIRECT] = NoBlock]
      /\ index < NDIRECT \/ freed = {} => disk' = disk
  BY <1>1 DEF BlockAt
<1> HIDE DEF E
<1>10. ASSUME NEW g \in File, NEW i \in Index
       PROVE  BlockAt(g, i)' = IF g = f /\ i = index THEN NoBlock ELSE BlockAt(g, i)
  <2>1. CASE i < NDIRECT
    <3>1. BlockAt(g, i)' = din'[g].direct[i] /\ BlockAt(g, i) = din[g].direct[i] /\ i \in 0 .. NDIRECT - 1
      BY <2>1, Numbers DEF BlockAt
    <3>2. E[i] = IF i = index THEN NoBlock ELSE D[i]
      BY <1>4, <1>5, <2>1, <3>1 DEF E
    <3> QED
      BY <1>6, <3>1, <3>2
  <2>2. CASE ~(i < NDIRECT) /\ g # f
    <3>1. din[g].indirect # NoBlock => din[g].indirect \in Block /\ din[g].indirect # t
      BY <1>0, <1>2, <2>2 DEF OwnOK
    <3>2. din[g].indirect # NoBlock => disk'[din[g].indirect] = disk[din[g].indirect]
      BY <1>2, <1>8, <1>9, <3>1
    <3> QED
      BY <1>7, <2>2, <3>2 DEF BlockAt
  <2>3. CASE ~(i < NDIRECT) /\ g = f /\ (index < NDIRECT \/ freed = {})
    <3>1. BlockAt(g, i)' = BlockAt(g, i)
      BY <1>7, <1>9, <2>3 DEF BlockAt
    <3>2. i = index => ino = NoBlock
      BY <2>3
    <3> QED
      BY <2>3, <3>1, <3>2
  <2>4. CASE ~(i < NDIRECT) /\ g = f /\ ~(index < NDIRECT \/ freed = {})
    <3>1. t # NoBlock /\ disk' = [disk EXCEPT ![t][index - NDIRECT] = NoBlock] /\ t \in Block
      BY <1>8, <1>9, <2>4
    <3>2. i - NDIRECT \in Cell /\ (i - NDIRECT = index - NDIRECT <=> i = index)
      BY <1>3, <2>4, Numbers
    <3>3. BlockAt(g, i)' = disk'[t][i - NDIRECT] /\ BlockAt(g, i) = disk[t][i - NDIRECT]
      BY <1>7, <2>4, <3>1 DEF BlockAt
    <3> QED
      BY <1>2, <2>4, <3>1, <3>2, <3>3
  <2> QED
    BY <2>1, <2>2, <2>3, <2>4
<1>11. freemap' = freemap \union ({BlockAt(f, index)} \ {NoBlock})
  BY <1>1
<1>12. ASSUME NEW g \in File, NEW i \in Index, BlockAt(g, i) # NoBlock
       PROVE  disk'[BlockAt(g, i)] = disk[BlockAt(g, i)]
  <2>1. BlockAt(g, i) \in Block /\ BlockAt(g, i) # t
    BY <1>0, <1>2, <1>12 DEF OwnOK
  <2> QED
    BY <1>2, <1>8, <1>9, <2>1
<1> HIDE DEF freed
<1> QED
  BY <1>0, <1>1, <1>3, <1>6, <1>7, <1>10, <1>11, <1>12

\* sfs_truncfile frees the last block.
LEMMA TruncateShrinkInv == ASSUME IInv, TruncateShrink PROVE IInv'
<1> DEFINE f == call.f
           index == din[f].blocks - 1
           t == din[f].indirect
           ino == BlockAt(f, index)
           freed == IF ino = NoBlock THEN {} ELSE {ino}
<1>1. call.op = "truncate"
  BY DEF TruncateShrink, Running
<1>2. DOMAIN call = TruncateFields /\ f \in File /\ call.h \in Handle /\ call.len \in Int
  BY <1>1, Calls DEF IInv
<1>3. CASE \E why \in {"din->blocks != 0", "sfs_block_inuse"} : Panics(why)
  BY <1>3, PanicInv
<1>4. CASE ~\E why \in {"din->blocks != 0", "sfs_block_inuse"} : Panics(why)
  <2>1. /\ din[f].blocks # 0 /\ freed \subseteq Block \ freemap
        /\ freemap' = freemap \union freed /\ unused_blocks' = unused_blocks + Cardinality(freed)
        /\ disk' = IF index < NDIRECT \/ freed = {} THEN disk ELSE [disk EXCEPT ![t][index - NDIRECT] = NoBlock]
        /\ din' = [din EXCEPT ![f].blocks = @ - 1,
                              ![f].direct = IF index < NDIRECT THEN [@ EXCEPT ![index] = NoBlock] ELSE @]
        /\ Marked(f, TRUE) /\ call' = [call EXCEPT !.nblks = @ - 1] /\ UNCHANGED <<node, pos>>
    BY <1>4 DEF TruncateShrink
  <2>2. /\ din \in [File -> Inode] /\ disk \in [Block -> [Cell -> Content]] /\ freemap \in SUBSET Block
        /\ OwnOK /\ TypeOK /\ SyncOK /\ CountOK
    BY DEF IInv, TypeOK
  <2>3. index \in Index /\ din[f].blocks - 1 \in 0 .. NDIRECT + NENTRY
    BY <1>2, <2>1, <2>2, Numbers DEF Inode, Index
  <2>4. IF index < NDIRECT THEN index \in 0 .. NDIRECT - 1 ELSE index - NDIRECT \in Cell
    BY <2>3, Numbers
  <2>5. ShrinkRuns
    BY <1>4 DEF ShrinkRuns, TruncateShrink, Running
  <2>6. /\ \A g \in File : g # f => din'[g] = din[g]
        /\ \A g \in File, i \in Index : BlockAt(g, i)' = IF g = f /\ i = index THEN NoBlock ELSE BlockAt(g, i)
        /\ freemap' = freemap \union ({BlockAt(f, index)} \ {NoBlock})
    BY <2>5, ShrinkPlaces
  <2>7. din' \in [File -> Inode] /\ \A g \in File : din'[g].indirect = din[g].indirect
    BY <2>5, ShrinkPlaces
  <2>8. t # NoBlock => t \in Block \ freemap
    BY <1>2, <2>2 DEF OwnOK
  <2>9. /\ ~(index < NDIRECT) /\ freed # {} => t # NoBlock /\ disk' = [disk EXCEPT ![t][index - NDIRECT] = NoBlock]
        /\ index < NDIRECT \/ freed = {} => disk' = disk
    BY <2>1 DEF BlockAt
  <2>12. OwnOK'
    BY <1>2, <2>2, <2>3, <2>6, <2>7, OwnShrink
  <2>13. CountOK' /\ freemap' \in SUBSET Block
    <3>1. IsFiniteSet(freemap)
      BY <2>2, Numbers, FS_Subset
    <3>2. Cardinality(freemap) \in Nat /\ unused_blocks = Cardinality(freemap)
      BY <2>2, <3>1, FS_CardinalityType DEF CountOK
    <3>3. Cardinality(freemap \union freed) = Cardinality(freemap) + Cardinality(freed)
      <4>1. CASE freed = {}
        <5>1. Cardinality(freed) = 0 /\ freemap \union freed = freemap
          BY <4>1, FS_EmptySet
        <5> HIDE DEF freed
        <5> QED
          BY <3>2, <5>1
      <4>2. CASE freed # {}
        <5>1. freed = {ino} /\ ino \notin freemap
          BY <2>1, <4>2
        <5>2. Cardinality(freemap \union {ino}) = Cardinality(freemap) + 1 /\ Cardinality({ino}) = 1
          BY <3>1, <5>1, FS_Singleton, FS_AddElement
        <5> QED
          BY <5>1, <5>2
      <4> QED
        BY <4>1, <4>2
    <3> HIDE DEF freed
    <3>4. CountOK'
      BY <2>1, <3>2, <3>3 DEF CountOK
    <3> QED
      BY <2>1, <2>2, <3>4
  <2>14. SyncOK' /\ dirty' \in [File -> BOOLEAN] /\ dinode' \in [File -> Inode]
    BY <1>2, <2>1, <2>2, <2>6, MarkedKeeps
  <2>15. disk' \in [Block -> [Cell -> Content]]
    <3>1. NoBlock \in Content
      BY DEF NoBlock, Content
    <3>2. CASE index < NDIRECT \/ freed = {}
      BY <2>2, <2>9, <3>2
    <3>3. CASE ~(index < NDIRECT \/ freed = {})
      <4>1. t \in Block /\ index - NDIRECT \in Cell
        BY <2>4, <2>8, <2>9, <3>3
      <4>2. [disk[t] EXCEPT ![index - NDIRECT] = NoBlock] \in [Cell -> Content]
        BY <2>2, <3>1, <4>1
      <4>3. disk' = [disk EXCEPT ![t] = [disk[t] EXCEPT ![index - NDIRECT] = NoBlock]]
        BY <2>2, <2>9, <3>3, <4>1
      <4> QED
        BY <2>2, <4>1, <4>2, <4>3
    <3> QED
      BY <3>2, <3>3
  <2>16. TypeOK'
    BY <2>1, <2>2, <2>7, <2>13, <2>14, <2>15 DEF TypeOK
  <2>17. CallOK'
    <3>1. /\ DOMAIN call' = TruncateFields /\ call'.op = call.op /\ call'.f = f /\ call'.h = call.h
          /\ call'.len = call.len
      BY <1>2, <2>1 DEF TruncateFields
    <3> QED
      BY <1>1, <1>2, <3>1 DEF CallOK
  <2> QED
    BY <2>12, <2>13, <2>14, <2>16, <2>17 DEF IInv
<1> QED
  BY <1>3, <1>4

\* sfs_truncfile is through with the blocks.
LEMMA TruncateResizeInv == ASSUME IInv, TruncateResize PROVE IInv'
<1> DEFINE f == call.f
<1>1. call.op = "truncate"
  BY DEF TruncateResize, Running
<1>2. DOMAIN call = TruncateFields /\ f \in File /\ call.h \in Handle /\ call.len \in Int
  BY <1>1, Calls DEF IInv
<1>3. CASE Panics("din->blocks == tblks")
  BY <1>3, PanicInv
<1>4. CASE ~Panics("din->blocks == tblks")
  <2>1. /\ din' = [din EXCEPT ![f].size = call.len] /\ Marked(f, TRUE) /\ call' = [call EXCEPT !.at = "done"]
        /\ UNCHANGED <<freemap, unused_blocks, disk, node, pos>>
    BY <1>4 DEF TruncateResize
  <2>2. /\ din \in [File -> Inode]
        /\ node' \in [Handle -> File \union {NoFile}] /\ pos' \in [Handle -> Int]
    BY <2>1 DEF IInv, TypeOK
  <2>3. /\ din' \in [File -> Inode]
        /\ \A g \in File : din'[g].direct = din[g].direct /\ din'[g].indirect = din[g].indirect
    <3> DEFINE new == [din[f] EXCEPT !.size = call.len]
    <3>1. new \in Inode /\ new.direct = din[f].direct /\ new.indirect = din[f].indirect
      BY <1>2, <2>2 DEF Inode
    <3>2. din' = [din EXCEPT ![f] = new]
      BY <1>2, <2>1, <2>2
    <3> HIDE DEF new
    <3> QED
      BY <1>2, <2>2, <3>1, <3>2
  <2>4. TypeOK' /\ OwnOK' /\ SyncOK' /\ CountOK'
    BY <1>2, <2>1, <2>2, <2>3, SizesMove
  <2>5. CallOK'
    <3>1. /\ DOMAIN call' = TruncateFields /\ call'.op = call.op /\ call'.f = f /\ call'.h = call.h
          /\ call'.len = call.len
      BY <1>2, <2>1 DEF TruncateFields
    <3> QED
      BY <1>1, <1>2, <3>1 DEF CallOK
  <2> QED
    BY <2>4, <2>5 DEF IInv
<1> QED
  BY <1>3, <1>4

-----------------------------------------------------------------------------
\* Handles open and move, and the disk stays.
LEMMA HandlesMove ==
  ASSUME IInv, UNCHANGED fsvars, node' \in [Handle -> File \union {NoFile}], pos' \in [Handle -> Int]
  PROVE  TypeOK' /\ OwnOK' /\ SyncOK' /\ CountOK'
<1>1. UNCHANGED <<freemap, unused_blocks, disk, din, dinode, dirty>>
  BY DEF fsvars
<1>2. TypeOK' /\ SyncOK' /\ CountOK'
  BY <1>1 DEF IInv, TypeOK, SyncOK, CountOK
<1>3. \A g \in File, i \in Index : BlockAt(g, i)' = BlockAt(g, i)
  BY <1>1 DEF BlockAt
<1>4. OwnOK'
  BY <1>1, <1>3, OwnKept DEF IInv
<1> QED
  BY <1>2, <1>4

\* A truncation that is asked for.
LEMMA TruncateBegins ==
  ASSUME NEW h \in Handle, NEW f \in File, NEW len \in Int, NEW why, call' = TruncateCall(h, f, len, why)
  PROVE  CallOK'
<1>1. /\ DOMAIN call' = TruncateFields /\ call'.op = "truncate" /\ call'.f = f /\ call'.h = h /\ call'.len = len
  BY DEF TruncateCall, TruncateFields
<1> QED
  BY <1>1 DEF CallOK

\* file_open, with the position at the end for O_APPEND.
LEMMA OpenInv ==
  ASSUME IInv, NEW h \in Handle, NEW f \in File, Open(h, f) \/ OpenAppend(h, f)
  PROVE  IInv'
<1>1. UNCHANGED fsvars /\ call' = call /\ node' = [node EXCEPT ![h] = f]
      /\ (pos' = pos \/ pos' = [pos EXCEPT ![h] = din[f].size])
  BY DEF Open, OpenAppend
<1>2. node' \in [Handle -> File \union {NoFile}] /\ pos' \in [Handle -> Int]
  BY <1>1 DEF IInv, TypeOK, Inode
<1>3. CallOK'
  BY <1>1 DEF IInv, CallOK, Idle
<1> QED
  BY <1>1, <1>2, <1>3, HandlesMove DEF IInv

\* file_open with O_TRUNC or O_CREAT.
LEMMA OpenTruncateInv ==
  ASSUME IInv, NEW h \in Handle, NEW f \in File, OpenTruncate(h, f)
  PROVE  IInv'
<1>1. CASE Panics("tblks == din->blocks")
  BY <1>1, PanicInv
<1>2. CASE ~Panics("tblks == din->blocks")
  <2>1. /\ node' = [node EXCEPT ![h] = f] /\ UNCHANGED <<fsvars, pos>>
        /\ (call' = Idle \/ call' = TruncateCall(h, f, 0, "open"))
    BY <1>2 DEF OpenTruncate
  <2>2. node' \in [Handle -> File \union {NoFile}] /\ pos' \in [Handle -> Int]
    BY <2>1 DEF IInv, TypeOK
  <2>3. CallOK'
    <3>1. call' = Idle => CallOK'
      BY DEF CallOK
    <3> QED
      BY <2>1, <3>1, TruncateBegins
  <2> QED
    BY <2>1, <2>2, <2>3, HandlesMove DEF IInv
<1> QED
  BY <1>1, <1>2

\* The ends of the two calls that truncate.
LEMMA ReturnsInv == ASSUME IInv, OpenReturns \/ SeekReturns PROVE IInv'
<1>1. call.op = "truncate"
  BY DEF OpenReturns, SeekReturns, Running
<1>2. call.h \in Handle /\ call.len \in Int
  BY <1>1, Calls DEF IInv
<1>3. /\ UNCHANGED fsvars /\ node' = node /\ call' = Idle
      /\ (pos' = pos \/ pos' = [pos EXCEPT ![call.h] = call.len])
  BY DEF OpenReturns, SeekReturns
<1>4. node' \in [Handle -> File \union {NoFile}] /\ pos' \in [Handle -> Int]
  BY <1>2, <1>3 DEF IInv, TypeOK
<1>5. CallOK'
  BY <1>3 DEF CallOK
<1> QED
  BY <1>3, <1>4, <1>5, HandlesMove DEF IInv

\* file_dup copies the position with the file.
LEMMA DupInv == ASSUME IInv, NEW h \in Handle, NEW g \in Handle, Dup(h, g) PROVE IInv'
<1>1. /\ UNCHANGED fsvars /\ call' = call /\ node' = [node EXCEPT ![g] = node[h]]
      /\ pos' = [pos EXCEPT ![g] = pos[h]]
  BY DEF Dup
<1>2. node' \in [Handle -> File \union {NoFile}] /\ pos' \in [Handle -> Int]
  BY <1>1 DEF IInv, TypeOK
<1>3. CallOK'
  BY <1>1 DEF IInv, CallOK, Idle
<1> QED
  BY <1>1, <1>2, <1>3, HandlesMove DEF IInv

\* file_seek, inside the file or beyond its end.
LEMMA SeekInv == ASSUME IInv, NEW h \in Handle, NEW to \in SeekTo, Seek(h, to) PROVE IInv'
<1>1. node[h] # NoFile /\ UNCHANGED fsvars /\ node' = node
  BY DEF Seek, Ready
<1>2. node[h] \in File /\ to \in Int
  BY <1>1, ValueAssumption DEF IInv, TypeOK
<1>3. CASE call' = TruncateCall(h, node[h], to, "seek") /\ pos' = pos
  <2>1. CallOK'
    BY <1>2, <1>3, TruncateBegins
  <2>2. node' \in [Handle -> File \union {NoFile}] /\ pos' \in [Handle -> Int]
    BY <1>1, <1>3 DEF IInv, TypeOK
  <2> QED
    BY <1>1, <2>1, <2>2, HandlesMove DEF IInv
<1>4. CASE pos' = [pos EXCEPT ![h] = to] /\ call' = call
  <2>1. CallOK'
    BY <1>4 DEF IInv, CallOK, Idle
  <2>2. node' \in [Handle -> File \union {NoFile}] /\ pos' \in [Handle -> Int]
    BY <1>1, <1>2, <1>4 DEF IInv, TypeOK
  <2> QED
    BY <1>1, <2>1, <2>2, HandlesMove DEF IInv
<1> QED
  BY <1>3, <1>4 DEF Seek

\* sfs_fsync brings the inode on the disk up to date, and a later load reads that.
LEMMA InodeStored ==
  ASSUME IInv, NEW f \in File, NEW stored \in Inode,
         stored.direct = din[f].direct, stored.indirect = din[f].indirect,
         UNCHANGED <<freemap, unused_blocks, disk>>,
         dinode' = [dinode EXCEPT ![f] = stored], dirty' = [dirty EXCEPT ![f] = FALSE],
         din' = [din EXCEPT ![f] = stored] \/ din' = din,
         node' \in [Handle -> File \union {NoFile}], pos' \in [Handle -> Int]
  PROVE  TypeOK' /\ OwnOK' /\ SyncOK' /\ CountOK'
<1>1. TypeOK /\ SyncOK /\ OwnOK /\ CountOK
  BY DEF IInv
<1>2. /\ din' \in [File -> Inode] /\ dinode' \in [File -> Inode] /\ dirty' \in [File -> BOOLEAN]
      /\ \A g \in File : din'[g].direct = din[g].direct /\ din'[g].indirect = din[g].indirect
  BY <1>1 DEF TypeOK
<1>3. \A g \in File, i \in Index : BlockAt(g, i)' = BlockAt(g, i)
  BY <1>1, <1>2, EntriesSame
<1>4. OwnOK'
  BY <1>1, <1>2, <1>3, OwnKept
<1>5. SyncOK'
  <2> SUFFICES ASSUME NEW g \in File
               PROVE  dirty'[g] \/ (din'[g].direct = dinode'[g].direct /\ din'[g].indirect = dinode'[g].indirect)
    BY DEF SyncOK
  <2>1. CASE g = f
    BY <1>1, <1>2, <2>1 DEF TypeOK
  <2>2. CASE g # f
    <3>1. dirty'[g] = dirty[g] /\ dinode'[g] = dinode[g]
      BY <1>1, <2>2 DEF TypeOK
    <3> QED
      BY <1>1, <1>2, <3>1 DEF SyncOK
  <2> QED
    BY <2>1, <2>2
<1>6. TypeOK' /\ CountOK'
  BY <1>1, <1>2 DEF TypeOK, CountOK
<1> QED
  BY <1>4, <1>5, <1>6

\* file_fsync.
LEMMA FsyncInv == ASSUME IInv, NEW h \in Handle, Fsync(h) PROVE IInv'
<1> DEFINE f == node[h]
<1>1. /\ f # NoFile /\ UNCHANGED <<freemap, unused_blocks, disk, din, node, pos, call>>
      /\ dinode' = [dinode EXCEPT ![f] = din[f]] /\ dirty' = [dirty EXCEPT ![f] = FALSE]
  BY DEF Fsync, Ready
<1>2. /\ f \in File /\ din[f] \in Inode
      /\ node' \in [Handle -> File \union {NoFile}] /\ pos' \in [Handle -> Int]
  BY <1>1 DEF IInv, TypeOK
<1>3. CallOK'
  BY <1>1 DEF IInv, CallOK, Idle
<1> QED
  BY <1>1, <1>2, <1>3, InodeStored DEF IInv

\* file_close, with sfs_reclaim when it was the last handle.
LEMMA CloseInv == ASSUME IInv, NEW h \in Handle, Close(h) PROVE IInv'
<1> DEFINE f == node[h]
           stored == IF dirty[f] THEN din[f] ELSE dinode[f]
<1>1. /\ f # NoFile /\ UNCHANGED <<freemap, unused_blocks, disk, call>>
      /\ node' = [node EXCEPT ![h] = NoFile] /\ pos' = [pos EXCEPT ![h] = 0]
      /\ \/ dinode' = [dinode EXCEPT ![f] = stored] /\ din' = [din EXCEPT ![f] = stored] /\ dirty' = [dirty EXCEPT ![f] = FALSE]
         \/ UNCHANGED <<dinode, din, dirty>>
  BY DEF Close, Release, Ready
<1>2. /\ f \in File /\ stored \in Inode
      /\ node' \in [Handle -> File \union {NoFile}] /\ pos' \in [Handle -> Int]
  BY <1>1 DEF IInv, TypeOK
<1>3. stored.direct = din[f].direct /\ stored.indirect = din[f].indirect
  BY <1>2 DEF IInv, SyncOK
<1>4. CallOK'
  BY <1>1 DEF IInv, CallOK, Idle
<1> HIDE DEF stored
<1>5. CASE UNCHANGED <<dinode, din, dirty>>
  BY <1>1, <1>2, <1>4, <1>5, HandlesMove DEF IInv, fsvars
<1>6. CASE ~UNCHANGED <<dinode, din, dirty>>
  BY <1>1, <1>2, <1>3, <1>4, <1>6, InodeStored DEF IInv
<1> QED
  BY <1>5, <1>6

-----------------------------------------------------------------------------
\* Every step of every call keeps all of it.
LEMMA NextInv == IInv /\ [Next]_vars => IInv'
<1> SUFFICES ASSUME IInv, [Next]_vars PROVE IInv'
  OBVIOUS
<1>1. CASE UNCHANGED vars
  <2>1. UNCHANGED <<fsvars, node, pos>> /\ call' = call
    BY <1>1 DEF vars
  <2>2. CallOK'
    BY <2>1 DEF IInv, CallOK, Idle
  <2> QED
    BY <2>1, <2>2, DiskKept DEF IInv
<1>2. CASE Go
  <2>1. CASE IoHead \/ IoBody \/ IoTail
    BY <2>1, PartsInv
  <2>2. CASE IoOut
    BY <2>2, IoOutInv
  <2>3. CASE TruncateGrow
    BY <2>3, TruncateGrowInv
  <2>4. CASE TruncateShrink
    BY <2>4, TruncateShrinkInv
  <2>5. CASE TruncateResize
    BY <2>5, TruncateResizeInv
  <2>6. CASE OpenReturns \/ SeekReturns
    BY <2>6, ReturnsInv
  <2> QED
    BY <1>2, <2>1, <2>2, <2>3, <2>4, <2>5, <2>6 DEF Go
<1>3. ASSUME NEW h \in Handle, NEW f \in File, Open(h, f) \/ OpenAppend(h, f) \/ OpenTruncate(h, f)
      PROVE  IInv'
  BY <1>3, OpenInv, OpenTruncateInv
<1>4. ASSUME NEW h \in Handle, NEW len \in 1 .. IOBUF_SIZE, Read(h, len) \/ \E v \in Value : Write(h, len, v)
      PROVE  IInv'
  BY <1>4, StartIoInv DEF Read, Write
<1>5. ASSUME NEW h \in Handle, NEW to \in SeekTo, Seek(h, to) PROVE IInv'
  BY <1>5, SeekInv
<1>6. ASSUME NEW h \in Handle, NEW g \in Handle, Dup(h, g) PROVE IInv'
  BY <1>6, DupInv
<1>7. ASSUME NEW h \in Handle, Close(h) \/ Fsync(h) PROVE IInv'
  BY <1>7, CloseInv, FsyncInv
<1> QED
  BY <1>1, <1>2, <1>3, <1>4, <1>5, <1>6, <1>7 DEF Next

\* The invariant holds in every state of every run of the calls.
THEOREM Inductive == Spec => []IInv
<1> QED
  BY StartInv, NextInv, PTL DEF Spec

\* BlocksOwned: a block in use belongs to one place of one file and a free one to
\* none, and the super block counts the free ones, although sfs_bmap_get_sub_nolock
\* and sfs_truncfile stop halfway on a full disk.
THEOREM Owned == Spec => []BlocksOwned
<1>1. ASSUME IInv PROVE BlocksOwned
  <2>1. OwnOK /\ CountOK /\ NoBlock \notin Block
    BY <1>1, Numbers DEF IInv
  <2> DEFINE Places(b) == {u \in File \X Index : BlockAt(u[1], u[2]) = b}
             Tables(b) == {<<f, "indirect">> : f \in {g \in File : din[g].indirect = b}}
  <2>2. ASSUME NEW b \in Block PROVE Cardinality(Owners(b)) = IF b \in freemap THEN 0 ELSE 1
    <3>1. Owners(b) = Places(b) \union Tables(b)
      BY DEF Owners
    <3>2. \A u \in File \X Index : u = <<u[1], u[2]>> /\ u[1] \in File /\ u[2] \in Index
      OBVIOUS
    <3>3. CASE b \in freemap
      <4>1. Places(b) = {} /\ Tables(b) = {}
        BY <2>1, <3>2, <3>3 DEF OwnOK
      <4> HIDE DEF Places, Tables
      <4> QED
        BY <3>1, <3>3, <4>1, FS_EmptySet
    <3>4. CASE b \notin freemap
      <4>1. CASE \E f \in File, i \in Index : BlockAt(f, i) = b
        <5>1. PICK f \in File, i \in Index : BlockAt(f, i) = b
          BY <4>1
        <5>2. \A u \in Places(b) : u = <<f, i>>
          BY <2>1, <3>2, <5>1 DEF OwnOK
        <5>3. <<f, i>> \in Places(b)
          BY <5>1
        <5>4. Tables(b) = {}
          BY <2>1, <5>1 DEF OwnOK
        <5> HIDE DEF Places, Tables
        <5>5. Owners(b) = {<<f, i>>}
          BY <3>1, <5>2, <5>3, <5>4
        <5> QED
          BY <3>4, <5>5, FS_Singleton
      <4>2. CASE \E f \in File : din[f].indirect = b
        <5>1. PICK f \in File : din[f].indirect = b
          BY <4>2
        <5>2. Tables(b) = {<<f, "indirect">>}
          BY <2>1, <5>1 DEF OwnOK
        <5>3. Places(b) = {}
          BY <2>1, <3>2, <5>1 DEF OwnOK
        <5> HIDE DEF Places, Tables
        <5>4. Owners(b) = {<<f, "indirect">>}
          BY <3>1, <5>2, <5>3
        <5> QED
          BY <3>4, <5>4, FS_Singleton
      <4> QED
        BY <2>1, <3>4, <4>1, <4>2 DEF OwnOK
    <3> QED
      BY <3>3, <3>4
  <2> QED
    BY <2>1, <2>2 DEF BlocksOwned, CountOK
<1> QED
  BY <1>1, Inductive, PTL

-----------------------------------------------------------------------------
(***************************************************************************)
(* Blocks and the bytes in them                                            *)
(***************************************************************************)
\* More blocks hold more bytes.
LEMMA Multiples ==
  ASSUME NEW q \in Int, NEW r \in Int
  PROVE  /\ BLKSIZE * q \in Int /\ BLKSIZE * (q + 1) = BLKSIZE * q + BLKSIZE
         /\ BLKSIZE * (q + r) = BLKSIZE * q + BLKSIZE * r
         /\ q < r => BLKSIZE * q + BLKSIZE <= BLKSIZE * r
         /\ q <= r => BLKSIZE * q <= BLKSIZE * r
<1>1. BLKSIZE \in Int /\ BLKSIZE > 0
  BY Numbers
<1>2. q < r => BLKSIZE * (r - q - 1) >= 0
  BY <1>1
<1>3. q <= r => BLKSIZE * (r - q) >= 0
  BY <1>1
<1> QED
  BY <1>1, <1>2, <1>3

\* A position is its block and its place in there.
LEMMA Division ==
  ASSUME NEW n \in Nat
  PROVE  /\ n \div BLKSIZE \in Nat /\ n % BLKSIZE \in Cell
         /\ n = BLKSIZE * (n \div BLKSIZE) + (n % BLKSIZE)
<1>1. BLKSIZE \in Nat /\ BLKSIZE > 0
  BY Numbers
<1> QED
  BY <1>1 DEF Cell

\* There is only one such block.
LEMMA DivisionIs ==
  ASSUME NEW n \in Nat, NEW q \in Int, BLKSIZE * q <= n, n < BLKSIZE * q + BLKSIZE
  PROVE  n \div BLKSIZE = q /\ n % BLKSIZE = n - BLKSIZE * q
<1> DEFINE p == n \div BLKSIZE
<1>1. p \in Nat /\ n % BLKSIZE \in Cell /\ n = BLKSIZE * p + (n % BLKSIZE) /\ BLKSIZE \in Nat
  BY Division, Numbers
<1>2. n % BLKSIZE \in 0 .. BLKSIZE - 1
  BY <1>1 DEF Cell
<1> HIDE DEF p
<1>3. BLKSIZE * p \in Int /\ BLKSIZE * q \in Int
  BY <1>1, Multiples
<1>4. (p < q => BLKSIZE * p + BLKSIZE <= BLKSIZE * q) /\ (q < p => BLKSIZE * q + BLKSIZE <= BLKSIZE * p)
  BY <1>1, Multiples
<1>5. ~(p < q) /\ ~(q < p)
  BY <1>1, <1>2, <1>3, <1>4
<1>6. p = q
  BY <1>1, <1>5
<1> QED
  BY <1>1, <1>2, <1>3, <1>6 DEF p

\* The blocks of n bytes hold them, and one block less does not.
LEMMA RoundUp ==
  ASSUME NEW n \in Nat
  PROVE  LET r == RoundUpDiv(n, BLKSIZE)
         IN  r \in Nat /\ n <= BLKSIZE * r /\ BLKSIZE * r < n + BLKSIZE
<1>1. BLKSIZE \in Nat /\ BLKSIZE > 0
  BY Numbers
<1> DEFINE k == n + BLKSIZE - 1
<1>2. k \in Nat
  BY <1>1
<1>3. k \div BLKSIZE \in Nat /\ k % BLKSIZE \in 0 .. BLKSIZE - 1 /\ k = BLKSIZE * (k \div BLKSIZE) + (k % BLKSIZE)
  BY <1>2, Division DEF Cell
<1> DEFINE r == k \div BLKSIZE
<1>4. r = RoundUpDiv(n, BLKSIZE)
  BY DEF RoundUpDiv
<1>5. BLKSIZE * r \in Int
  BY <1>3, Multiples
<1> HIDE DEF r
<1>6. k = BLKSIZE * r + (k % BLKSIZE)
  BY <1>3 DEF r
<1>7. n <= BLKSIZE * r /\ BLKSIZE * r < n + BLKSIZE
  BY <1>1, <1>3, <1>5, <1>6
<1>8. r \in Nat
  BY <1>3 DEF r
<1> QED
  BY <1>4, <1>7, <1>8

\* There is only one such number of blocks.
LEMMA RoundUpIs ==
  ASSUME NEW n \in Nat, NEW q \in Int, n <= BLKSIZE * q, BLKSIZE * q < n + BLKSIZE
  PROVE  RoundUpDiv(n, BLKSIZE) = q
<1> DEFINE r == RoundUpDiv(n, BLKSIZE)
<1>1. r \in Nat /\ n <= BLKSIZE * r /\ BLKSIZE * r < n + BLKSIZE
  BY RoundUp
<1> HIDE DEF r
<1>2. BLKSIZE * r \in Int /\ BLKSIZE * q \in Int /\ BLKSIZE \in Int
  BY <1>1, Multiples, Numbers
<1>3. ~(r < q) /\ ~(q < r)
  BY <1>1, <1>2, Multiples
<1>4. r = q
  BY <1>1, <1>3
<1> QED
  BY <1>4 DEF r

-----------------------------------------------------------------------------
(***************************************************************************)
(* What a load does to the counts of the file, and what is in the block    *)
(***************************************************************************)
\* The entry was there, or none was to be made.
WasThere(f, index, m) ==
  /\ m.ok = TRUE /\ m.ino = BlockAt(f, index) /\ m.took = {} /\ m.disk = disk /\ m.dirty = dirty[f]
  /\ m.inode = IF index = din[f].blocks THEN [din[f] EXCEPT !.blocks = @ + 1] ELSE din[f]
  /\ m.ino # NoBlock \/ index # din[f].blocks

\* No block was free.
Short(f, index, m) ==
  /\ m.ok = FALSE /\ m.took = {} /\ m.inode = din[f] /\ m.dirty = dirty[f]
  /\ BlockAt(f, index) = NoBlock /\ index = din[f].blocks

\* A block was made, and is empty.
Made(f, index, m) ==
  /\ m.ok = TRUE /\ BlockAt(f, index) = NoBlock /\ index = din[f].blocks
  /\ m.took # {} /\ m.ino \in m.took /\ m.disk[m.ino] = Zeroed
  /\ m.inode.size = din[f].size /\ m.inode.blocks = index + 1

\* The three ways of a load.
LEMMA LoadWays ==
  ASSUME IInv, NEW f \in File, NEW index \in Index
  PROVE  LET m == BmapLoad(f, index)
         IN  WasThere(f, index, m) \/ Short(f, index, m) \/ Made(f, index, m)
<1> DEFINE d == din[f]
           create == index = d.blocks
           g == BmapGet(f, index, create)
           m == BmapLoad(f, index)
           first == Lowest(freemap)
           second == Lowest(freemap \ {first})
           entry == index - NDIRECT
<1>1. /\ d \in Inode /\ freemap \in SUBSET Block /\ disk \in [Block -> [Cell -> Content]]
      /\ d.indirect # NoBlock => d.indirect \in Block \ freemap
  BY DEF IInv, TypeOK, OwnOK
<1>2. /\ freemap # {} => first \in freemap
      /\ freemap # {} /\ freemap # {first} => second \in freemap /\ second # first
  <2>1. freemap # {} => first \in freemap
    BY <1>1, LowestIn
  <2>2. ASSUME freemap # {}, freemap # {first} PROVE second \in freemap \ {first}
    <3>1. freemap \ {first} # {} /\ freemap \ {first} \in SUBSET Block
      BY <1>1, <2>1, <2>2
    <3> QED
      BY <3>1, LowestIn
  <2> QED
    BY <2>1, <2>2
<1>3. /\ m.ino = g.ino /\ m.ok = g.ok /\ m.took = g.took /\ m.disk = g.disk /\ m.dirty = g.dirty
      /\ m.inode = IF create /\ g.ok THEN [g.inode EXCEPT !.blocks = @ + 1] ELSE g.inode
  BY DEF BmapLoad, BmapGet, Unchanged, Failed, GiveBack
<1> HIDE DEF m, create, first, second, entry
<1>4. CASE BlockAt(f, index) # NoBlock \/ ~create
  <2>1. g = Unchanged(f, BlockAt(f, index))
    BY <1>4 DEF BmapGet
  <2>2. /\ g.ok = TRUE /\ g.ino = BlockAt(f, index) /\ g.took = {} /\ g.disk = disk /\ g.inode = d /\ g.dirty = dirty[f]
    BY <2>1 DEF Unchanged
  <2>3. WasThere(f, index, m)
    BY <1>3, <1>4, <2>2 DEF WasThere, create
  <2> QED
    BY <2>3 DEF m
<1>5. CASE ~(BlockAt(f, index) # NoBlock \/ ~create) /\ freemap = {}
  <2>1. g = Failed(f)
    BY <1>5 DEF BmapGet
  <2>2. /\ g.ok = FALSE /\ g.took = {} /\ g.inode = d /\ g.dirty = dirty[f]
    BY <2>1 DEF Unchanged, Failed
  <2>3. Short(f, index, m)
    BY <1>3, <1>5, <2>2 DEF Short, create
  <2> QED
    BY <2>3 DEF m
<1>6. CASE ~(BlockAt(f, index) # NoBlock \/ ~create) /\ freemap # {} /\ index < NDIRECT
  <2>1. g = [ok |-> TRUE, ino |-> first, took |-> {first}, disk |-> [disk EXCEPT ![first] = Zeroed],
             inode |-> [d EXCEPT !.direct[index] = first], dirty |-> TRUE]
    BY <1>6 DEF BmapGet, first
  <2>2. /\ g.ok = TRUE /\ g.ino = first /\ g.took = {first} /\ g.disk = [disk EXCEPT ![first] = Zeroed]
        /\ g.inode = [d EXCEPT !.direct[index] = first]
    BY <2>1
  <2>3. g.disk[first] = Zeroed
    BY <1>1, <1>2, <1>6, <2>2
  <2>4. m.inode = [g.inode EXCEPT !.blocks = @ + 1]
    BY <1>3, <1>6, <2>2
  <2>5. m.inode.size = d.size /\ m.inode.blocks = d.blocks + 1
    BY <1>1, <2>2, <2>4 DEF Inode
  <2>6. Made(f, index, m)
    BY <1>3, <1>6, <2>2, <2>3, <2>5 DEF Made, create
  <2> QED
    BY <2>6 DEF m
<1>7. CASE ~(BlockAt(f, index) # NoBlock \/ ~create) /\ freemap # {} /\ ~(index < NDIRECT) /\ d.indirect # NoBlock
  <2>1. g = [ok |-> TRUE, ino |-> first, took |-> {first},
             disk |-> [disk EXCEPT ![first] = Zeroed, ![d.indirect][entry] = first],
             inode |-> d, dirty |-> dirty[f]]
    BY <1>7 DEF BmapGet, first, entry
  <2>2. /\ g.ok = TRUE /\ g.ino = first /\ g.took = {first}
        /\ g.disk = [disk EXCEPT ![first] = Zeroed, ![d.indirect][entry] = first]
        /\ g.inode = d
    BY <2>1
  <2>3. first \in Block /\ first # d.indirect
    BY <1>1, <1>2, <1>7
  <2>4. g.disk[first] = Zeroed
    BY <1>1, <2>2, <2>3
  <2>5. m.inode = [d EXCEPT !.blocks = @ + 1]
    BY <1>3, <1>7, <2>2
  <2>6. m.inode.size = d.size /\ m.inode.blocks = d.blocks + 1
    BY <1>1, <2>5 DEF Inode
  <2>7. Made(f, index, m)
    BY <1>3, <1>7, <2>2, <2>4, <2>6 DEF Made, create
  <2> QED
    BY <2>7 DEF m
<1>8. CASE /\ ~(BlockAt(f, index) # NoBlock \/ ~create) /\ freemap # {} /\ ~(index < NDIRECT)
           /\ d.indirect = NoBlock /\ freemap = {first}
  <2>1. g = GiveBack(f, first)
    BY <1>8 DEF BmapGet, first
  <2>2. /\ g.ok = FALSE /\ g.took = {} /\ g.inode = d /\ g.dirty = dirty[f]
    BY <2>1 DEF Unchanged, Failed, GiveBack
  <2>3. Short(f, index, m)
    BY <1>3, <1>8, <2>2 DEF Short, create
  <2> QED
    BY <2>3 DEF m
<1>9. CASE /\ ~(BlockAt(f, index) # NoBlock \/ ~create) /\ freemap # {} /\ ~(index < NDIRECT)
           /\ d.indirect = NoBlock /\ freemap # {first}
  <2>1. g = [ok |-> TRUE, ino |-> second, took |-> {first, second},
             disk |-> [disk EXCEPT ![second] = Zeroed, ![first] = [Zeroed EXCEPT ![entry] = second]],
             inode |-> [d EXCEPT !.indirect = first], dirty |-> TRUE]
    BY <1>9 DEF BmapGet, first, second, entry
  <2>2. /\ g.ok = TRUE /\ g.ino = second /\ g.took = {first, second}
        /\ g.disk = [disk EXCEPT ![second] = Zeroed, ![first] = [Zeroed EXCEPT ![entry] = second]]
        /\ g.inode = [d EXCEPT !.indirect = first]
    BY <2>1
  <2>3. second \in Block /\ first # second
    BY <1>1, <1>2, <1>9
  <2>4. g.disk[second] = Zeroed
    BY <1>1, <2>2, <2>3
  <2>5. m.inode = [g.inode EXCEPT !.blocks = @ + 1]
    BY <1>3, <1>9, <2>2
  <2>6. m.inode.size = d.size /\ m.inode.blocks = d.blocks + 1
    BY <1>1, <2>2, <2>5 DEF Inode
  <2>7. Made(f, index, m)
    BY <1>3, <1>9, <2>2, <2>4, <2>6 DEF Made, create
  <2> QED
    BY <2>7 DEF m
<1> QED
  BY <1>4, <1>5, <1>6, <1>7, <1>8, <1>9

-----------------------------------------------------------------------------
(***************************************************************************)
(* How far a call has come                                                 *)
(***************************************************************************)
\* The byte of file f at position p, and where a read or a write has got to.
ByteAt(f, p) ==
  IF BlockAt(f, p \div BLKSIZE) = NoBlock THEN 0
  ELSE disk[BlockAt(f, p \div BLKSIZE)][p % BLKSIZE]
Reached == call.off + call.alen
InCall(f) == call.op # "idle" /\ call.f = f

\* Sizes and positions are those that file_seek and sfs_io_nolock let through, and a
\* clean inode has the size that the disk has.
BoundsOK ==
  /\ \A f \in File : din[f].size \in 0 .. MAX_FILE_SIZE - 1
  /\ \A h \in Handle : pos[h] \in 0 .. MAX_FILE_SIZE - 1
  /\ \A f \in File : dirty[f] \/ din[f].size = dinode[f].size

\* What sfs_io_nolock was asked for, and how far it has come.
ExtentOK ==
  /\ call.off \in 0 .. MAX_FILE_SIZE - 1 /\ call.off = pos[call.h] /\ call.len \in Nat
  /\ call.alen \in Nat /\ Reached < MAX_FILE_SIZE
  /\ call.end \in Nat /\ call.end <= call.off + call.len
  /\ Reached <= call.end \/ call.alen = 0
  /\ call.op = "read" => call.end <= din[call.f].size
  /\ call.op = "write" => call.off < call.end
  /\ call.at \in {"head", "body", "tail", "out"}

\* The block that comes next, and the whole blocks before the end.
NextBlockOK ==
  /\ call.off < call.end /\ Reached < call.end
  /\ call.blkno \in Nat /\ call.nblks \in Nat
  /\ BLKSIZE * call.blkno <= Reached /\ Reached < BLKSIZE * call.blkno + BLKSIZE
  /\ BLKSIZE * (call.blkno + call.nblks) <= call.end
  /\ call.end < BLKSIZE * (call.blkno + call.nblks) + BLKSIZE
  /\ call.at = "head" => call.alen = 0
  /\ call.at # "head" => Reached = BLKSIZE * call.blkno
  /\ call.at = "body" => call.nblks # 0
  /\ call.at = "tail" => call.nblks = 0

IoOK == call.op \in {"read", "write"} => ExtentOK /\ (call.at # "out" => NextBlockOK)

\* sfs_truncfile knows the number of blocks.
TruncateOK ==
  call.op = "truncate" =>
    /\ call.len \in 0 .. MAX_FILE_SIZE - 1 /\ call.tblks = Tblks(call.len)
    /\ call.nblks = din[call.f].blocks \/ call.at # "loop"

GInv == BoundsOK /\ IoOK /\ TruncateOK


\* The part of the transfer that comes next is within one block.
Piece(n, c, next) ==
  /\ n \in Nat \ {0} /\ c \in Nat /\ c + n <= BLKSIZE
  /\ Reached = BLKSIZE * call.blkno + c /\ Reached + n <= call.end
  /\ next \in {"body", "tail", "out"}
  /\ next # "out" => c + n = BLKSIZE /\ Reached + n < call.end /\ call.nblks > 0
  /\ next = "body" => call.nblks # 1
  /\ next = "tail" => call.nblks = 1

\* What is known of a transfer that goes on.
IoNumbers ==
  /\ call.off \in Nat /\ call.alen \in Nat /\ call.end \in Nat /\ call.blkno \in Nat /\ call.nblks \in Nat
  /\ Reached \in Nat /\ Reached < call.end
  /\ BLKSIZE * call.blkno \in Nat /\ BLKSIZE * (call.blkno + call.nblks) \in Nat
  /\ BLKSIZE * call.blkno <= Reached /\ Reached < BLKSIZE * call.blkno + BLKSIZE
  /\ BLKSIZE * (call.blkno + call.nblks) <= call.end
  /\ call.end < BLKSIZE * (call.blkno + call.nblks) + BLKSIZE
  /\ call.nblks = 0 => BLKSIZE * (call.blkno + call.nblks) = BLKSIZE * call.blkno
  /\ call.nblks # 0 => BLKSIZE * call.blkno + BLKSIZE <= BLKSIZE * (call.blkno + call.nblks)
  /\ call.nblks > 1 => BLKSIZE * call.blkno + BLKSIZE < BLKSIZE * (call.blkno + call.nblks)

\* The products of the block numbers are in order.
LEMMA IoCounts == ASSUME ExtentOK, NextBlockOK PROVE IoNumbers
<1>1. /\ call.off \in Nat /\ call.alen \in Nat /\ call.end \in Nat /\ call.blkno \in Nat /\ call.nblks \in Nat
      /\ Reached \in Nat /\ Reached < call.end
      /\ BLKSIZE * call.blkno <= Reached /\ Reached < BLKSIZE * call.blkno + BLKSIZE
      /\ BLKSIZE * (call.blkno + call.nblks) <= call.end
      /\ call.end < BLKSIZE * (call.blkno + call.nblks) + BLKSIZE
  BY DEF ExtentOK, NextBlockOK, Reached
<1> DEFINE p == call.blkno
           q == call.blkno + call.nblks
<1>2. p \in Nat /\ q \in Nat /\ (call.nblks # 0 => p < q) /\ (call.nblks > 1 => p + 1 < q) /\ (call.nblks = 0 => q = p)
  BY <1>1
<1>3. BLKSIZE \in Nat /\ BLKSIZE > 0
  BY Numbers
<1>4. BLKSIZE * p \in Nat /\ BLKSIZE * q \in Nat
  BY <1>2, <1>3
<1> HIDE DEF p, q
<1>5. /\ p < q => BLKSIZE * p + BLKSIZE <= BLKSIZE * q
      /\ p + 1 < q => BLKSIZE * (p + 1) + BLKSIZE <= BLKSIZE * q
      /\ BLKSIZE * (p + 1) = BLKSIZE * p + BLKSIZE
  <2>1. p \in Int /\ q \in Int /\ p + 1 \in Int
    BY <1>2
  <2>2. p < q => BLKSIZE * p + BLKSIZE <= BLKSIZE * q
    BY <2>1, Multiples
  <2>3. p + 1 < q => BLKSIZE * (p + 1) + BLKSIZE <= BLKSIZE * q
    BY <2>1, Multiples
  <2> QED
    BY <2>1, <2>2, <2>3, Multiples
<1>6. /\ call.nblks # 0 => BLKSIZE * p + BLKSIZE <= BLKSIZE * q
      /\ call.nblks > 1 => BLKSIZE * p + BLKSIZE < BLKSIZE * q
      /\ call.nblks = 0 => BLKSIZE * q = BLKSIZE * p
  BY <1>2, <1>3, <1>4, <1>5
<1> QED
  BY <1>1, <1>4, <1>6 DEF IoNumbers, p, q

\* What Part says comes after `left` more blocks.
LEMMA PartIs ==
  ASSUME NEW left, NEW end
  PROVE  /\ Part(left, end) \in {"body", "tail", "out"}
         /\ Part(left, end) = "body" => left > 0
         /\ Part(left, end) = "tail" => ~(left > 0) /\ end % BLKSIZE # 0
  BY DEF Part

\* IoHead, IoBody and IoTail transfer one piece each.
LEMMA Pieces ==
  ASSUME IInv, IoOK, IoHead \/ IoBody \/ IoTail
  PROVE  /\ call.op \in {"read", "write"} /\ call.at # "out" /\ ExtentOK /\ NextBlockOK
         /\ \E n, c, next : Piece(n, c, next) /\ Transfer(n, c, next)
<1>1. call.op \in {"read", "write"} /\ call.at # "out" /\ ExtentOK /\ NextBlockOK
  BY DEF IoHead, IoBody, IoTail, InIo, Running, IoOK
<1>2. IoNumbers
  BY <1>1, IoCounts
<1> DEFINE p == BLKSIZE * call.blkno
           q == BLKSIZE * (call.blkno + call.nblks)
<1>3. BLKSIZE \in Nat /\ BLKSIZE > 0
  BY Numbers
<1>4. /\ call.off \in Nat /\ call.alen \in Nat /\ call.end \in Nat /\ call.blkno \in Nat /\ call.nblks \in Nat
      /\ p \in Nat /\ q \in Nat
      /\ Reached \in Nat /\ Reached < call.end
      /\ p <= Reached /\ Reached < p + BLKSIZE /\ q <= call.end /\ call.end < q + BLKSIZE
      /\ call.nblks = 0 => q = p
      /\ call.nblks # 0 => p + BLKSIZE <= q
      /\ call.nblks > 1 => p + BLKSIZE < q
  BY <1>2 DEF IoNumbers
<1>5. call.end % BLKSIZE = call.end - q
  BY <1>4, DivisionIs
<1> DEFINE last == call.nblks - 1
           next == Part(last, call.end)
<1>6. /\ next \in {"body", "tail", "out"}
      /\ next = "body" => last > 0
      /\ next = "tail" => ~(last > 0) /\ call.end % BLKSIZE # 0
  BY PartIs
<1> HIDE DEF p, q, next
<1>7. ASSUME call.nblks # 0, NEW c \in Nat, Reached = p + c, c < BLKSIZE
      PROVE  Piece(BLKSIZE - c, c, next)
  <2> DEFINE n == BLKSIZE - c
  <2>1. n \in Nat \ {0} /\ c + n = BLKSIZE /\ Reached + n <= call.end /\ Reached = BLKSIZE * call.blkno + c
    BY <1>3, <1>4, <1>7 DEF p
  <2>2. next = "body" => call.nblks > 1 /\ Reached + n < call.end
    BY <1>3, <1>4, <1>6, <1>7
  <2>3. next = "tail" => call.nblks = 1 /\ Reached + n < call.end
    BY <1>3, <1>4, <1>5, <1>6, <1>7
  <2> QED
    BY <1>3, <1>4, <1>6, <1>7, <2>1, <2>2, <2>3 DEF Piece
<1>8. ASSUME call.nblks = 0, NEW c \in Nat, Reached = p + c
      PROVE  Piece(call.end - Reached, c, "out")
  <2>1. call.end - Reached \in Nat \ {0} /\ c + (call.end - Reached) <= BLKSIZE
    BY <1>3, <1>4, <1>8
  <2> QED
    BY <1>4, <1>8, <2>1 DEF Piece, p
<1>9. CASE IoHead
  <2>1. call.at = "head" /\ Reached = call.off
    BY <1>1, <1>4, <1>9 DEF IoHead, InIo, NextBlockOK, Reached
  <2> DEFINE c == Blkoff(call.off)
  <2>2. c = Reached - p
    BY <1>4, <2>1, DivisionIs DEF Blkoff, p
  <2> HIDE DEF c
  <2>3. c \in Nat /\ c < BLKSIZE /\ Reached = p + c
    BY <1>3, <1>4, <2>2
  <2>4. IF call.nblks # 0 THEN Transfer(BLKSIZE - c, c, next) ELSE Transfer(call.end - Reached, c, "out")
    BY <1>9, <2>1 DEF IoHead, next, c
  <2> QED
    BY <1>1, <1>7, <1>8, <2>3, <2>4
<1>10. CASE IoBody
  <2>1. call.at = "body" /\ Transfer(BLKSIZE, 0, next)
    BY <1>10 DEF IoBody, InIo, next
  <2>2. call.nblks # 0 /\ Reached = p
    BY <1>1, <2>1 DEF NextBlockOK, p
  <2>3. Reached = p + 0 /\ 0 < BLKSIZE /\ BLKSIZE - 0 = BLKSIZE
    BY <1>3, <1>4, <2>2
  <2>4. Piece(BLKSIZE, 0, next)
    BY <1>7, <2>2, <2>3
  <2> QED
    BY <1>1, <2>1, <2>4
<1>11. CASE IoTail
  <2>1. call.at = "tail" /\ Transfer(call.end % BLKSIZE, 0, "out")
    BY <1>11 DEF IoTail, InIo
  <2>2. call.nblks = 0 /\ Reached = p
    BY <1>1, <2>1 DEF NextBlockOK, p
  <2>3. Reached = p + 0 /\ call.end % BLKSIZE = call.end - Reached
    BY <1>4, <1>5, <2>2
  <2>4. Piece(call.end - Reached, 0, "out")
    BY <1>8, <2>2, <2>3
  <2> QED
    BY <1>1, <2>1, <2>3, <2>4
<1> QED
  BY <1>9, <1>10, <1>11

\* The call is the same, further on.
SameCall ==
  /\ call'.op = call.op /\ call'.f = call.f /\ call'.h = call.h /\ call'.v = call.v
  /\ call'.off = call.off /\ call'.len = call.len /\ call'.end = call.end

\* The bytes a write leaves on the disk.
Written(m, n, c) ==
  [m.disk EXCEPT ![m.ino] = [i \in Cell |-> IF c <= i /\ i < c + n THEN call.v ELSE m.disk[m.ino][i]]]

\* A transfer ends for want of a block.
Stopped(m) ==
  /\ Short(call.f, call.blkno, m) /\ Adopt(call.f, m, m.disk)
  /\ call'.alen = call.alen /\ call'.got = call.got /\ call'.at = "out"

\* A transfer of n bytes at cell c of its block.
Moved(m, n, c, next) ==
  /\ WasThere(call.f, call.blkno, m) \/ Made(call.f, call.blkno, m)
  /\ m.ino \in Block
  /\ Adopt(call.f, m, IF call.op = "write" THEN Written(m, n, c) ELSE m.disk)
  /\ call'.alen = call.alen + n /\ call'.at = next
  /\ call'.blkno = call.blkno + 1 /\ call'.nblks = call.nblks - 1
  /\ call'.got = IF call.op = "read" THEN call.got \o [i \in 1 .. n |-> m.disk[m.ino][c + i - 1]] ELSE call.got

\* What Transfer comes to.
LEMMA Transfers ==
  ASSUME IInv, call.op \in {"read", "write"}, NEW n \in Int, NEW c, NEW next, Transfer(n, c, next)
  PROVE  LET why == BmapLoadPanics(call.f, call.blkno)
             m == BmapLoad(call.f, call.blkno)
         IN  \/ why # "none" /\ Panics(why)
             \/ /\ why = "none" /\ call.blkno \in Index /\ Loads(call.f, call.blkno, m)
                /\ UNCHANGED <<node, pos, panic, mishap>> /\ SameCall
                /\ Stopped(m) \/ Moved(m, n, c, next)
<1> DEFINE f == call.f
           index == call.blkno
           m == BmapLoad(f, index)
           why == BmapLoadPanics(f, index)
           written == [m.disk EXCEPT ![m.ino] = [i \in Cell |-> IF c <= i /\ i < c + n THEN call.v ELSE @[i]]]
           got == [i \in 1 .. n |-> m.disk[m.ino][c + i - 1]]
<1>1. /\ DOMAIN call = IoFields /\ f \in File
  BY Calls DEF IInv
<1>2. CASE why # "none"
  BY <1>2 DEF Transfer
<1>3. CASE why = "none"
  <2>1. index \in Index /\ Loads(f, index, m) /\ (m.ok => m.ino \in Block)
    BY <1>1, <1>3, LoadFacts
  <2>2. WasThere(f, index, m) \/ Short(f, index, m) \/ Made(f, index, m)
    BY <1>1, <2>1, LoadWays
  <2>3. m.ok \in BOOLEAN /\ m.disk \in [Block -> [Cell -> Content]]
    BY <2>1 DEF Loads
  <2>4. CASE ~m.ok
    <3>1. Adopt(f, m, m.disk) /\ call' = [call EXCEPT !.at = "out"] /\ UNCHANGED <<node, pos, panic, mishap>>
      BY <1>3, <2>4 DEF Transfer
    <3>2. SameCall /\ call'.alen = call.alen /\ call'.got = call.got /\ call'.at = "out"
      BY <1>1, <3>1 DEF SameCall, IoFields
    <3>3. Short(f, index, m)
      BY <2>2, <2>4 DEF WasThere, Made
    <3>4. Stopped(m)
      BY <3>1, <3>2, <3>3 DEF Stopped
    <3> HIDE DEF m
    <3> QED
      BY <1>3, <2>1, <3>1, <3>2, <3>4 DEF m
  <2>5. CASE m.ok
    <3>1. /\ Adopt(f, m, IF call.op = "write" THEN written ELSE m.disk) /\ UNCHANGED <<node, pos, panic, mishap>>
          /\ call' = [call EXCEPT !.alen = @ + n, !.blkno = @ + 1, !.nblks = @ - 1, !.at = next,
                                  !.got = IF call.op = "read" THEN @ \o got ELSE @]
      BY <1>3, <2>5 DEF Transfer
    <3>2. /\ SameCall /\ call'.alen = call.alen + n /\ call'.at = next
          /\ call'.blkno = call.blkno + 1 /\ call'.nblks = call.nblks - 1
          /\ call'.got = IF call.op = "read" THEN call.got \o got ELSE call.got
      BY <1>1, <3>1 DEF SameCall, IoFields
    <3>3. WasThere(f, index, m) \/ Made(f, index, m)
      BY <2>2, <2>5 DEF Short
    <3>4. m.ino \in Block
      BY <2>1, <2>5
    <3> HIDE DEF m
    <3>5. written = Written(m, n, c)
      BY <2>3, <3>4 DEF Written
    <3>6. Moved(m, n, c, next)
      BY <3>1, <3>2, <3>3, <3>4, <3>5 DEF Moved, m
    <3> QED
      BY <1>3, <2>1, <3>1, <3>2, <3>6 DEF m
  <2> QED
    BY <2>3, <2>4, <2>5
<1> QED
  BY <1>2, <1>3

\* A size that changes is marked, or the inode has been.
LEMMA BoundsKept ==
  ASSUME TypeOK, BoundsOK, NEW f \in File, NEW mark \in BOOLEAN, Marked(f, mark),
         \A g \in File \ {f} : din'[g].size = din[g].size,
         din'[f].size \in 0 .. MAX_FILE_SIZE - 1,
         ~mark => ~dirty[f] /\ din'[f].size = din[f].size,
         \A h \in Handle : pos'[h] \in 0 .. MAX_FILE_SIZE - 1
  PROVE  BoundsOK'
<1>1. /\ dirty' = [dirty EXCEPT ![f] = mark]
      /\ dinode' = IF mark THEN [dinode EXCEPT ![f] = EmptyInode] ELSE dinode
      /\ dirty \in [File -> BOOLEAN] /\ dinode \in [File -> Inode]
  BY DEF Marked, TypeOK
<1>2. ASSUME NEW g \in File PROVE dirty'[g] \/ din'[g].size = dinode'[g].size
  <2>1. CASE g = f /\ mark
    BY <1>1, <2>1
  <2>2. CASE g = f /\ ~mark
    BY <1>1, <2>2 DEF BoundsOK
  <2>3. CASE g # f
    BY <1>1, <2>3 DEF BoundsOK
  <2> QED
    BY <2>1, <2>2, <2>3
<1>3. \A g \in File : din'[g].size \in 0 .. MAX_FILE_SIZE - 1
  BY DEF BoundsOK
<1>4. MAX_FILE_SIZE' = MAX_FILE_SIZE
  BY DEF MAX_FILE_SIZE
<1> QED
  BY <1>2, <1>3, <1>4 DEF BoundsOK

\* The largest size lies beyond the last block that an inode can have.
LEMMA Largest ==
  /\ MAX_FILE_SIZE \in Nat \ {0}
  /\ \A i \in Index : BLKSIZE * i + BLKSIZE < MAX_FILE_SIZE
<1> DEFINE s == NDIRECT + NENTRY
           p == BLKSIZE * s
<1>1. BLKSIZE \in Nat /\ BLKSIZE > 0 /\ s \in Nat \ {0}
  BY SizesAssumption, ValueAssumption
<1>2. MAX_FILE_SIZE = p + p
  BY <1>1 DEF MAX_FILE_SIZE
<1> HIDE DEF s
<1>3. p \in Nat /\ p > 0
  BY <1>1
<1>4. ASSUME NEW i \in Index PROVE BLKSIZE * i + BLKSIZE <= p
  <2>1. i \in Int /\ i < s
    BY SizesAssumption DEF Index, s
  <2> QED
    BY <1>1, <2>1, Multiples
<1>5. \A i \in Index : BLKSIZE * i \in Int /\ i \in Int
  BY <1>1, Numbers
<1> HIDE DEF p
<1> QED
  BY <1>1, <1>2, <1>3, <1>4, <1>5

\* A read or a write that takes a step on the disk.
LEMMA TransferG ==
  ASSUME IInv, GInv, IoHead \/ IoBody \/ IoTail
  PROVE  GInv'
<1>1. /\ call.op \in {"read", "write"} /\ call.at # "out" /\ ExtentOK /\ NextBlockOK /\ IoNumbers /\ TypeOK /\ BoundsOK
      /\ \E n, c, next : Piece(n, c, next) /\ Transfer(n, c, next)
  BY Pieces, IoCounts DEF GInv, IInv
<1>2. PICK n, c, next : Piece(n, c, next) /\ Transfer(n, c, next)
  BY <1>1
<1> DEFINE f == call.f
           m == BmapLoad(f, call.blkno)
           why == BmapLoadPanics(f, call.blkno)
<1>3. n \in Int /\ f \in File
  BY <1>1, <1>2, Calls DEF Piece, IInv
<1>4. CASE Panics(why)
  <2>1. UNCHANGED <<din, dinode, dirty, pos, call>>
    BY <1>4 DEF Panics, fsvars
  <2>2. BoundsOK' /\ IoOK' /\ TruncateOK'
    BY <2>1 DEF GInv, BoundsOK, IoOK, TruncateOK, ExtentOK, NextBlockOK, Reached, MAX_FILE_SIZE
  <2> QED
    BY <2>2 DEF GInv
<1>5. CASE ~Panics(why)
  <2>1. /\ call.blkno \in Index /\ Loads(f, call.blkno, m)
        /\ UNCHANGED <<node, pos, panic, mishap>> /\ SameCall
        /\ Stopped(m) \/ Moved(m, n, c, next)
    BY <1>1, <1>2, <1>3, <1>5, Transfers
  <2>2. /\ m.inode \in Inode /\ m.dirty \in BOOLEAN
        /\ m.dirty = TRUE \/ m.dirty = dirty[f]
    BY <2>1 DEF Loads, Found, NewDirect, NewEntry, NewTable
  <2>3. m.inode.size = din[f].size
    BY <1>1, <1>3, <2>1, ZenonT(60) DEF Stopped, Moved, WasThere, Made, Short, TypeOK, Inode
  <2>4. din' = [din EXCEPT ![f] = m.inode] /\ Marked(f, m.dirty)
    BY <2>1 DEF Stopped, Moved, Adopt
  <2>5. BoundsOK' /\ din'[f].size = din[f].size
    <3> HIDE DEF m
    <3>1. /\ din \in [File -> Inode] /\ dirty \in [File -> BOOLEAN]
      BY <1>1 DEF TypeOK
    <3>2. din'[f] = m.inode /\ \A g \in File \ {f} : din'[g] = din[g]
      BY <1>3, <2>4, <3>1
    <3>3. ~m.dirty => ~dirty[f]
      BY <1>3, <2>2, <3>1
    <3> QED
      BY <1>1, <1>3, <2>1, <2>2, <2>3, <2>4, <3>2, <3>3, BoundsKept DEF BoundsOK
  <2>6. TruncateOK'
    BY <1>1, <2>1 DEF SameCall, TruncateOK
  <2>7. /\ BLKSIZE \in Nat /\ MAX_FILE_SIZE \in Nat /\ MAX_FILE_SIZE' = MAX_FILE_SIZE
        /\ BLKSIZE * call.blkno + BLKSIZE < MAX_FILE_SIZE
    BY <2>1, Numbers, Largest DEF MAX_FILE_SIZE
  <2>8. CASE Stopped(m)
    <3>1. ExtentOK' /\ call'.at = "out"
      BY <1>1, <2>1, <2>5, <2>7, <2>8 DEF Stopped, SameCall, ExtentOK, Reached
    <3> QED
      BY <2>5, <2>6, <3>1 DEF GInv, IoOK
  <2>9. CASE Moved(m, n, c, next)
    <3>1. /\ call'.alen = call.alen + n /\ call'.at = next /\ call'.blkno = call.blkno + 1 /\ call'.nblks = call.nblks - 1
      BY <2>9 DEF Moved
    <3>2. /\ call.off \in Nat /\ call.alen \in Nat /\ call.end \in Nat /\ n \in Nat \ {0} /\ c \in Nat /\ Reached \in Nat
          /\ Reached' = Reached + n /\ Reached + n <= call.end /\ Reached + n < MAX_FILE_SIZE
          /\ call.blkno \in Nat /\ call.nblks \in Nat
          /\ BLKSIZE * call.blkno \in Nat
      BY <1>1, <1>2, <2>1, <2>7, <3>1 DEF Piece, IoNumbers, Reached, SameCall
    <3>3. ExtentOK'
      BY <1>1, <1>2, <2>1, <2>5, <2>7, <3>1, <3>2 DEF SameCall, ExtentOK, Piece
    <3>4. ASSUME next # "out" PROVE NextBlockOK'
      <4>1. /\ Reached + n = BLKSIZE * call.blkno + BLKSIZE /\ Reached + n < call.end /\ call.nblks > 0
            /\ next \in {"body", "tail"}
            /\ next = "body" => call.nblks # 1
            /\ next = "tail" => call.nblks = 1
        BY <1>2, <2>7, <3>2, <3>4 DEF Piece
      <4>2. BLKSIZE * (call.blkno + 1) = BLKSIZE * call.blkno + BLKSIZE
        <5> DEFINE p == call.blkno
        <5>1. p \in Int
          BY <3>2
        <5> HIDE DEF p
        <5>2. BLKSIZE * (p + 1) = BLKSIZE * p + BLKSIZE
          BY <5>1, Multiples
        <5> QED
          BY <5>2 DEF p
      <4>3. call.blkno + 1 + (call.nblks - 1) = call.blkno + call.nblks
        BY <3>2
      <4>4. /\ BLKSIZE * (call.blkno + call.nblks) <= call.end
            /\ call.end < BLKSIZE * (call.blkno + call.nblks) + BLKSIZE
            /\ call.off < call.end
        BY <1>1 DEF IoNumbers, NextBlockOK
      <4>5. /\ call'.off = call.off /\ call'.end = call.end
            /\ call'.blkno + call'.nblks = call.blkno + call.nblks
        BY <2>1, <3>1, <4>3 DEF SameCall
      <4>6. /\ call'.blkno \in Nat /\ call'.nblks \in Nat /\ BLKSIZE * call'.blkno = Reached'
            /\ Reached' < BLKSIZE * call'.blkno + BLKSIZE /\ Reached' \in Nat
        BY <3>1, <3>2, <4>1, <4>2, Numbers
      <4>7. call'.at # "head" /\ (call'.at = "body" => call'.nblks # 0) /\ (call'.at = "tail" => call'.nblks = 0)
        BY <3>1, <3>2, <4>1
      <4> QED
        BY <3>2, <4>1, <4>4, <4>5, <4>6, <4>7 DEF NextBlockOK
    <3> QED
      BY <2>5, <2>6, <3>1, <3>3, <3>4 DEF GInv, IoOK
  <2> QED
    BY <2>1, <2>8, <2>9
<1> QED
  BY <1>4, <1>5

\* The truncation is the same, further on.
SameTruncate ==
  /\ call'.op = call.op /\ call'.f = call.f /\ call'.h = call.h /\ call'.len = call.len
  /\ call'.why = call.why /\ call'.tblks = call.tblks

\* What TruncateGrow comes to.
LEMMA Grows ==
  ASSUME IInv, TruncateGrow
  PROVE  LET why == BmapLoadPanics(call.f, call.nblks)
             m == BmapLoad(call.f, call.nblks)
         IN  \/ why # "none" /\ Panics(why)
             \/ /\ why = "none" /\ call.nblks \in Index /\ Loads(call.f, call.nblks, m)
                /\ UNCHANGED <<node, pos, panic, mishap>> /\ SameTruncate /\ Adopt(call.f, m, m.disk)
                /\ \/ Short(call.f, call.nblks, m) /\ call'.nblks = call.nblks /\ call'.at = "failed"
                   \/ /\ WasThere(call.f, call.nblks, m) \/ Made(call.f, call.nblks, m)
                      /\ m.ino \in Block /\ call'.nblks = call.nblks + 1 /\ call'.at = call.at
<1> DEFINE f == call.f
           index == call.nblks
           m == BmapLoad(f, index)
           why == BmapLoadPanics(f, index)
<1>1. DOMAIN call = TruncateFields /\ f \in File
  BY Calls DEF IInv, TruncateGrow, Running
<1>2. CASE why # "none"
  BY <1>2 DEF TruncateGrow
<1>3. CASE why = "none"
  <2>1. index \in Index /\ Loads(f, index, m) /\ (m.ok => m.ino \in Block)
    BY <1>1, <1>3, LoadFacts
  <2>2. WasThere(f, index, m) \/ Short(f, index, m) \/ Made(f, index, m)
    BY <1>1, <2>1, LoadWays
  <2>3. /\ Adopt(f, m, m.disk) /\ UNCHANGED <<node, pos, panic, mishap>>
        /\ call' = IF m.ok THEN [call EXCEPT !.nblks = @ + 1] ELSE [call EXCEPT !.at = "failed"]
    BY <1>3 DEF TruncateGrow
  <2>4. SameTruncate
    BY <1>1, <2>3 DEF SameTruncate, TruncateFields
  <2>5. m.ok \in BOOLEAN
    BY <2>1 DEF Loads
  <2>6. CASE m.ok
    <3>1. call'.nblks = call.nblks + 1 /\ call'.at = call.at /\ m.ino \in Block
      BY <1>1, <2>1, <2>3, <2>6 DEF TruncateFields
    <3>2. WasThere(f, index, m) \/ Made(f, index, m)
      BY <2>2, <2>6 DEF Short
    <3> HIDE DEF m
    <3> QED
      BY <1>3, <2>1, <2>3, <2>4, <3>1, <3>2 DEF m
  <2>7. CASE ~m.ok
    <3>1. call'.nblks = call.nblks /\ call'.at = "failed"
      BY <1>1, <2>3, <2>7 DEF TruncateFields
    <3>2. Short(f, index, m)
      BY <2>2, <2>7 DEF WasThere, Made
    <3> HIDE DEF m
    <3> QED
      BY <1>3, <2>1, <2>3, <2>4, <3>1, <3>2 DEF m
  <2> QED
    BY <2>5, <2>6, <2>7
<1> QED
  BY <1>2, <1>3

\* Nothing of it changes when a call panics, or when nothing happens.
LEMMA StillG ==
  ASSUME GInv, UNCHANGED <<din, dinode, dirty, pos, call>>
  PROVE  GInv'
  BY DEF GInv, BoundsOK, IoOK, TruncateOK, ExtentOK, NextBlockOK, Reached, MAX_FILE_SIZE, Tblks

\* A truncation that adds a block.
LEMMA TruncateGrowG == ASSUME IInv, GInv, TruncateGrow PROVE GInv'
<1> DEFINE f == call.f
           m == BmapLoad(f, call.nblks)
           why == BmapLoadPanics(f, call.nblks)
<1>1. call.op = "truncate" /\ call.at = "loop" /\ f \in File /\ TypeOK /\ BoundsOK /\ TruncateOK
  BY Calls DEF TruncateGrow, Running, IInv, GInv
<1>2. CASE Panics(why)
  BY <1>2, StillG DEF Panics, fsvars
<1>3. CASE ~Panics(why)
  <2>1. /\ call.nblks \in Index /\ Loads(f, call.nblks, m)
        /\ UNCHANGED <<node, pos, panic, mishap>> /\ SameTruncate /\ Adopt(f, m, m.disk)
        /\ \/ Short(f, call.nblks, m) /\ call'.nblks = call.nblks /\ call'.at = "failed"
           \/ /\ WasThere(f, call.nblks, m) \/ Made(f, call.nblks, m)
              /\ m.ino \in Block /\ call'.nblks = call.nblks + 1 /\ call'.at = call.at
    BY <1>3, Grows
  <2>2. /\ m.inode \in Inode /\ m.dirty \in BOOLEAN
        /\ m.dirty = TRUE \/ m.dirty = dirty[f]
    BY <2>1 DEF Loads, Found, NewDirect, NewEntry, NewTable
  <2>3. m.inode.size = din[f].size
    BY <1>1, <2>1 DEF WasThere, Made, Short, TypeOK, Inode
  <2>4. call.nblks = din[f].blocks /\ call.nblks \in Int
    BY <1>1, <2>1, Numbers DEF TruncateOK
  <2>5. call'.at # "loop" \/ m.inode.blocks = call'.nblks
    BY <1>1, <2>1, <2>4, ZenonT(60) DEF WasThere, Made, TypeOK, Inode
  <2>6. din' = [din EXCEPT ![f] = m.inode] /\ Marked(f, m.dirty)
    BY <2>1 DEF Adopt
  <2> HIDE DEF m
  <2>7. /\ din \in [File -> Inode] /\ dirty \in [File -> BOOLEAN]
    BY <1>1 DEF TypeOK
  <2>8. din'[f] = m.inode /\ \A g \in File \ {f} : din'[g] = din[g]
    BY <1>1, <2>6, <2>7
  <2>9. ~m.dirty => ~dirty[f]
    BY <1>1, <2>2, <2>7
  <2>10. BoundsOK'
    BY <1>1, <2>1, <2>2, <2>3, <2>6, <2>8, <2>9, BoundsKept DEF BoundsOK
  <2>11. TruncateOK'
    BY <1>1, <2>1, <2>5, <2>8 DEF TruncateOK, SameTruncate, MAX_FILE_SIZE, Tblks
  <2>12. IoOK'
    BY <1>1, <2>1 DEF IoOK, SameTruncate
  <2> QED
    BY <2>10, <2>11, <2>12 DEF GInv
<1> QED
  BY <1>2, <1>3

\* A truncation that frees a block.
LEMMA TruncateShrinkG == ASSUME IInv, GInv, TruncateShrink PROVE GInv'
<1> DEFINE f == call.f
           index == din[f].blocks - 1
<1>1. call.op = "truncate" /\ call.at = "loop" /\ DOMAIN call = TruncateFields /\ TypeOK /\ BoundsOK /\ TruncateOK
  BY Calls DEF TruncateShrink, Running, IInv, GInv
<1>2. CASE \E why \in {"din->blocks != 0", "sfs_block_inuse"} : Panics(why)
  BY <1>2, StillG DEF Panics, fsvars
<1>3. CASE ~\E why \in {"din->blocks != 0", "sfs_block_inuse"} : Panics(why)
  <2>0. ShrinkRuns
    BY <1>3 DEF ShrinkRuns, TruncateShrink, Running
  <2>1. /\ f \in File /\ din' \in [File -> Inode]
        /\ din'[f].blocks = index /\ din'[f].size = din[f].size
        /\ \A g \in File : g # f => din'[g] = din[g]
        /\ Marked(f, TRUE) /\ call' = [call EXCEPT !.nblks = @ - 1] /\ UNCHANGED <<node, pos, panic, mishap>>
    BY <2>0, ShrinkPlaces
  <2>2. SameTruncate /\ call'.nblks = call.nblks - 1 /\ call'.at = call.at
    BY <1>1, <2>1 DEF SameTruncate, TruncateFields
  <2>3. BoundsOK'
    BY <1>1, <2>1, BoundsKept DEF BoundsOK
  <2>4. TruncateOK'
    BY <1>1, <2>1, <2>2 DEF TruncateOK, SameTruncate, MAX_FILE_SIZE, Tblks
  <2>5. IoOK'
    BY <1>1, <2>2 DEF IoOK, SameTruncate
  <2> QED
    BY <2>3, <2>4, <2>5 DEF GInv
<1> QED
  BY <1>2, <1>3

\* A truncation that sets the size.
LEMMA TruncateResizeG == ASSUME IInv, GInv, TruncateResize PROVE GInv'
<1> DEFINE f == call.f
<1>1. /\ call.op = "truncate" /\ DOMAIN call = TruncateFields /\ f \in File /\ call.len \in Int
      /\ TypeOK /\ BoundsOK /\ TruncateOK
  BY Calls DEF TruncateResize, Running, IInv, GInv
<1>2. CASE Panics("din->blocks == tblks")
  BY <1>2, StillG DEF Panics, fsvars
<1>3. CASE ~Panics("din->blocks == tblks")
  <2>1. /\ din' = [din EXCEPT ![f].size = call.len] /\ Marked(f, TRUE) /\ call' = [call EXCEPT !.at = "done"]
        /\ UNCHANGED <<freemap, unused_blocks, disk, node, pos>>
    BY <1>3 DEF TruncateResize
  <2>2. /\ din \in [File -> Inode] /\ call.len \in 0 .. MAX_FILE_SIZE - 1
    BY <1>1 DEF TypeOK, TruncateOK
  <2>3. /\ din'[f].size = call.len /\ \A g \in File : g # f => din'[g] = din[g]
        /\ din' \in [File -> Inode]
    <3> DEFINE new == [din[f] EXCEPT !.size = call.len]
    <3>1. new \in Inode /\ new.size = call.len
      BY <1>1, <2>2 DEF Inode
    <3>2. din' = [din EXCEPT ![f] = new]
      BY <1>1, <2>1, <2>2
    <3> HIDE DEF new
    <3> QED
      BY <1>1, <2>2, <3>1, <3>2
  <2>4. SameTruncate /\ call'.nblks = call.nblks /\ call'.at = "done"
    BY <1>1, <2>1 DEF SameTruncate, TruncateFields
  <2>5. BoundsOK'
    BY <1>1, <2>1, <2>2, <2>3, BoundsKept DEF BoundsOK
  <2>6. TruncateOK'
    BY <1>1, <2>4 DEF TruncateOK, SameTruncate, MAX_FILE_SIZE, Tblks
  <2>7. IoOK'
    BY <1>1, <2>4 DEF IoOK, SameTruncate
  <2> QED
    BY <2>5, <2>6, <2>7 DEF GInv
<1> QED
  BY <1>2, <1>3

\* The end of a read or a write moves the position, and perhaps the size.
LEMMA IoOutG == ASSUME IInv, GInv, IoOut PROVE GInv'
<1> DEFINE f == call.f
           grows == call.end > call.off /\ Reached > din[f].size
<1>1. /\ call.op \in {"read", "write"} /\ f \in File /\ call.h \in Handle /\ ExtentOK /\ TypeOK /\ BoundsOK
  BY Calls DEF IoOut, InIo, Running, IInv, GInv, IoOK
<1>2. /\ din' = IF grows THEN [din EXCEPT ![f].size = Reached] ELSE din
      /\ Marked(f, dirty[f] \/ grows) /\ pos' = [pos EXCEPT ![call.h] = @ + call.alen] /\ call' = Idle
  BY DEF IoOut, Reached
<1>3. /\ din \in [File -> Inode] /\ dirty[f] \in BOOLEAN /\ pos \in [Handle -> Int]
      /\ Reached \in 0 .. MAX_FILE_SIZE - 1 /\ Reached \in Int /\ pos[call.h] + call.alen = Reached
      /\ MAX_FILE_SIZE \in Nat
  BY <1>1, Largest DEF TypeOK, ExtentOK, Reached
<1>4. /\ \A h \in Handle : pos'[h] \in 0 .. MAX_FILE_SIZE - 1
  BY <1>1, <1>2, <1>3 DEF BoundsOK
<1>5. /\ din' \in [File -> Inode] /\ \A g \in File \ {f} : din'[g].size = din[g].size
      /\ din'[f].size \in 0 .. MAX_FILE_SIZE - 1
      /\ ~grows => din'[f].size = din[f].size
  <2> DEFINE new == [din[f] EXCEPT !.size = Reached]
  <2>1. new \in Inode /\ new.size = Reached
    BY <1>1, <1>3 DEF Inode
  <2>2. IF grows THEN din' = [din EXCEPT ![f] = new] ELSE din' = din
    BY <1>1, <1>2, <1>3
  <2> HIDE DEF new, grows
  <2> QED
    BY <1>1, <1>3, <2>1, <2>2 DEF BoundsOK
<1>6. BoundsOK'
  <2>1. ASSUME NEW mark \in BOOLEAN, mark <=> dirty[f] \/ grows, Marked(f, mark) PROVE BoundsOK'
    BY <1>1, <1>4, <1>5, <2>1, BoundsKept
  <2> HIDE DEF grows
  <2> QED
    BY <1>2, <2>1, Zenon
<1>7. IoOK' /\ TruncateOK'
  BY <1>2 DEF IoOK, TruncateOK, Idle
<1> QED
  BY <1>6, <1>7 DEF GInv

\* Positions move and calls begin or end, while the files stay.
LEMMA HandlesG ==
  ASSUME GInv, UNCHANGED <<din, dinode, dirty>>, \A h \in Handle : pos'[h] \in 0 .. MAX_FILE_SIZE - 1,
         IoOK', TruncateOK'
  PROVE  GInv'
<1>1. MAX_FILE_SIZE' = MAX_FILE_SIZE
  BY DEF MAX_FILE_SIZE
<1> QED
  BY <1>1 DEF GInv, BoundsOK

\* Reading or writing begins.
LEMMA StartIoG ==
  ASSUME IInv, GInv, NEW op \in {"read", "write"}, NEW h \in Handle, NEW len \in Nat \ {0}, NEW v,
         StartIo(op, h, len, v)
  PROVE  GInv'
<1> DEFINE f == node[h]
           off == pos[h]
           end == Least(off + len, IF op = "read" THEN din[f].size ELSE MAX_FILE_SIZE)
           blkno == off \div BLKSIZE
           top == end \div BLKSIZE
           at == IF off >= end THEN "out" ELSE IF off % BLKSIZE # 0 THEN "head" ELSE Part(top - blkno, end)
<1>1. f \in File /\ UNCHANGED <<din, dinode, dirty, pos>> /\ BoundsOK /\ TypeOK
  BY DEF StartIo, Ready, fsvars, IInv, TypeOK, GInv
<1>2. /\ call'.op = op /\ call'.f = f /\ call'.h = h /\ call'.off = off /\ call'.len = len /\ call'.end = end
      /\ call'.blkno = blkno /\ call'.nblks = top - blkno /\ call'.alen = 0 /\ call'.at = at
  BY DEF StartIo
<1>3. /\ off \in 0 .. MAX_FILE_SIZE - 1 /\ off \in Nat /\ MAX_FILE_SIZE \in Nat /\ din[f].size \in Nat
  BY <1>1, Largest DEF BoundsOK
<1>4. /\ end \in Nat /\ end <= off + len
      /\ op = "read" => end <= din[f].size
      /\ op = "write" => off < end
  BY <1>3 DEF Least
<1> HIDE DEF end
<1>5. /\ blkno \in Nat /\ off % BLKSIZE \in Cell /\ off = BLKSIZE * blkno + (off % BLKSIZE)
      /\ top \in Nat /\ end % BLKSIZE \in Cell /\ end = BLKSIZE * top + (end % BLKSIZE)
  BY <1>3, <1>4, Division
<1>6. /\ off % BLKSIZE \in Int /\ 0 <= off % BLKSIZE /\ off % BLKSIZE < BLKSIZE
      /\ end % BLKSIZE \in Int /\ 0 <= end % BLKSIZE /\ end % BLKSIZE < BLKSIZE
      /\ BLKSIZE \in Nat /\ BLKSIZE > 0
  BY <1>5, Numbers DEF Cell
<1>7. /\ Part(top - blkno, end) \in {"body", "tail", "out"}
      /\ Part(top - blkno, end) = "body" => top - blkno > 0
      /\ Part(top - blkno, end) = "tail" => ~(top - blkno > 0)
  BY PartIs
<1>8. at \in {"head", "body", "tail", "out"}
  BY <1>7
<1>9. BLKSIZE * blkno \in Int /\ BLKSIZE * top \in Int
  BY <1>5, Multiples
<1> DEFINE o == off % BLKSIZE
           e == end % BLKSIZE
<1> HIDE DEF blkno, top, o, e
<1>10. /\ off = BLKSIZE * blkno + o /\ end = BLKSIZE * top + e /\ o \in Int /\ e \in Int
       /\ 0 <= o /\ o < BLKSIZE /\ 0 <= e /\ e < BLKSIZE
  BY <1>5, <1>6 DEF o, e
<1>11. top < blkno => BLKSIZE * top + BLKSIZE <= BLKSIZE * blkno
  BY <1>5, Multiples
<1>12. at # "out" => off < end /\ blkno <= top
  <2>1. at # "out" => off < end
    BY <1>3, <1>4
  <2> HIDE DEF off, at
  <2>2. off \in Int
    BY <1>3 DEF off
  <2> QED
    BY <1>4, <1>5, <1>6, <1>9, <1>10, <1>11, <2>1, <2>2
<1>13. ExtentOK'
  BY <1>1, <1>2, <1>3, <1>4, <1>8 DEF ExtentOK, Reached, MAX_FILE_SIZE
<1>14. ASSUME at # "out" PROVE NextBlockOK'
  <2>1. /\ at # "head" => o = 0
        /\ at = "body" => top - blkno # 0
        /\ at = "tail" => top - blkno = 0
    <3>1. at # "head" => o = 0 /\ at = Part(top - blkno, end)
      BY <1>14 DEF o
    <3> HIDE DEF at
    <3> QED
      BY <1>5, <1>7, <1>12, <1>14, <3>1
  <2>2. blkno + (top - blkno) = top
    BY <1>5
  <2> HIDE DEF at, off
  <2> QED
    BY <1>2, <1>3, <1>4, <1>5, <1>6, <1>9, <1>10, <1>12, <1>14, <2>1, <2>2 DEF NextBlockOK, Reached
<1>15. IoOK' /\ TruncateOK'
  BY <1>2, <1>13, <1>14 DEF IoOK, TruncateOK
<1> QED
  BY <1>1, <1>15, HandlesG DEF BoundsOK

\* An idle kernel and one that begins to truncate have nothing else to keep.
LEMMA IdleG == ASSUME call' = Idle PROVE IoOK' /\ TruncateOK'
  BY DEF IoOK, TruncateOK, Idle

\* A truncation begins with the number of blocks.
LEMMA TruncateBeginsG ==
  ASSUME NEW h, NEW f, NEW len \in 0 .. MAX_FILE_SIZE - 1, NEW why,
         call' = TruncateCall(h, f, len, why), din' = din
  PROVE  IoOK' /\ TruncateOK'
<1>1. /\ call'.op = "truncate" /\ call'.len = len /\ call'.tblks = Tblks(len) /\ call'.f = f
      /\ call'.nblks = din[f].blocks
  BY DEF TruncateCall
<1>2. MAX_FILE_SIZE' = MAX_FILE_SIZE
  BY DEF MAX_FILE_SIZE
<1> QED
  BY <1>1, <1>2 DEF IoOK, TruncateOK, Tblks

\* Opening a file, with the position at its end for O_APPEND, or emptying it.
LEMMA OpenG ==
  ASSUME IInv, GInv, NEW h \in Handle, NEW f \in File, Open(h, f) \/ OpenAppend(h, f) \/ OpenTruncate(h, f)
  PROVE  GInv'
<1>1. call = Idle /\ BoundsOK /\ TypeOK
  BY Calls DEF Open, OpenAppend, OpenTruncate, Running, IInv, GInv
<1>2. CASE Open(h, f) \/ OpenAppend(h, f)
  <2>1. /\ UNCHANGED <<din, dinode, dirty>> /\ call' = call
        /\ pos' = pos \/ pos' = [pos EXCEPT ![h] = din[f].size]
    BY <1>2 DEF Open, OpenAppend, fsvars
  <2>2. \A g \in Handle : pos'[g] \in 0 .. MAX_FILE_SIZE - 1
    BY <1>1, <2>1 DEF BoundsOK, TypeOK
  <2> QED
    BY <1>1, <2>1, <2>2, IdleG, HandlesG
<1>3. CASE Panics("tblks == din->blocks")
  BY <1>3, StillG DEF Panics, fsvars
<1>4. CASE OpenTruncate(h, f) /\ ~Panics("tblks == din->blocks")
  <2>1. /\ UNCHANGED <<din, dinode, dirty, pos>>
        /\ call' = Idle \/ call' = TruncateCall(h, f, 0, "open")
    BY <1>4 DEF OpenTruncate, fsvars
  <2>2. 0 \in 0 .. MAX_FILE_SIZE - 1
    BY Largest
  <2>3. IoOK' /\ TruncateOK'
    BY <2>1, <2>2, IdleG, TruncateBeginsG
  <2> QED
    BY <1>1, <2>1, <2>3, HandlesG DEF BoundsOK
<1> QED
  BY <1>2, <1>3, <1>4

\* The ends of the two calls that truncate.
LEMMA ReturnsG == ASSUME IInv, GInv, OpenReturns \/ SeekReturns PROVE GInv'
<1>1. call.op = "truncate" /\ call.h \in Handle /\ BoundsOK /\ TypeOK /\ call.len \in 0 .. MAX_FILE_SIZE - 1
  BY Calls DEF OpenReturns, SeekReturns, Running, IInv, GInv, TruncateOK
<1>2. /\ UNCHANGED <<din, dinode, dirty>> /\ call' = Idle
      /\ pos' = pos \/ pos' = [pos EXCEPT ![call.h] = call.len]
  BY DEF OpenReturns, SeekReturns, fsvars
<1>3. \A g \in Handle : pos'[g] \in 0 .. MAX_FILE_SIZE - 1
  BY <1>1, <1>2 DEF BoundsOK, TypeOK
<1> QED
  BY <1>2, <1>3, IdleG, HandlesG

\* A position is copied, or set, or a truncation to it begins.
LEMMA DupSeekG ==
  ASSUME IInv, GInv, NEW h \in Handle,
         (\E g \in Handle : Dup(h, g)) \/ (\E to \in SeekTo : Seek(h, to))
  PROVE  GInv'
<1>1. call = Idle /\ BoundsOK /\ TypeOK /\ UNCHANGED <<din, dinode, dirty>>
  BY Calls DEF Dup, Seek, Ready, Running, IInv, GInv, fsvars
<1>2. ASSUME NEW g \in Handle, Dup(h, g) PROVE GInv'
  <2>1. call' = call /\ pos' = [pos EXCEPT ![g] = pos[h]]
    BY <1>2 DEF Dup
  <2>2. \A k \in Handle : pos'[k] \in 0 .. MAX_FILE_SIZE - 1
    BY <1>1, <2>1 DEF BoundsOK, TypeOK
  <2> QED
    BY <1>1, <2>1, <2>2, IdleG, HandlesG
<1>3. ASSUME NEW to \in SeekTo, Seek(h, to) PROVE GInv'
  <2>1. to \in 0 .. MAX_FILE_SIZE - 1
    BY <1>3, Largest, ValueAssumption DEF Seek
  <2>2. \/ call' = TruncateCall(h, node[h], to, "seek") /\ pos' = pos
        \/ call' = call /\ pos' = [pos EXCEPT ![h] = to]
    BY <1>3 DEF Seek
  <2>3. \A k \in Handle : pos'[k] \in 0 .. MAX_FILE_SIZE - 1
    BY <1>1, <2>1, <2>2 DEF BoundsOK, TypeOK
  <2>4. IoOK' /\ TruncateOK'
    BY <1>1, <2>1, <2>2, IdleG, TruncateBeginsG
  <2> QED
    BY <1>1, <2>3, <2>4, HandlesG
<1> QED
  BY <1>2, <1>3

\* The copy on the disk is brought up to date, and is what a later load reads.
LEMMA StoredG ==
  ASSUME IInv, GInv, NEW h \in Handle, Close(h) \/ Fsync(h)
  PROVE  GInv'
<1> DEFINE f == node[h]
<1>1. call = Idle /\ BoundsOK /\ TypeOK /\ f \in File /\ call' = call
  BY Calls DEF Close, Fsync, Ready, Running, IInv, GInv, TypeOK
<1>2. MAX_FILE_SIZE' = MAX_FILE_SIZE /\ 0 \in 0 .. MAX_FILE_SIZE - 1
  BY Largest DEF MAX_FILE_SIZE
<1>3. /\ pos' = pos \/ pos' = [pos EXCEPT ![h] = 0]
      /\ \/ UNCHANGED <<dinode, din, dirty>>
         \/ \E stored \in {din[f], dinode[f]} :
              /\ stored.size = din[f].size /\ dinode' = [dinode EXCEPT ![f] = stored]
              /\ din' = [din EXCEPT ![f] = stored] \/ din' = din
              /\ dirty' = [dirty EXCEPT ![f] = FALSE]
  <2>1. CASE Fsync(h)
    BY <2>1 DEF Fsync
  <2>2. CASE Close(h)
    <3> DEFINE stored == IF dirty[f] THEN din[f] ELSE dinode[f]
    <3>1. stored \in {din[f], dinode[f]} /\ stored.size = din[f].size
      BY <1>1 DEF BoundsOK
    <3>2. /\ pos' = [pos EXCEPT ![h] = 0]
          /\ \/ UNCHANGED <<dinode, din, dirty>>
             \/ dinode' = [dinode EXCEPT ![f] = stored] /\ din' = [din EXCEPT ![f] = stored] /\ dirty' = [dirty EXCEPT ![f] = FALSE]
      BY <2>2 DEF Close, Release
    <3> HIDE DEF stored
    <3> QED
      BY <3>1, <3>2
  <2> QED
    BY <2>1, <2>2
<1>4. \A k \in Handle : pos'[k] \in 0 .. MAX_FILE_SIZE - 1
  BY <1>1, <1>2, <1>3 DEF BoundsOK, TypeOK
<1>5. ASSUME NEW g \in File
      PROVE  din'[g].size \in 0 .. MAX_FILE_SIZE - 1 /\ (dirty'[g] \/ din'[g].size = dinode'[g].size)
  <2>1. CASE UNCHANGED <<dinode, din, dirty>>
    BY <1>1, <2>1 DEF BoundsOK
  <2>2. ASSUME NEW stored,
               stored.size = din[f].size, dinode' = [dinode EXCEPT ![f] = stored],
               din' = [din EXCEPT ![f] = stored] \/ din' = din,
               dirty' = [dirty EXCEPT ![f] = FALSE]
        PROVE  din'[g].size \in 0 .. MAX_FILE_SIZE - 1 /\ (dirty'[g] \/ din'[g].size = dinode'[g].size)
    <3>1. din'[g].size = din[g].size
      BY <1>1, <2>2 DEF TypeOK
    <3>2. CASE g = f
      BY <1>1, <2>2, <3>1, <3>2 DEF BoundsOK, TypeOK
    <3>3. CASE g # f
      <4>1. dirty'[g] = dirty[g] /\ dinode'[g] = dinode[g]
        BY <2>2, <3>3, <1>1 DEF TypeOK
      <4> QED
        BY <1>1, <3>1, <4>1 DEF BoundsOK
    <3> QED
      BY <3>2, <3>3
  <2> QED
    BY <1>3, <2>1, <2>2
<1>6. BoundsOK'
  BY <1>2, <1>4, <1>5 DEF BoundsOK
<1> QED
  BY <1>1, <1>6, IdleG DEF GInv

\* It holds from the empty disk on, whatever is called.
LEMMA StartG == Init => GInv
<1> SUFFICES ASSUME Init PROVE GInv
  OBVIOUS
<1>1. 0 \in 0 .. MAX_FILE_SIZE - 1
  BY Largest
<1>2. BoundsOK
  BY <1>1 DEF Init, BoundsOK, EmptyInode
<1> QED
  BY <1>2 DEF Init, GInv, IoOK, TruncateOK, Idle

\* GInv is kept by every step.
LEMMA NextG == IInv /\ GInv /\ [Next]_vars => GInv'
<1> SUFFICES ASSUME IInv, GInv, [Next]_vars PROVE GInv'
  OBVIOUS
<1>1. CASE UNCHANGED vars
  BY <1>1, StillG DEF vars, fsvars
<1>2. CASE Go
  <2>1. CASE IoHead \/ IoBody \/ IoTail
    BY <2>1, TransferG
  <2>2. CASE IoOut
    BY <2>2, IoOutG
  <2>3. CASE TruncateGrow \/ TruncateShrink \/ TruncateResize
    BY <2>3, TruncateGrowG, TruncateShrinkG, TruncateResizeG
  <2>4. CASE OpenReturns \/ SeekReturns
    BY <2>4, ReturnsG
  <2> QED
    BY <1>2, <2>1, <2>2, <2>3, <2>4 DEF Go
<1>3. ASSUME NEW h \in Handle, NEW f \in File, Open(h, f) \/ OpenAppend(h, f) \/ OpenTruncate(h, f)
      PROVE  GInv'
  BY <1>3, OpenG
<1>4. ASSUME NEW h \in Handle, NEW len \in 1 .. IOBUF_SIZE, Read(h, len) \/ \E v \in Value : Write(h, len, v)
      PROVE  GInv'
  <2>1. len \in Nat \ {0}
    BY SizesAssumption
  <2> QED
    BY <1>4, <2>1, StartIoG DEF Read, Write
<1>5. ASSUME NEW h \in Handle, (\E g \in Handle : Dup(h, g)) \/ (\E to \in SeekTo : Seek(h, to)) PROVE GInv'
  BY <1>5, DupSeekG
<1>6. ASSUME NEW h \in Handle, Close(h) \/ Fsync(h) PROVE GInv'
  BY <1>6, StoredG
<1> QED
  BY <1>1, <1>2, <1>3, <1>4, <1>5, <1>6 DEF Next

-----------------------------------------------------------------------------
(***************************************************************************)
(* The assertions, while nothing has happened that the code does not       *)
(* provide for                                                             *)
(***************************************************************************)
\* The places below the number of blocks have one, and no others.
FilledOK == \A f \in File, i \in Index : i < din[f].blocks <=> BlockAt(f, i) # NoBlock

\* An inode that is not marked is the one on the disk.
Settled(f) == dirty[f] \/ din[f] = dinode[f]

\* A file has the blocks of n bytes.
Fits(f, n) == din[f].blocks = RoundUpDiv(n, BLKSIZE)

\* A file that no call works on is in order.
AtRestOK == \A f \in File : InCall(f) \/ (Fits(f, din[f].size) /\ Settled(f))

\* While sfs_io_nolock works on a file, it has the blocks of its size and of what has
\* been written: the size moves at the end.
Larger(a, b) == IF a > b THEN a ELSE b
Furthest == Larger(Reached, din[call.f].size)
IoFits ==
  /\ call.op = "read" => Fits(call.f, din[call.f].size) /\ Settled(call.f)
  /\ call.op = "write" =>
       /\ call.off <= din[call.f].size
       /\ Fits(call.f, Furthest)
       /\ Settled(call.f) \/ Reached > din[call.f].size

\* sfs_truncfile knows the number of blocks all the time, makes a file longer for
\* lseek only, and does not fail when it empties one.
TruncateFits ==
  call.op = "truncate" =>
    /\ call.nblks = din[call.f].blocks
    /\ call.at \in {"loop", "done", "failed"}
    /\ call.why \in {"open", "seek"}
    /\ call.why = "open" => call.len = 0 /\ call.at # "failed"
    /\ call.why = "seek" /\ call.at = "loop" => call.nblks <= call.tblks
    /\ call.at = "done" => din[call.f].size = call.len /\ call.nblks = call.tblks /\ dirty[call.f]

\* What is left to fail is the check of the index, when all entries of a file are used.
FullFile == \E f \in File : din[f].blocks = NDIRECT + NENTRY
PanicOK == panic = "none" \/ (panic = "index out of range" /\ FullFile)

InOrder == FilledOK /\ AtRestOK /\ IoFits /\ TruncateFits /\ PanicOK
JInv == mishap = {} => InOrder

\* More bytes need no fewer blocks, and no bytes none.
LEMMA RoundUpGrows ==
  /\ RoundUpDiv(0, BLKSIZE) = 0
  /\ \A a, b \in Nat : a <= b => RoundUpDiv(a, BLKSIZE) <= RoundUpDiv(b, BLKSIZE)
<1>1. BLKSIZE \in Nat /\ BLKSIZE > 0
  BY Numbers
<1>2. RoundUpDiv(0, BLKSIZE) = 0
  <2>1. BLKSIZE * 0 = 0
    BY <1>1
  <2> QED
    BY <1>1, <2>1, RoundUpIs
<1>3. ASSUME NEW a \in Nat, NEW b \in Nat, a <= b PROVE RoundUpDiv(a, BLKSIZE) <= RoundUpDiv(b, BLKSIZE)
  <2> DEFINE r == RoundUpDiv(a, BLKSIZE)
             s == RoundUpDiv(b, BLKSIZE)
  <2>1. r \in Nat /\ s \in Nat /\ BLKSIZE * r < a + BLKSIZE /\ b <= BLKSIZE * s
    BY RoundUp
  <2> HIDE DEF r, s
  <2>2. s < r => BLKSIZE * s + BLKSIZE <= BLKSIZE * r
    BY <2>1, Multiples
  <2>3. BLKSIZE * s \in Int /\ BLKSIZE * r \in Int
    BY <1>1, <2>1
  <2>4. ~(s < r)
    BY <1>1, <1>3, <2>1, <2>2, <2>3
  <2>5. r <= s
    BY <2>1, <2>4
  <2> QED
    BY <2>5 DEF r, s
<1> QED
  BY <1>2, <1>3

\* A file with the blocks of its size and of what has been written has the block that
\* comes next, or it is the next one to be made.
LEMMA FitsMore ==
  ASSUME NEW size \in Nat, NEW reached \in Nat, NEW blkno \in Nat, NEW n \in Nat \ {0}, NEW r,
         r = RoundUpDiv(Larger(reached, size), BLKSIZE),
         BLKSIZE * blkno <= reached, reached + n <= BLKSIZE * blkno + BLKSIZE
  PROVE  /\ r \in Nat /\ blkno <= r
         /\ blkno < r => r = RoundUpDiv(Larger(reached + n, size), BLKSIZE)
         /\ blkno = r => r + 1 = RoundUpDiv(Larger(reached + n, size), BLKSIZE) /\ reached + n > size
         /\ reached < size => blkno < r
<1> DEFINE F == Larger(reached, size)
           G == Larger(reached + n, size)
           p == BLKSIZE * blkno
           q == BLKSIZE * r
<1>1. /\ F \in Nat /\ G \in Nat /\ F >= reached /\ F >= size /\ G >= reached + n /\ G >= size /\ G >= F
      /\ (G = reached + n \/ G = F)
  BY DEF Larger
<1> HIDE DEF F, G
<1>2. r \in Nat /\ F <= q /\ q < F + BLKSIZE /\ r = RoundUpDiv(F, BLKSIZE)
  BY <1>1, RoundUp DEF F
<1>3. BLKSIZE \in Nat /\ BLKSIZE > 0 /\ p \in Int /\ q \in Int
  BY <1>2, Numbers, Multiples
<1>4. /\ r < blkno => q + BLKSIZE <= p
      /\ blkno < r => p + BLKSIZE <= q
      /\ BLKSIZE * (r + 1) = q + BLKSIZE
      /\ blkno = r => p = q
  <2>1. r < blkno => q + BLKSIZE <= p
    BY <1>2, Multiples
  <2>2. blkno < r => p + BLKSIZE <= q
    BY <1>2, Multiples
  <2>3. BLKSIZE * (r + 1) = q + BLKSIZE
    BY <1>2, Multiples
  <2> QED
    BY <2>1, <2>2, <2>3
<1> HIDE DEF p, q
<1>5. p <= reached /\ reached + n <= p + BLKSIZE
  BY DEF p
<1>6. ~(r < blkno)
  BY <1>1, <1>2, <1>3, <1>4, <1>5
<1>7. blkno < r => r = RoundUpDiv(G, BLKSIZE)
  <2>1. blkno < r => G <= q /\ q < G + BLKSIZE
    BY <1>1, <1>2, <1>3, <1>4, <1>5
  <2> QED
    BY <1>1, <1>2, <2>1, RoundUpIs DEF q
<1>8. blkno = r => r + 1 = RoundUpDiv(G, BLKSIZE) /\ reached + n > size
  <2>1. blkno = r => G <= BLKSIZE * (r + 1) /\ BLKSIZE * (r + 1) < G + BLKSIZE /\ reached + n > size
    BY <1>1, <1>2, <1>3, <1>4, <1>5
  <2>2. r + 1 \in Int
    BY <1>2
  <2> QED
    BY <1>1, <2>1, <2>2, RoundUpIs
<1>9. reached < size => blkno # r
  BY <1>1, <1>2, <1>3, <1>4, <1>5
<1> QED
  BY <1>2, <1>6, <1>7, <1>8, <1>9 DEF G

\* The only assertion of sfs_bmap_load_nolock that is left is the one on the index.
LEMMA PanicIs ==
  ASSUME IInv, FilledOK, NEW f \in File, NEW index \in Nat, index <= din[f].blocks,
         BmapLoadPanics(f, index) # "none"
  PROVE  BmapLoadPanics(f, index) = "index out of range" /\ din[f].blocks = NDIRECT + NENTRY
<1> DEFINE m == BmapLoad(f, index)
<1>1. din[f].blocks \in 0 .. NDIRECT + NENTRY /\ NDIRECT \in Nat /\ NENTRY \in Nat
  BY Numbers DEF IInv, TypeOK, Inode
<1>2. ASSUME index \in Index PROVE FALSE
  <2>1. m.ok /\ ~(m.ino \in m.took \/ Inuse(m.ino))
    BY <1>1, <1>2 DEF BmapLoadPanics
  <2>2. WasThere(f, index, m)
    BY <1>2, <2>1, LoadWays DEF Short, Made
  <2>3. m.ino = BlockAt(f, index) /\ (m.ino # NoBlock \/ index # din[f].blocks)
    BY <2>2 DEF WasThere
  <2> HIDE DEF m
  <2>4. BlockAt(f, index) # NoBlock
    BY <1>1, <1>2, <2>3 DEF FilledOK
  <2> QED
    BY <1>2, <2>1, <2>3, <2>4 DEF IInv, OwnOK, Inuse
<1>3. index = din[f].blocks /\ din[f].blocks = NDIRECT + NENTRY
  BY <1>1, <1>2 DEF Index
<1> QED
  BY <1>1, <1>2, <1>3 DEF BmapLoadPanics

\* What a load and a transfer leave of the order: the file has one block more when its
\* next one was asked for, and is as it was otherwise.
LoadKept(f, index, m) ==
  /\ FilledOK'
  /\ \A g \in File \ {f} : din'[g] = din[g] /\ (Settled(g) => Settled(g)')
  /\ din'[f].size = din[f].size
  /\ Short(f, index, m) \/ index < din[f].blocks => din'[f] = din[f] /\ (Settled(f) => Settled(f)')
  /\ Short(f, index, m) \/ index < din[f].blocks \/ (index = din[f].blocks /\ din'[f].blocks = index + 1)

\* sfs_bmap_load_nolock is such a load, whatever the caller then writes to the block.
LEMMA LoadKeeps ==
  ASSUME IInv, FilledOK, NEW f \in File, NEW index \in Index, NEW m, Loads(f, index, m),
         Short(f, index, m) \/ ((WasThere(f, index, m) \/ Made(f, index, m)) /\ m.ino \in Block),
         NEW data \in [Block -> [Cell -> Content]], \A b \in Block : b # m.ino => data[b] = m.disk[b],
         Adopt(f, m, data)
  PROVE  LoadKept(f, index, m)
<1>1. /\ freemap' = freemap \ m.took /\ disk' = data /\ din' = [din EXCEPT ![f] = m.inode] /\ Marked(f, m.dirty)
  BY DEF Adopt
<1>2. /\ din \in [File -> Inode] /\ dirty \in [File -> BOOLEAN] /\ dinode \in [File -> Inode] /\ NoBlock \notin Block
      /\ freemap \subseteq Block
      /\ m.dirty \in BOOLEAN
  BY Numbers DEF IInv, TypeOK, Loads
<1>3. /\ din'[f] = m.inode /\ \A g \in File \ {f} : din'[g] = din[g]
  BY <1>1, <1>2
<1>4. /\ dirty' = [dirty EXCEPT ![f] = m.dirty]
      /\ dinode' = IF m.dirty THEN [dinode EXCEPT ![f] = EmptyInode] ELSE dinode
  BY <1>1 DEF Marked
<1>5. \A g \in File \ {f} : Settled(g) => Settled(g)'
  BY <1>2, <1>3, <1>4 DEF Settled
<1>6. IF m.took = {} THEN EntriesKept ELSE \E table \in Ino : EntryMade(f, index, m.ino, table)
  BY <1>1, AdoptPlaces
<1>7. index \in Int /\ \A g \in File : din[g].blocks \in Int
  BY <1>2, Numbers DEF Inode
<1>8. index < din[f].blocks <=> BlockAt(f, index) # NoBlock
  BY DEF FilledOK
<1>9. CASE Short(f, index, m) \/ index < din[f].blocks
  <2>1. m.took = {} /\ m.inode = din[f] /\ m.dirty = dirty[f]
    BY <1>7, <1>8, <1>9 DEF Short, WasThere, Made
  <2>2. din' = din
    BY <1>1, <1>2, <2>1
  <2>3. FilledOK'
    BY <1>6, <2>1, <2>2 DEF FilledOK, EntriesKept
  <2>4. Settled(f) => Settled(f)'
    BY <1>2, <1>4, <2>1, <2>2 DEF Settled
  <2> QED
    BY <1>3, <1>5, <1>9, <2>2, <2>3, <2>4 DEF LoadKept
<1>10. CASE ~(Short(f, index, m) \/ index < din[f].blocks)
  <2>1. Made(f, index, m)
    BY <1>2, <1>8, <1>10 DEF WasThere
  <2>2. index = din[f].blocks /\ din'[f].blocks = index + 1 /\ din'[f].size = din[f].size /\ m.took # {}
    BY <1>3, <2>1 DEF Made
  <2>3. PICK table \in Ino : EntryMade(f, index, m.ino, table)
    BY <1>6, <2>2
  <2>4. /\ m.ino # NoBlock
        /\ \A g \in File, i \in Index : BlockAt(g, i)' = IF g = f /\ i = index THEN m.ino ELSE BlockAt(g, i)
    BY <1>2, <2>3 DEF EntryMade
  <2>5. ASSUME NEW g \in File, NEW i \in Index PROVE i < din'[g].blocks <=> BlockAt(g, i)' # NoBlock
    <3>1. i \in Int /\ (i < din[g].blocks <=> BlockAt(g, i) # NoBlock)
      BY Numbers DEF FilledOK
    <3>2. CASE g = f
      BY <1>7, <2>2, <2>4, <3>1, <3>2
    <3>3. CASE g # f
      BY <1>3, <2>4, <3>1, <3>3
    <3> QED
      BY <3>2, <3>3
  <2>6. FilledOK'
    BY <2>5 DEF FilledOK, Index
  <2> QED
    BY <1>3, <1>5, <1>10, <2>2, <2>6 DEF LoadKept
<1> QED
  BY <1>9, <1>10

\* A write leaves a disk, with other blocks as they were.
Writes(m, n, c, data) ==
  /\ data \in [Block -> [Cell -> Content]] /\ \A b \in Block : b # m.ino => data[b] = m.disk[b]
  /\ \A i \in Cell : data[m.ino][i] = IF c <= i /\ i < c + n THEN call.v ELSE m.disk[m.ino][i]

\* Written is such a write.
LEMMA WrittenIs ==
  ASSUME NEW m, NEW n, NEW c, m.disk \in [Block -> [Cell -> Content]], call.v \in Value, m.ino \in Block
  PROVE  Writes(m, n, c, Written(m, n, c))
<1> DEFINE new == [i \in Cell |-> IF c <= i /\ i < c + n THEN call.v ELSE m.disk[m.ino][i]]
<1>1. new \in [Cell -> Content]
  BY DEF Content
<1>2. Written(m, n, c) = [m.disk EXCEPT ![m.ino] = new]
  BY DEF Written
<1>3. \A i \in Cell : new[i] = IF c <= i /\ i < c + n THEN call.v ELSE m.disk[m.ino][i]
  OBVIOUS
<1> HIDE DEF new
<1>4. /\ Written(m, n, c) \in [Block -> [Cell -> Content]]
      /\ \A b \in Block : b # m.ino => Written(m, n, c)[b] = m.disk[b]
      /\ Written(m, n, c)[m.ino] = new
  BY <1>1, <1>2
<1> QED
  BY <1>3, <1>4 DEF Writes

\* A read or a write that takes a step on the disk.
LEMMA TransferJ ==
  ASSUME IInv, GInv, InOrder, IoHead \/ IoBody \/ IoTail
  PROVE  InOrder'
<1>0. PICK f, index, m, why, r, size :
        /\ f = call.f /\ index = call.blkno /\ m = BmapLoad(call.f, call.blkno)
        /\ why = BmapLoadPanics(call.f, call.blkno) /\ r = din[call.f].blocks /\ size = din[call.f].size
  OBVIOUS
<1>1. /\ call.op \in {"read", "write"} /\ call.at # "out" /\ ExtentOK /\ NextBlockOK /\ IoNumbers /\ TypeOK
      /\ panic = "none"
      /\ \E n, c, next : Piece(n, c, next) /\ Transfer(n, c, next)
  BY Pieces, IoCounts DEF GInv, IInv, IoHead, IoBody, IoTail, InIo, Running
<1>2. PICK n, c, next : Piece(n, c, next) /\ Transfer(n, c, next)
  BY <1>1
<1>3. /\ n \in Nat \ {0} /\ f \in File /\ call.v \in Value /\ BLKSIZE \in Nat
  BY <1>0, <1>1, <1>2, Calls, Numbers DEF Piece, IInv
<1>4. /\ size \in Nat /\ r \in Int /\ Reached \in Nat /\ index \in Nat /\ call.off \in Nat /\ call.alen \in Nat
      /\ Reached = call.off + call.alen
      /\ BLKSIZE * index <= Reached /\ Reached + n <= BLKSIZE * index + BLKSIZE
      /\ Reached + n <= call.end
  <2>1. size \in 0 .. MAX_FILE_SIZE - 1 /\ r \in 0 .. NDIRECT + NENTRY
    BY <1>0, <1>1, <1>3 DEF GInv, BoundsOK, TypeOK, Inode
  <2>2. BLKSIZE * index \in Nat /\ Reached = BLKSIZE * index + c /\ c \in Nat /\ c + n <= BLKSIZE /\ Reached \in Nat /\ Reached + n <= call.end
    BY <1>0, <1>1, <1>2 DEF Piece, IoNumbers
  <2> QED
    BY <1>0, <1>1, <1>3, <2>1, <2>2, Largest, Numbers DEF IoNumbers, Reached
<1>5. ASSUME call.op = "write"
      PROVE  /\ index <= r
             /\ index < r => r = RoundUpDiv(Larger(Reached + n, size), BLKSIZE)
             /\ index = r => r + 1 = RoundUpDiv(Larger(Reached + n, size), BLKSIZE) /\ Reached + n > size
  <2>1. r = RoundUpDiv(Larger(Reached, size), BLKSIZE)
    BY <1>0, <1>5 DEF InOrder, IoFits, Fits, Furthest
  <2> QED
    BY <1>0, <1>3, <1>4, <2>1, FitsMore
<1>6. ASSUME call.op = "read" PROVE index < r
  <2>1. r = RoundUpDiv(size, BLKSIZE)
    BY <1>0, <1>6 DEF InOrder, IoFits, Fits
  <2>2. Reached < size
    <3>1. call.end <= size /\ call.end \in Nat
      BY <1>0, <1>1, <1>6 DEF ExtentOK
    <3> QED
      BY <1>0, <1>3, <1>4, <3>1
  <2>3. Larger(Reached, size) = size
    BY <1>0, <1>4, <2>2 DEF Larger
  <2> QED
    BY <1>0, <1>3, <1>4, <2>1, <2>2, <2>3, FitsMore, SMTT(60)
<1>7. index <= r
  <2> QED
    BY <1>0, <1>1, <1>4, <1>5, <1>6
<1>8. CASE why # "none"
  <2>1. why = "index out of range" /\ r = NDIRECT + NENTRY
    BY <1>0, <1>3, <1>4, <1>7, <1>8, PanicIs DEF InOrder
  <2>2. Panics(why)
    BY <1>0, <1>1, <1>2, <1>3, <1>8, Transfers
  <2>3. UNCHANGED <<disk, din, dinode, dirty, call>> /\ panic' = "index out of range"
    BY <2>1, <2>2 DEF Panics, fsvars
  <2>4. FilledOK' /\ AtRestOK' /\ IoFits' /\ TruncateFits'
    BY <1>0, <2>3 DEF InOrder, FilledOK, AtRestOK, IoFits, TruncateFits, Settled, Fits, InCall, Furthest, Reached, BlockAt
  <2>5. PanicOK'
    BY <1>0, <1>3, <2>1, <2>3 DEF PanicOK, FullFile
  <2> QED
    BY <1>0, <2>4, <2>5 DEF InOrder
<1>9. CASE why = "none"
  <2>1. /\ index \in Index /\ Loads(f, index, m)
        /\ UNCHANGED <<node, pos, panic, mishap>> /\ SameCall
        /\ Stopped(m) \/ Moved(m, n, c, next)
    BY <1>0, <1>1, <1>2, <1>3, <1>9, Transfers
  <2>2. m.disk \in [Block -> [Cell -> Content]]
    BY <1>0, <2>1 DEF Loads
  <2>3. PICK data \in [Block -> [Cell -> Content]] :
          (\A b \in Block : b # m.ino => data[b] = m.disk[b]) /\ Adopt(f, m, data)
    <3>1. CASE Adopt(f, m, m.disk)
      BY <2>2, <3>1
    <3>2. CASE m.ino \in Block /\ Adopt(f, m, Written(m, n, c))
      <4>1. Writes(m, n, c, Written(m, n, c))
        BY <1>3, <2>2, <3>2, WrittenIs
      <4> QED
        BY <3>2, <4>1 DEF Writes
    <3> QED
      BY <1>0, <2>1, <3>1, <3>2 DEF Stopped, Moved
  <2>4. LoadKept(f, index, m)
    BY <1>0, <1>3, <2>1, <2>3, LoadKeeps DEF InOrder, Stopped, Moved
  <2>5. FilledOK' /\ din'[f].size = size /\ \A g \in File \ {f} : din'[g] = din[g] /\ (Settled(g) => Settled(g)')
    BY <1>0, <2>4 DEF LoadKept
  <2>6. AtRestOK'
    BY <1>0, <1>1, <2>1, <2>5 DEF SameCall, AtRestOK, InCall, Fits, InOrder
  <2>7. PanicOK' /\ TruncateFits'
    BY <1>0, <1>1, <2>1 DEF PanicOK, TruncateFits, SameCall
  <2>8. IoFits'
    <3>1. call'.op = call.op /\ call'.f = f /\ call'.off = call.off /\ Reached' = call.off + call'.alen
      BY <1>0, <2>1 DEF SameCall, Reached
    <3>2. CASE Short(f, index, m)
      <4>1. din'[f] = din[f] /\ (Settled(f) => Settled(f)')
        BY <2>4, <3>2 DEF LoadKept
      <4>2. Reached' = Reached
        BY <1>0, <2>1, <3>1, <3>2 DEF Stopped, Moved, Short, WasThere, Made, Reached
      <4> QED
        BY <1>0, <3>1, <4>1, <4>2 DEF InOrder, IoFits, Fits, Furthest, Settled
    <3>3. CASE ~Short(f, index, m)
      <4>1. Reached' = Reached + n
        BY <1>0, <1>3, <1>4, <2>1, <3>1, <3>3 DEF Stopped, Moved
      <4>2. Furthest' = Larger(Reached + n, size)
        BY <1>0, <2>5, <3>1, <4>1 DEF Furthest, Larger
      <4>3. CASE index < r
        <5>1. din'[f] = din[f] /\ (Settled(f) => Settled(f)')
          BY <1>0, <2>4, <4>3 DEF LoadKept
        <5>2. call.op = "read" => r = RoundUpDiv(size, BLKSIZE) /\ Settled(f)
          BY <1>0 DEF InOrder, IoFits, Fits
        <5>3. call.op = "write" => call.off <= size /\ (Settled(f) \/ Reached > size)
          BY <1>0 DEF InOrder, IoFits
        <5>4. call.op = "write" => r = RoundUpDiv(Larger(Reached + n, size), BLKSIZE)
          BY <1>5, <4>3
        <5>5. Reached > size => Reached + n > size
          BY <1>3, <1>4
        <5>6. din'[f].blocks = r /\ din'[f].size = size
          BY <1>0, <5>1
        <5> QED
          BY <1>0, <3>1, <4>1, <4>2, <5>1, <5>2, <5>3, <5>4, <5>5, <5>6 DEF IoFits, Fits
      <4>4. CASE ~(index < r)
        <5>1. index = r /\ din'[f].blocks = r + 1
          BY <1>0, <2>4, <3>3, <4>4 DEF LoadKept
        <5>2. call.op = "write"
          BY <1>1, <1>6, <4>4
        <5>3. r + 1 = RoundUpDiv(Larger(Reached + n, size), BLKSIZE) /\ Reached + n > size
          BY <1>5, <5>1, <5>2
        <5>4. call.off <= size
          BY <1>0, <5>2 DEF InOrder, IoFits
        <5> QED
          BY <1>0, <2>5, <3>1, <4>1, <4>2, <5>1, <5>2, <5>3, <5>4 DEF IoFits, Fits
      <4> QED
        BY <4>3, <4>4
    <3> QED
      BY <3>2, <3>3
  <2> QED
    BY <1>0, <2>5, <2>6, <2>7, <2>8 DEF InOrder
<1> QED
  BY <1>0, <1>8, <1>9

\* A truncation that adds a block.
LEMMA TruncateGrowJ == ASSUME IInv, GInv, InOrder, TruncateGrow PROVE InOrder'
<1>1. PICK f, index, m, why :
        /\ f = call.f /\ index = call.nblks /\ m = BmapLoad(call.f, call.nblks)
        /\ why = BmapLoadPanics(call.f, call.nblks)
  OBVIOUS
<1>2. /\ call.op = "truncate" /\ call.at = "loop" /\ f \in File /\ index = din[f].blocks /\ index \in Nat
      /\ index < call.tblks /\ call.tblks = Tblks(call.len) /\ panic = "none"
      /\ call.len \in Nat /\ call.tblks \in Nat
  <2>1. /\ call.op = "truncate" /\ call.at = "loop" /\ f \in File /\ index = din[f].blocks
        /\ index < call.tblks /\ call.tblks = Tblks(call.len) /\ panic = "none"
        /\ call.len \in 0 .. MAX_FILE_SIZE - 1
    BY <1>1, Calls DEF TruncateGrow, Running, IInv, InOrder, TruncateFits, GInv, TruncateOK
  <2>2. din[f].blocks \in 0 .. NDIRECT + NENTRY /\ call.len \in Nat
    BY <2>1, Largest DEF IInv, TypeOK, Inode
  <2>3. Tblks(call.len) \in Nat
    BY <2>2, RoundUp DEF Tblks
  <2> QED
    BY <2>1, <2>2, <2>3
<1>3. call.why = "seek" /\ TruncateFits /\ FilledOK
  <2>1. call.why \in {"open", "seek"} /\ (call.why = "open" => call.len = 0)
    BY <1>2 DEF InOrder, TruncateFits
  <2>2. call.len = 0 => call.tblks = 0
    BY <1>2, RoundUpGrows DEF Tblks
  <2> QED
    BY <1>2, <2>1, <2>2 DEF InOrder
<1>4. CASE why # "none"
  <2>0. index <= din[f].blocks /\ BmapLoadPanics(f, index) # "none" /\ why = BmapLoadPanics(f, index)
    BY <1>1, <1>2, <1>4
  <2>1. why = "index out of range" /\ din[f].blocks = NDIRECT + NENTRY
    BY <1>2, <1>3, <2>0, PanicIs
  <2>2. Panics(why)
    BY <1>1, <1>4, Grows
  <2>3. UNCHANGED <<disk, din, dinode, dirty, call>> /\ panic' = "index out of range"
    BY <2>1, <2>2 DEF Panics, fsvars
  <2>4. FilledOK' /\ AtRestOK' /\ IoFits' /\ TruncateFits'
    BY <2>3 DEF InOrder, FilledOK, AtRestOK, IoFits, TruncateFits, Settled, Fits, InCall, Furthest, Reached, BlockAt
  <2>5. PanicOK'
    BY <1>2, <2>1, <2>3 DEF PanicOK, FullFile
  <2> QED
    BY <2>4, <2>5 DEF InOrder
<1>5. CASE why = "none"
  <2>1. /\ index \in Index /\ Loads(f, index, m)
        /\ UNCHANGED <<node, pos, panic, mishap>> /\ SameTruncate /\ Adopt(f, m, m.disk)
        /\ \/ Short(f, index, m) /\ call'.nblks = index /\ call'.at = "failed"
           \/ /\ WasThere(f, index, m) \/ Made(f, index, m)
              /\ m.ino \in Block /\ call'.nblks = index + 1 /\ call'.at = "loop"
    BY <1>1, <1>2, <1>5, Grows
  <2>2. m.disk \in [Block -> [Cell -> Content]]
    BY <2>1 DEF Loads
  <2>3. LoadKept(f, index, m)
    BY <1>2, <1>3, <2>1, <2>2, LoadKeeps
  <2>4. FilledOK' /\ \A g \in File \ {f} : din'[g] = din[g] /\ (Settled(g) => Settled(g)')
    BY <2>3 DEF LoadKept
  <2>5. AtRestOK'
    BY <1>1, <1>2, <2>1, <2>4 DEF SameTruncate, AtRestOK, InCall, Fits, InOrder
  <2>6. PanicOK' /\ IoFits'
    BY <1>2, <2>1 DEF PanicOK, IoFits, SameTruncate
  <2>7. TruncateFits'
    <3>1. call'.op = call.op /\ call'.f = f /\ call'.why = "seek" /\ call'.tblks = call.tblks
      BY <1>1, <1>3, <2>1 DEF SameTruncate
    <3>2. CASE Short(f, index, m)
      <4>1. call'.nblks = index /\ call'.at = "failed" /\ din'[f] = din[f]
        BY <2>1, <2>3, <3>2 DEF LoadKept, Short, WasThere, Made
      <4> QED
        BY <1>2, <3>1, <4>1 DEF TruncateFits
    <3>3. CASE ~Short(f, index, m)
      <4>1. call'.nblks = index + 1 /\ call'.at = "loop" /\ din'[f].blocks = index + 1
        BY <1>2, <2>1, <2>3, <3>3 DEF LoadKept
      <4>2. index + 1 <= call.tblks
        BY <1>2
      <4> QED
        BY <1>2, <3>1, <4>1, <4>2 DEF TruncateFits
    <3> QED
      BY <3>2, <3>3
  <2> QED
    BY <2>4, <2>5, <2>6, <2>7 DEF InOrder
<1> QED
  BY <1>4, <1>5

\* The inode that is worked on is marked, and those of other files stay in order.
LEMMA OthersStay ==
  ASSUME TypeOK, AtRestOK, NEW f \in File, f = call.f, call.op # "idle",
         NEW mark, Marked(f, mark), \A g \in File \ {f} : din'[g] = din[g]
  PROVE  \A g \in File \ {f} : Fits(g, din[g].size)' /\ Settled(g)'
<1>1. /\ dirty' = [dirty EXCEPT ![f] = mark]
      /\ dinode' = IF mark THEN [dinode EXCEPT ![f] = EmptyInode] ELSE dinode
      /\ dirty \in [File -> BOOLEAN] /\ dinode \in [File -> Inode]
  BY DEF Marked, TypeOK
<1>2. \A g \in File \ {f} : dirty'[g] = dirty[g] /\ dinode'[g] = dinode[g]
  BY <1>1
<1> QED
  BY <1>2 DEF AtRestOK, InCall, Fits, Settled

\* A truncation that frees a block.
LEMMA TruncateShrinkJ == ASSUME IInv, GInv, InOrder, TruncateShrink PROVE InOrder'
<1>1. PICK f, index : f = call.f /\ index = din[call.f].blocks - 1
  OBVIOUS
<1>2. /\ call.op = "truncate" /\ call.at = "loop" /\ f \in File /\ call.nblks = din[f].blocks
      /\ DOMAIN call = TruncateFields /\ TypeOK /\ OwnOK /\ FilledOK /\ AtRestOK
      /\ call.nblks > call.tblks /\ call.tblks = Tblks(call.len) /\ panic = "none"
      /\ call.len \in 0 .. MAX_FILE_SIZE - 1
    BY <1>1, Calls DEF TruncateShrink, Running, IInv, InOrder, TruncateFits, GInv, TruncateOK
<1>3. /\ din[f].blocks \in 0 .. NDIRECT + NENTRY /\ call.tblks \in Nat /\ din[f].blocks > 0 /\ index \in Nat
      /\ NDIRECT \in Nat /\ NENTRY \in Nat
  <2>1. din[f].blocks \in 0 .. NDIRECT + NENTRY /\ call.len \in Nat
    BY <1>2, Largest DEF TypeOK, Inode
  <2>2. Tblks(call.len) \in Nat
    BY <2>1, RoundUp DEF Tblks
  <2> QED
    BY <1>1, <1>2, <2>1, <2>2, Numbers
<1>4. ShrinkRuns
  <2>1. index \in Index
    BY <1>1, <1>3 DEF Index
  <2>2. BlockAt(f, index) \in (Block \ freemap) \union {NoBlock}
    BY <1>2, <2>1 DEF OwnOK
  <2>3. din[f].blocks # 0
    BY <1>3
  <2> QED
    BY <1>1, <1>2, <2>2, <2>3 DEF TruncateShrink, ShrinkRuns
<1>5. /\ index \in Index /\ din'[f].blocks = index
      /\ \A g \in File : g # f => din'[g] = din[g]
      /\ \A g \in File, i \in Index : BlockAt(g, i)' = IF g = f /\ i = index THEN NoBlock ELSE BlockAt(g, i)
      /\ Marked(f, TRUE) /\ call' = [call EXCEPT !.nblks = @ - 1] /\ UNCHANGED <<node, pos, panic, mishap>>
  BY <1>1, <1>4, ShrinkPlaces
<1>6. SameTruncate /\ call'.nblks = index /\ call'.at = "loop"
  BY <1>1, <1>2, <1>5 DEF SameTruncate, TruncateFields
<1>7. FilledOK'
  <2> SUFFICES ASSUME NEW g \in File, NEW i \in Index PROVE i < din'[g].blocks <=> BlockAt(g, i)' # NoBlock
    BY DEF FilledOK, Index
  <2>1. i < din[g].blocks <=> BlockAt(g, i) # NoBlock
    BY <1>2 DEF FilledOK
  <2>2. i \in Int
    BY Numbers
  <2>3. CASE g = f
    <3>1. i < index <=> (i < din[f].blocks /\ i # index)
      BY <1>1, <1>3, <2>2
    <3> QED
      BY <1>5, <2>1, <2>3, <3>1
  <2>4. CASE g # f
    BY <1>5, <2>1, <2>4
  <2> QED
    BY <2>3, <2>4
<1>8. \A g \in File \ {f} : Fits(g, din[g].size)' /\ Settled(g)'
  BY <1>1, <1>2, <1>5, OthersStay
<1>9. AtRestOK'
  BY <1>1, <1>2, <1>6, <1>8 DEF AtRestOK, InCall, SameTruncate
<1>10. IoFits' /\ PanicOK'
  BY <1>2, <1>5, <1>6 DEF IoFits, PanicOK, SameTruncate
<1>11. TruncateFits'
  <2>1. call.why = "open" /\ call.len = 0
    BY <1>2, <1>3 DEF InOrder, TruncateFits
  <2> QED
    BY <1>1, <1>2, <1>5, <1>6, <2>1 DEF TruncateFits, SameTruncate
<1> QED
  BY <1>7, <1>9, <1>10, <1>11 DEF InOrder

\* A truncation that sets the size.
LEMMA TruncateResizeJ == ASSUME IInv, GInv, InOrder, TruncateResize PROVE InOrder'
<1>1. PICK f : f = call.f
  OBVIOUS
<1>2. /\ call.op = "truncate" /\ call.at = "loop" /\ f \in File /\ call.nblks = din[f].blocks
      /\ DOMAIN call = TruncateFields /\ TypeOK /\ FilledOK /\ AtRestOK /\ TruncateFits
      /\ call.nblks = call.tblks /\ panic = "none" /\ call.len \in Int
    BY <1>1, Calls DEF TruncateResize, Running, IInv, InOrder, TruncateFits, GInv, TruncateOK
<1>3. /\ din' = [din EXCEPT ![f].size = call.len] /\ Marked(f, TRUE) /\ call' = [call EXCEPT !.at = "done"]
      /\ UNCHANGED <<freemap, unused_blocks, disk, node, pos, panic, mishap>>
  BY <1>1, <1>2 DEF TruncateResize
<1>4. /\ din'[f].size = call.len /\ din'[f].blocks = din[f].blocks /\ \A g \in File : g # f => din'[g] = din[g]
      /\ \A g \in File : din'[g].direct = din[g].direct /\ din'[g].indirect = din[g].indirect
  <2> DEFINE new == [din[f] EXCEPT !.size = call.len]
  <2>1. /\ new.size = call.len /\ new.blocks = din[f].blocks
        /\ new.direct = din[f].direct /\ new.indirect = din[f].indirect
    BY <1>2 DEF TypeOK, Inode
  <2>2. din' = [din EXCEPT ![f] = new] /\ din \in [File -> Inode]
    BY <1>2, <1>3 DEF TypeOK
  <2> HIDE DEF new
  <2> QED
    BY <1>2, <2>1, <2>2
<1>5. SameTruncate /\ call'.nblks = call.nblks /\ call'.at = "done"
  BY <1>2, <1>3 DEF SameTruncate, TruncateFields
<1>6. FilledOK'
  <2>1. \A g \in File, i \in Index : BlockAt(g, i)' = BlockAt(g, i)
    BY <1>2, <1>3, <1>4, EntriesSame
  <2>2. \A g \in File : din'[g].blocks = din[g].blocks
    BY <1>4
  <2> QED
    BY <1>2, <2>1, <2>2 DEF FilledOK
<1>7. \A g \in File \ {f} : Fits(g, din[g].size)' /\ Settled(g)'
  BY <1>1, <1>2, <1>3, <1>4, OthersStay
<1>8. AtRestOK'
  BY <1>1, <1>2, <1>5, <1>7 DEF AtRestOK, InCall, SameTruncate
<1>9. IoFits' /\ PanicOK'
  BY <1>2, <1>3, <1>5 DEF IoFits, PanicOK, SameTruncate
<1>10. dirty'[f] = TRUE
  BY <1>2, <1>3 DEF Marked, TypeOK
<1>11. TruncateFits'
  BY <1>1, <1>2, <1>4, <1>5, <1>10 DEF TruncateFits, SameTruncate
<1> QED
  BY <1>6, <1>8, <1>9, <1>11 DEF InOrder


\* The files stay in order while a call on one of them begins or nothing happens to them.
LEMMA FilesJ ==
  ASSUME FilledOK, AtRestOK, UNCHANGED <<disk, din, dinode, dirty>>, \A g \in File : InCall(g) => InCall(g)'
  PROVE  FilledOK' /\ AtRestOK'
<1>1. \A g \in File, i \in Index : BlockAt(g, i)' = BlockAt(g, i)
  BY DEF BlockAt
<1>2. FilledOK'
  BY <1>1 DEF FilledOK
<1> QED
  BY <1>2 DEF AtRestOK, Fits, Settled

\* No call is in progress, before and after.
LEMMA IdleJ ==
  ASSUME FilledOK, AtRestOK, PanicOK, UNCHANGED <<disk, din, dinode, dirty, panic>>, call.op = "idle", call' = Idle
  PROVE  InOrder'
<1>1. FilledOK' /\ AtRestOK'
  BY FilesJ DEF InCall
<1>2. PanicOK' /\ IoFits' /\ TruncateFits'
  BY DEF PanicOK, FullFile, IoFits, TruncateFits, Idle
<1> QED
  BY <1>1, <1>2 DEF InOrder

\* Reading or writing begins, not beyond the size.
LEMMA StartIoJ ==
  ASSUME IInv, GInv, InOrder, mishap' = {},
         NEW op \in {"read", "write"}, NEW h \in Handle, NEW len, NEW v, StartIo(op, h, len, v)
  PROVE  InOrder'
<1>1. PICK f : f = node[h]
  OBVIOUS
<1>2. /\ f \in File /\ call.op = "idle" /\ panic = "none" /\ UNCHANGED <<disk, din, dinode, dirty, panic>>
      /\ FilledOK /\ AtRestOK /\ BoundsOK
  BY <1>1 DEF StartIo, Ready, Running, fsvars, IInv, TypeOK, InOrder, GInv
<1>3. /\ call'.op = op /\ call'.f = f /\ call'.off = pos[h] /\ call'.alen = 0
  BY <1>1 DEF StartIo
<1>4. op = "write" => ~(pos[h] > din[f].size)
  <2>1. op = "write" /\ pos[h] > din[f].size => mishap' = mishap \union {"stray write"}
    BY <1>1 DEF StartIo
  <2> QED
    BY <2>1
<1>5. pos[h] \in Int /\ din[f].size \in Int
  BY <1>2 DEF BoundsOK
<1>6. FilledOK' /\ AtRestOK'
  BY <1>2, FilesJ DEF InCall
<1>7. Fits(f, din[f].size) /\ Settled(f)
  BY <1>2 DEF AtRestOK, InCall
<1>8. op = "write" => Furthest' = din[f].size /\ pos[h] <= din[f].size
  <2>1. Reached' = pos[h]
    BY <1>3, <1>5 DEF Reached
  <2> QED
    BY <1>2, <1>3, <1>4, <1>5, <2>1 DEF Furthest, Larger
<1>9. IoFits'
  BY <1>2, <1>3, <1>7, <1>8 DEF IoFits, Fits, Settled
<1>10. PanicOK' /\ TruncateFits'
  BY <1>2, <1>3 DEF PanicOK, TruncateFits
<1> QED
  BY <1>6, <1>9, <1>10 DEF InOrder

\* The size moves to the end of what was written, and not when something was read.
LEMMA IoOutJ == ASSUME IInv, GInv, InOrder, IoOut PROVE InOrder'
<1>1. PICK f, grows : f = call.f /\ grows = (call.end > call.off /\ Reached > din[call.f].size)
  OBVIOUS
<1>2. /\ call.op \in {"read", "write"} /\ f \in File /\ ExtentOK /\ TypeOK /\ BoundsOK
      /\ FilledOK /\ AtRestOK /\ IoFits /\ panic = "none"
  BY <1>1, Calls DEF IoOut, InIo, Running, IInv, GInv, IoOK, InOrder
<1>3. /\ din' = IF grows THEN [din EXCEPT ![f].size = Reached] ELSE din
      /\ Marked(f, dirty[f] \/ grows) /\ call' = Idle /\ UNCHANGED <<disk, panic>>
  BY <1>1 DEF IoOut, Reached
<1>4. /\ Reached \in Int /\ Reached = call.off + call.alen /\ call.off \in Int /\ call.end \in Int /\ call.alen \in Nat
      /\ din[f].size \in Int
  BY <1>2 DEF ExtentOK, Reached, BoundsOK
<1>5. grows \in BOOLEAN
  BY <1>1
<1>6. CASE ~grows
  <2>1. din' = din
    BY <1>3, <1>6
  <2>2. dirty' = [dirty EXCEPT ![f] = dirty[f] \/ grows]
        /\ dinode' = IF dirty[f] \/ grows THEN [dinode EXCEPT ![f] = EmptyInode] ELSE dinode
    BY <1>3 DEF Marked
  <2>3. dirty \in [File -> BOOLEAN] /\ dinode \in [File -> Inode]
    BY <1>2 DEF TypeOK
  <2>4. \A g \in File : (dirty'[g] <=> dirty[g]) /\ (dirty[g] \/ dinode'[g] = dinode[g])
    BY <1>2, <1>6, <2>2, <2>3
  <2>5. \A g \in File : Settled(g) => Settled(g)'
    BY <2>1, <2>4 DEF Settled
  <2>6. Fits(f, din[f].size) /\ Settled(f)
    <3>1. CASE call.op = "read"
      BY <1>1, <1>2, <3>1 DEF IoFits
    <3>2. CASE call.op = "write"
      <4>1. call.off < call.end
        BY <1>2, <3>2 DEF ExtentOK
      <4>2. ~(Reached > din[f].size)
        BY <1>1, <1>4, <1>6, <4>1
      <4>3. Furthest = din[f].size
        BY <1>1, <1>4, <4>2 DEF Furthest, Larger
      <4> QED
        BY <1>1, <1>2, <3>2, <4>2, <4>3 DEF IoFits
    <3> QED
      BY <1>2, <3>1, <3>2
  <2>7. \A g \in File : Fits(g, din[g].size) /\ Settled(g)
    BY <1>1, <1>2, <2>6 DEF AtRestOK, InCall
  <2>8. AtRestOK'
    BY <2>1, <2>5, <2>7 DEF AtRestOK, Fits
  <2>9. FilledOK'
    BY <1>2, <1>3, <2>1 DEF FilledOK, BlockAt
  <2> QED
    BY <1>2, <1>3, <2>8, <2>9 DEF InOrder, IoFits, TruncateFits, PanicOK, Idle
<1>7. CASE grows
  <2>1. call.end > call.off /\ Reached > din[f].size /\ call.op = "write"
    <3>1. call.end > call.off /\ Reached > din[f].size
      BY <1>1, <1>7
    <3>2. call.op = "read" => call.end <= din[f].size /\ (Reached <= call.end \/ call.alen = 0)
      BY <1>1, <1>2 DEF ExtentOK
    <3> QED
      BY <1>2, <1>4, <3>1, <3>2
  <2>2. /\ din'[f].size = Reached /\ din'[f].blocks = din[f].blocks /\ \A g \in File : g # f => din'[g] = din[g]
        /\ \A g \in File : din'[g].direct = din[g].direct /\ din'[g].indirect = din[g].indirect
    <3> DEFINE new == [din[f] EXCEPT !.size = Reached]
    <3>1. /\ new.size = Reached /\ new.blocks = din[f].blocks
          /\ new.direct = din[f].direct /\ new.indirect = din[f].indirect
      BY <1>2 DEF TypeOK, Inode
    <3>2. din' = [din EXCEPT ![f] = new] /\ din \in [File -> Inode]
      BY <1>2, <1>3, <1>7 DEF TypeOK
    <3> HIDE DEF new
    <3> QED
      BY <1>2, <3>1, <3>2
  <2>3. Marked(f, TRUE)
    <3>1. (dirty[f] \/ grows) = TRUE
      BY <1>2, <1>7 DEF TypeOK
    <3> QED
      BY <1>3, <3>1
  <2>4. \A g \in File \ {f} : Fits(g, din[g].size)' /\ Settled(g)'
    BY <1>1, <1>2, <2>2, <2>3, OthersStay
  <2>5. dirty'[f] = TRUE
    BY <1>2, <2>3 DEF Marked, TypeOK
  <2>6. Fits(f, Reached)
    BY <1>1, <1>2, <2>1 DEF IoFits, Furthest, Larger
  <2>7. AtRestOK'
    BY <2>2, <2>4, <2>5, <2>6 DEF AtRestOK, Fits, Settled
  <2>8. FilledOK'
    <3>1. \A g \in File, i \in Index : BlockAt(g, i)' = BlockAt(g, i)
      BY <1>2, <1>3, <2>2, EntriesSame
    <3>2. \A g \in File : din'[g].blocks = din[g].blocks
      BY <2>2
    <3> QED
      BY <1>2, <3>1, <3>2 DEF FilledOK
  <2> QED
    BY <1>2, <1>3, <2>7, <2>8 DEF InOrder, IoFits, TruncateFits, PanicOK, Idle
<1> QED
  BY <1>6, <1>7

\* A truncation begins: the file has the blocks of its size.
LEMMA TruncateBeginsJ ==
  ASSUME FilledOK, AtRestOK, PanicOK, UNCHANGED <<disk, din, dinode, dirty, panic>>, call.op = "idle",
         NEW h, NEW f \in File, NEW len \in Nat, NEW why, din[f].size \in Nat,
         call' = TruncateCall(h, f, len, why),
         \/ why = "open" /\ len = 0
         \/ why = "seek" /\ len > din[f].size
  PROVE  InOrder'
<1>1. /\ call'.op = "truncate" /\ call'.f = f /\ call'.len = len /\ call'.why = why
      /\ call'.nblks = din[f].blocks /\ call'.tblks = Tblks(len) /\ call'.at = "loop"
  BY DEF TruncateCall
<1>2. FilledOK' /\ AtRestOK'
  BY FilesJ DEF InCall
<1>3. din[f].blocks = RoundUpDiv(din[f].size, BLKSIZE)
  BY DEF AtRestOK, InCall, Fits
<1>4. why = "seek" => din[f].blocks <= Tblks(len)
  <2>1. why = "seek" => din[f].size <= len
    OBVIOUS
  <2> QED
    BY <1>3, <2>1, RoundUpGrows DEF Tblks
<1>5. TruncateFits'
  BY <1>1, <1>4 DEF TruncateFits
<1>6. PanicOK' /\ IoFits'
  BY <1>1 DEF PanicOK, FullFile, IoFits
<1> QED
  BY <1>2, <1>5, <1>6 DEF InOrder

\* Opening a file: the file of size 0 has no blocks.
LEMMA OpenJ ==
  ASSUME IInv, GInv, InOrder, NEW h \in Handle, NEW f \in File, Open(h, f) \/ OpenAppend(h, f) \/ OpenTruncate(h, f)
  PROVE  InOrder'
<1>1. /\ call = Idle /\ call.op = "idle" /\ FilledOK /\ AtRestOK /\ PanicOK
      /\ din[f].size \in Nat
  <2>1. MAX_FILE_SIZE \in Nat
    BY Largest
  <2>2. din[f].size \in Nat
    BY <2>1 DEF GInv, BoundsOK
  <2> QED
    BY <2>2, Calls DEF Open, OpenAppend, OpenTruncate, Running, IInv, InOrder
<1>2. CASE Open(h, f) \/ OpenAppend(h, f)
  BY <1>1, <1>2, IdleJ DEF Open, OpenAppend, fsvars
<1>3. CASE OpenTruncate(h, f)
  <2>1. din[f].blocks = RoundUpDiv(din[f].size, BLKSIZE)
    BY <1>1 DEF AtRestOK, InCall, Fits
  <2>2. SameSize(f, 0) => BlocksFit(f, 0)
    BY <2>1 DEF SameSize, BlocksFit, Tblks
  <2>3. /\ UNCHANGED <<disk, din, dinode, dirty, panic>>
        /\ call' = Idle \/ call' = TruncateCall(h, f, 0, "open")
    BY <1>3, <2>2 DEF OpenTruncate, fsvars
  <2> QED
    BY <1>1, <2>3, IdleJ, TruncateBeginsJ
<1> QED
  BY <1>2, <1>3

\* The ends of the two calls that truncate: the blocks are those of the new size.
LEMMA ReturnsJ == ASSUME IInv, GInv, InOrder, mishap' = {}, OpenReturns \/ SeekReturns PROVE InOrder'
<1>1. PICK f : f = call.f
  OBVIOUS
<1>2. /\ call.op = "truncate" /\ f \in File /\ panic = "none" /\ FilledOK /\ AtRestOK
      /\ UNCHANGED <<disk, din, dinode, dirty, panic>> /\ call' = Idle
      /\ call.tblks = Tblks(call.len)
  BY <1>1, Calls DEF OpenReturns, SeekReturns, Running, IInv, InOrder, GInv, TruncateOK, fsvars
<1>3. call.at = "done"
  <2>1. SeekReturns /\ call.at # "done" => mishap' = mishap \union {"failed seek"}
    BY DEF SeekReturns
  <2> QED
    BY <2>1 DEF OpenReturns
<1>4. din[f].size = call.len /\ din[f].blocks = call.tblks /\ dirty[f]
  BY <1>1, <1>2, <1>3 DEF InOrder, TruncateFits
<1>5. \A g \in File : Fits(g, din[g].size) /\ Settled(g)
  BY <1>1, <1>2, <1>4 DEF AtRestOK, InCall, Fits, Settled, Tblks
<1>6. AtRestOK'
  BY <1>2, <1>5 DEF AtRestOK, Fits, Settled
<1>7. FilledOK'
  BY <1>2 DEF FilledOK, BlockAt
<1> QED
  BY <1>2, <1>6, <1>7 DEF InOrder, IoFits, TruncateFits, PanicOK, Idle

\* A position is copied, or set, or a truncation to it begins.
LEMMA DupSeekJ ==
  ASSUME IInv, GInv, InOrder, NEW h \in Handle,
         (\E g \in Handle : Dup(h, g)) \/ (\E to \in SeekTo : Seek(h, to))
  PROVE  InOrder'
<1>1. /\ call = Idle /\ call.op = "idle" /\ FilledOK /\ AtRestOK /\ PanicOK /\ node[h] \in File
      /\ UNCHANGED <<disk, din, dinode, dirty, panic>>
  BY Calls DEF Dup, Seek, Ready, Running, IInv, TypeOK, InOrder, fsvars
<1>2. ASSUME NEW g \in Handle, Dup(h, g) PROVE InOrder'
  BY <1>1, <1>2, IdleJ DEF Dup
<1>3. ASSUME NEW to \in SeekTo, Seek(h, to) PROVE InOrder'
  <2>1. PICK f : f = node[h]
    OBVIOUS
  <2>2. to \in Nat /\ din[f].size \in Nat
    <3>1. MAX_FILE_SIZE \in Nat
      BY Largest
    <3> QED
      BY <1>1, <2>1, <3>1, ValueAssumption DEF GInv, BoundsOK
  <2>3. (to > din[f].size /\ call' = TruncateCall(h, f, to, "seek")) \/ call' = call
    BY <1>3, <2>1 DEF Seek
  <2> QED
    BY <1>1, <2>1, <2>2, <2>3, IdleJ, TruncateBeginsJ
<1> QED
  BY <1>2, <1>3

\* What is stored on the disk is the inode, marked or not.
LEMMA StoredJ ==
  ASSUME IInv, GInv, InOrder, NEW h \in Handle, Close(h) \/ Fsync(h)
  PROVE  InOrder'
<1>1. PICK f : f = node[h]
  OBVIOUS
<1>2. /\ call = Idle /\ call.op = "idle" /\ TypeOK /\ f \in File /\ FilledOK /\ AtRestOK /\ PanicOK
      /\ call' = call /\ UNCHANGED <<disk, panic>>
  BY <1>1, Calls DEF Close, Fsync, Ready, Running, IInv, TypeOK, InOrder
<1>3. \A g \in File : Fits(g, din[g].size) /\ Settled(g)
  BY <1>2 DEF AtRestOK, InCall
<1>4. /\ din' = din
      /\ \/ UNCHANGED <<dinode, dirty>>
         \/ dinode' = [dinode EXCEPT ![f] = din[f]] /\ dirty' = [dirty EXCEPT ![f] = FALSE]
  <2>1. CASE Fsync(h)
    BY <1>1, <2>1 DEF Fsync
  <2>2. CASE Close(h)
    <3>1. (IF dirty[f] THEN din[f] ELSE dinode[f]) = din[f]
      BY <1>2, <1>3 DEF Settled
    <3>2. \/ UNCHANGED <<dinode, din, dirty>>
          \/ /\ dinode' = [dinode EXCEPT ![f] = din[f]] /\ din' = [din EXCEPT ![f] = din[f]]
             /\ dirty' = [dirty EXCEPT ![f] = FALSE]
      BY <1>1, <2>2, <3>1 DEF Close, Release
    <3>3. [din EXCEPT ![f] = din[f]] = din
      BY <1>2 DEF TypeOK
    <3> QED
      BY <3>2, <3>3
  <2> QED
    BY <2>1, <2>2
<1>5. \A g \in File : Settled(g)'
  <2> SUFFICES ASSUME NEW g \in File PROVE Settled(g)'
    OBVIOUS
  <2>1. CASE g = f
    BY <1>2, <1>3, <1>4, <2>1 DEF Settled, TypeOK
  <2>2. CASE g # f
    BY <1>2, <1>3, <1>4, <2>2 DEF Settled, TypeOK
  <2> QED
    BY <2>1, <2>2
<1>6. AtRestOK'
  BY <1>3, <1>4, <1>5 DEF AtRestOK, Fits
<1>7. FilledOK'
  BY <1>2, <1>4 DEF FilledOK, BlockAt
<1> QED
  BY <1>2, <1>4, <1>6, <1>7 DEF InOrder, IoFits, TruncateFits, PanicOK, FullFile, Idle

\* The empty disk is in order.
LEMMA StartJ == Init => JInv
<1> SUFFICES ASSUME Init PROVE InOrder
  BY DEF JInv
<1>1. \A f \in File, i \in Index : BlockAt(f, i) = NoBlock
  <2> SUFFICES ASSUME NEW f \in File, NEW i \in Index PROVE BlockAt(f, i) = NoBlock
    OBVIOUS
  <2>1. din[f] = EmptyInode
    BY DEF Init
  <2>2. CASE i < NDIRECT
    BY <2>1, <2>2, Numbers DEF BlockAt, EmptyInode
  <2>3. CASE ~(i < NDIRECT)
    BY <2>1, <2>3 DEF BlockAt, EmptyInode
  <2> QED
    BY <2>2, <2>3
<1>2. FilledOK
  BY <1>1, Numbers DEF FilledOK, Init, EmptyInode, Index
<1>3. AtRestOK
  BY RoundUpGrows DEF AtRestOK, Init, EmptyInode, Fits, Settled
<1> QED
  BY <1>2, <1>3 DEF InOrder, Init, IoFits, TruncateFits, PanicOK, Idle

\* Every step that the code provides for keeps the order.
LEMMA NextJ == IInv /\ GInv /\ JInv /\ [Next]_vars => JInv'
<1> SUFFICES ASSUME IInv, GInv, JInv, [Next]_vars, mishap' = {} PROVE InOrder'
  BY DEF JInv
<1>1. mishap = {}
  <2>1. CASE UNCHANGED vars
    BY <2>1 DEF vars
  <2>2. CASE Go
    <3>1. CASE IoHead \/ IoBody \/ IoTail
      BY <3>1 DEF IoHead, IoBody, IoTail, Transfer, Panics
    <3>2. CASE ~(IoHead \/ IoBody \/ IoTail)
      BY <2>2, <3>2 DEF Go, IoOut, TruncateGrow, TruncateShrink, TruncateResize, OpenReturns, SeekReturns, Panics
    <3> QED
      BY <3>1, <3>2
  <2>3. ASSUME NEW h \in Handle, NEW f \in File, Open(h, f) \/ OpenAppend(h, f) \/ OpenTruncate(h, f)
        PROVE  mishap = {}
    BY <2>3 DEF Open, OpenAppend, OpenTruncate, Panics
  <2>4. ASSUME NEW op, NEW h, NEW len, NEW v, StartIo(op, h, len, v)
        PROVE  mishap = {}
    BY <2>4 DEF StartIo
  <2>5. ASSUME NEW h \in Handle,
               (\E g \in Handle : Dup(h, g)) \/ (\E to \in SeekTo : Seek(h, to)) \/ Close(h) \/ Fsync(h)
        PROVE  mishap = {}
    BY <2>5 DEF Dup, Seek, Close, Fsync
  <2> QED
    BY <2>1, <2>2, <2>3, <2>4, <2>5 DEF Next, Read, Write
<1>2. InOrder
  BY <1>1 DEF JInv
<1>3. CASE UNCHANGED vars
  BY <1>2, <1>3 DEF vars, fsvars, InOrder, FilledOK, AtRestOK, IoFits, TruncateFits, PanicOK, FullFile,
                    BlockAt, Settled, Fits, InCall, Furthest, Reached
<1>4. CASE Go
  <2>1. CASE IoHead \/ IoBody \/ IoTail
    BY <1>2, <2>1, TransferJ
  <2>2. CASE IoOut
    BY <1>2, <2>2, IoOutJ
  <2>3. CASE TruncateGrow \/ TruncateShrink \/ TruncateResize
    BY <1>2, <2>3, TruncateGrowJ, TruncateShrinkJ, TruncateResizeJ
  <2>4. CASE OpenReturns \/ SeekReturns
    BY <1>2, <2>4, ReturnsJ
  <2> QED
    BY <1>4, <2>1, <2>2, <2>3, <2>4 DEF Go
<1>5. ASSUME NEW h \in Handle, NEW f \in File, Open(h, f) \/ OpenAppend(h, f) \/ OpenTruncate(h, f)
      PROVE  InOrder'
  BY <1>2, <1>5, OpenJ
<1>6. ASSUME NEW h \in Handle, NEW len \in 1 .. IOBUF_SIZE, Read(h, len) \/ \E v \in Value : Write(h, len, v)
      PROVE  InOrder'
  BY <1>2, <1>6, StartIoJ DEF Read, Write
<1>7. ASSUME NEW h \in Handle, (\E g \in Handle : Dup(h, g)) \/ (\E to \in SeekTo : Seek(h, to)) PROVE InOrder'
  BY <1>2, <1>7, DupSeekJ
<1>8. ASSUME NEW h \in Handle, Close(h) \/ Fsync(h) PROVE InOrder'
  BY <1>2, <1>8, StoredJ
<1> QED
  BY <1>3, <1>4, <1>5, <1>6, <1>7, <1>8 DEF Next

\* The order, from the start on: sizes, positions, the progress of every call, and the
\* blocks of every file.
THEOREM InOrderAlways == Spec => [](GInv /\ JInv)
<1> QED
  BY Inductive, StartG, NextG, StartJ, NextJ, PTL DEF Spec

\* CleanInodeOnDisk: an inode that sfs_io_nolock, sfs_truncfile and sfs_bmap_load_nolock
\* have left unmarked is the one on the disk, between two calls, so that sfs_reclaim
\* loses nothing, as long as no seek has failed halfway.
THEOREM NothingLost == Spec => []CleanInodeOnDisk
<1>1. JInv => CleanInodeOnDisk
  BY DEF JInv, InOrder, AtRestOK, InCall, Settled, CleanInodeOnDisk, Idle
<1> QED
  BY <1>1, InOrderAlways, PTL

\* On a disk of any size, the only assertion of these paths that can fail, unless
\* something has happened that the code does not provide for, is the one of
\* sfs_bmap_get_nolock on an index beyond the entries, when a file has used all of them.
THEOREM OnlyTheIndex ==
  Spec => [](mishap = {} /\ panic # "none" => panic = "index out of range" /\ FullFile)
<1>1. JInv => (mishap = {} /\ panic # "none" => panic = "index out of range" /\ FullFile)
  BY DEF JInv, InOrder, PanicOK
<1> QED
  BY <1>1, InOrderAlways, PTL

\* The disk is too small for a file that uses all its entries and its indirect block.
\* The Makefile of lab8 makes one of 480 kB, and an inode has 12 + 1024 entries of
\* blocks of 4 kB.
SmallDisk == NENTRY # 0 /\ Cardinality(Block) <= NDIRECT + NENTRY

\* On such a disk no file is full.
LEMMA NoFullFile == ASSUME SmallDisk, IInv, FilledOK PROVE ~FullFile
<1> SUFFICES ASSUME NEW f \in File, din[f].blocks = NDIRECT + NENTRY PROVE FALSE
  BY DEF FullFile
<1> DEFINE s == NDIRECT + NENTRY
           S == 0 .. s
           place == [i \in S |-> IF i < s THEN BlockAt(f, i) ELSE din[f].indirect]
<1>1. /\ OwnOK /\ NoBlock \notin Block /\ IsFiniteSet(Block) /\ NDIRECT \in Nat /\ NENTRY \in Nat \ {0} /\ s \in Nat
      /\ Cardinality(Block) <= s
  BY Numbers DEF IInv, SmallDisk
<1>2. ASSUME NEW i \in S, i < s PROVE i \in Index /\ BlockAt(f, i) \in Block
  <2>1. i \in Index
    BY <1>1, <1>2 DEF Index
  <2> QED
    BY <1>1, <1>2, <2>1 DEF FilledOK, OwnOK
<1>3. din[f].indirect \in Block
  <2>1. s - 1 \in S /\ s - 1 < s /\ ~(s - 1 < NDIRECT)
    BY <1>1
  <2>2. BlockAt(f, s - 1) \in Block
    BY <1>2, <2>1
  <2>3. din[f].indirect # NoBlock
    BY <1>1, <2>1, <2>2 DEF BlockAt
  <2> QED
    BY <1>1, <2>3 DEF OwnOK
<1>4. \A i \in S : i < s => BlockAt(f, i) # din[f].indirect
  BY <1>1, <1>2, <1>3 DEF OwnOK
<1>5. place \in [S -> Block]
  BY <1>2, <1>3
<1>6. ASSUME NEW i \in S, NEW j \in S, place[i] = place[j] PROVE i = j
  <2>1. CASE i < s /\ j < s
    <3>1. BlockAt(f, i) = BlockAt(f, j) /\ BlockAt(f, i) # NoBlock
      BY <1>1, <1>2, <1>6, <2>1
    <3> QED
      BY <1>1, <1>2, <2>1, <3>1 DEF OwnOK
  <2>2. CASE i < s /\ ~(j < s)
    BY <1>4, <1>6, <2>2
  <2>3. CASE ~(i < s) /\ j < s
    BY <1>4, <1>6, <2>3
  <2>4. CASE ~(i < s) /\ ~(j < s)
    BY <1>1, <2>4
  <2> QED
    BY <2>1, <2>2, <2>3, <2>4
<1>7. IsFiniteSet(S) /\ Cardinality(S) = s + 1
  <2>1. 0 \in Int /\ s \in Int /\ ~(0 > s)
    BY <1>1
  <2>2. IsFiniteSet(S) /\ Cardinality(S) = IF 0 > s THEN 0 ELSE s - 0 + 1
    BY <2>1, FS_Interval
  <2> QED
    BY <1>1, <2>1, <2>2
<1>8. Cardinality(Block) < Cardinality(S)
  <2>1. Cardinality(Block) \in Nat
    BY <1>1, FS_CardinalityType
  <2> QED
    BY <1>1, <1>7, <2>1
<1> HIDE DEF S, place
<1>9. \E x, y \in S : x # y /\ place[x] = place[y]
  <2>1. ASSUME NEW A, NEW B, IsFiniteSet(A), IsFiniteSet(B), Cardinality(B) < Cardinality(A), NEW t \in [A -> B]
        PROVE  \E x, y \in A : x # y /\ t[x] = t[y]
    BY <2>1, FS_PigeonHole
  <2> QED
    BY <1>1, <1>5, <1>7, <1>8, <2>1
<1> QED
  BY <1>6, <1>9

\* AssertionsHold: sfs_bmap_load_nolock, sfs_block_inuse, sfs_truncfile and the rest
\* assert nothing false, and a file has the blocks of its size between two calls, unless
\* a write came from beyond the size or a seek failed halfway.
THEOREM NoAssertionFails == ASSUME SmallDisk PROVE Spec => []AssertionsHold
<1>1. IInv /\ JInv => AssertionsHold
  <2> SUFFICES ASSUME IInv, JInv, mishap = {} PROVE AssertionsHold
    BY DEF AssertionsHold
  <2>1. InOrder
    BY DEF JInv
  <2>2. panic = "none"
    BY <2>1, NoFullFile DEF InOrder, PanicOK
  <2>3. ASSUME call = Idle, NEW f \in File PROVE din[f].blocks = RoundUpDiv(din[f].size, BLKSIZE)
    BY <2>1, <2>3 DEF InOrder, AtRestOK, InCall, Fits, Idle
  <2> QED
    BY <2>1, <2>2, <2>3 DEF AssertionsHold, InOrder, FilledOK
<1> QED
  BY <1>1, Inductive, InOrderAlways, PTL

-----------------------------------------------------------------------------
(***************************************************************************)
(* What the files hold                                                     *)
(***************************************************************************)
\* What is in a cell of a place of a file.
CellAt(f, i, c) == IF BlockAt(f, i) = NoBlock THEN 0 ELSE disk[BlockAt(f, i)][c]

\* Every position is a cell of a place.
LEMMA Positions ==
  /\ \A p \in Position : /\ p \in Nat /\ p \div BLKSIZE \in Index /\ p % BLKSIZE \in Cell
                         /\ p = BLKSIZE * (p \div BLKSIZE) + (p % BLKSIZE)
  /\ \A i \in Index, c \in Cell : /\ BLKSIZE * i + c \in Position
                                  /\ (BLKSIZE * i + c) \div BLKSIZE = i /\ (BLKSIZE * i + c) % BLKSIZE = c
<1> DEFINE s == NDIRECT + NENTRY
<1>1. BLKSIZE \in Nat /\ BLKSIZE > 0 /\ s \in Nat
  BY Numbers
<1>2. s * BLKSIZE = BLKSIZE * s /\ BLKSIZE * s \in Int
  BY <1>1
<1>3. Position = 0 .. BLKSIZE * s - 1 /\ Index = 0 .. s - 1 /\ Cell = 0 .. BLKSIZE - 1
  <2>1. Position = 0 .. s * BLKSIZE - 1
    BY DEF Position
  <2>2. Index = 0 .. s - 1
    <3>1. NDIRECT + (NENTRY - 1) = s - 1
      BY Numbers
    <3> HIDE DEF s
    <3> QED
      BY <3>1 DEF Index
  <2>3. Cell = 0 .. BLKSIZE - 1
    BY DEF Cell
  <2> HIDE DEF s
  <2> QED
    BY <1>2, <2>1, <2>2, <2>3
<1> HIDE DEF s
<1>4. ASSUME NEW p \in Position
      PROVE  /\ p \in Nat /\ p \div BLKSIZE \in Index /\ p % BLKSIZE \in Cell
             /\ p = BLKSIZE * (p \div BLKSIZE) + (p % BLKSIZE)
  <2> DEFINE q == p \div BLKSIZE
             c == p % BLKSIZE
  <2>1. p \in Nat /\ p < BLKSIZE * s
    BY <1>2, <1>3
  <2>2. q \in Nat /\ c \in Cell /\ p = BLKSIZE * q + c
    BY <2>1, Division
  <2> HIDE DEF q, c
  <2>3. s <= q => BLKSIZE * s <= BLKSIZE * q
    <3>1. s < q => BLKSIZE * s + BLKSIZE <= BLKSIZE * q
      BY <1>1, <2>2, Multiples
    <3>2. BLKSIZE * q \in Int
      BY <1>1, <2>2
    <3> QED
      BY <1>1, <1>2, <2>2, <3>1, <3>2
  <2>4. c \in Nat /\ BLKSIZE * q \in Int
    BY <1>1, <1>3, <2>2
  <2>5. q < s
    BY <1>1, <1>2, <2>1, <2>2, <2>3, <2>4
  <2> QED
    BY <1>1, <1>3, <2>1, <2>2, <2>5 DEF q, c
<1>5. ASSUME NEW i \in Index, NEW c \in Cell
      PROVE  /\ BLKSIZE * i + c \in Position
             /\ (BLKSIZE * i + c) \div BLKSIZE = i /\ (BLKSIZE * i + c) % BLKSIZE = c
  <2>1. i \in Nat /\ i < s /\ c \in Nat /\ c < BLKSIZE /\ BLKSIZE * i \in Nat
    BY <1>1, <1>3
  <2>2. BLKSIZE * i + BLKSIZE <= BLKSIZE * s
    BY <1>1, <2>1, Multiples
  <2>3. BLKSIZE * i + c \in Position
    BY <1>1, <1>2, <1>3, <2>1, <2>2
  <2> DEFINE n == BLKSIZE * i + c
  <2>4. n \in Nat /\ BLKSIZE * i <= n /\ n < BLKSIZE * i + BLKSIZE
    BY <1>1, <2>1
  <2> HIDE DEF n
  <2>5. n \div BLKSIZE = i /\ n % BLKSIZE = n - BLKSIZE * i
    BY <2>1, <2>4, DivisionIs
  <2>6. n - BLKSIZE * i = c
    BY <2>1 DEF n
  <2> QED
    BY <2>3, <2>5, <2>6 DEF n
<1> QED
  BY <1>4, <1>5

\* A load leaves what was in the blocks in use.
LEMMA DataKept ==
  ASSUME IInv, NEW f \in File, NEW index \in Index, NEW m, Loads(f, index, m),
         NEW g \in File, NEW i \in Index, BlockAt(g, i) # NoBlock
  PROVE  m.disk[BlockAt(g, i)] = disk[BlockAt(g, i)]
<1> DEFINE b == BlockAt(g, i)
<1>1. /\ b \in Block \ freemap /\ b # din[f].indirect /\ disk \in [Block -> [Cell -> Content]] /\ freemap \subseteq Block
      /\ din[f].indirect \in Ino /\ (din[f].indirect # NoBlock => din[f].indirect \in Block)
  BY DEF IInv, OwnOK, TypeOK, Inode, Ino
<1> HIDE DEF b
<1>2. CASE Found(f, index, m)
  BY <1>1, <1>2 DEF Found, b
<1>3. CASE NewDirect(f, index, m)
  BY <1>1, <1>3 DEF NewDirect, b
<1>4. CASE NewEntry(f, index, m)
  <2> DEFINE e == [disk EXCEPT ![m.ino] = Zeroed]
             t == din[f].indirect
  <2>1. /\ m.ino \in freemap /\ t \in Block
        /\ m.disk = [disk EXCEPT ![m.ino] = Zeroed, ![t][index - NDIRECT] = m.ino]
    BY <1>1, <1>4 DEF NewEntry
  <2>2. m.disk[b] = disk[b]
    BY <1>1, <2>1
  <2> QED
    BY <2>2 DEF b
<1>5. CASE NewTable(f, index, m)
  BY <1>1, <1>5 DEF NewTable, b
<1> QED
  BY <1>2, <1>3, <1>4, <1>5 DEF Loads

\* What the cells of the files hold after a load, when `data` is the disk afterwards: a
\* new block is empty, as its place has been, and only the block that was loaded differs.
LEMMA CellsKept ==
  ASSUME IInv, NEW f \in File, NEW index \in Index, NEW m, Loads(f, index, m),
         Short(f, index, m) \/ ((WasThere(f, index, m) \/ Made(f, index, m)) /\ m.ino \in Block),
         NEW data \in [Block -> [Cell -> Content]], \A b \in Block : b # m.ino => data[b] = m.disk[b],
         Adopt(f, m, data)
  PROVE  \A g \in File, i \in Index, k \in Cell :
           CellAt(g, i, k)' = IF ~Short(f, index, m) /\ g = f /\ i = index THEN data[m.ino][k] ELSE CellAt(g, i, k)
<1> SUFFICES ASSUME NEW g \in File, NEW i \in Index, NEW k \in Cell
             PROVE  CellAt(g, i, k)' = IF ~Short(f, index, m) /\ g = f /\ i = index THEN data[m.ino][k] ELSE CellAt(g, i, k)
  OBVIOUS
<1>1. freemap' = freemap \ m.took /\ disk' = data /\ din' = [din EXCEPT ![f] = m.inode]
  BY DEF Adopt
<1>2. IF m.took = {} THEN EntriesKept ELSE \E table \in Ino : EntryMade(f, index, m.ino, table)
  BY <1>1, AdoptPlaces
<1>3. /\ OwnOK /\ NoBlock \notin Block /\ freemap \subseteq Block
      /\ BlockAt(g, i) # NoBlock => BlockAt(g, i) \in Block \ freemap
  BY Numbers DEF IInv, OwnOK, TypeOK
<1>4. BlockAt(g, i) # NoBlock => m.disk[BlockAt(g, i)] = disk[BlockAt(g, i)]
  BY DataKept
<1>5. CASE Short(f, index, m)
  <2>1. m.took = {} /\ BlockAt(f, index) = NoBlock /\ m.ok = FALSE
    BY <1>5 DEF Short
  <2>2. m.ino = NoBlock
    BY <2>1 DEF Loads, Found, NewDirect, NewEntry, NewTable
  <2>3. BlockAt(g, i)' = BlockAt(g, i)
    BY <1>2, <2>1 DEF EntriesKept
  <2> QED
    BY <1>1, <1>3, <1>4, <1>5, <2>2, <2>3 DEF CellAt
<1>6. CASE WasThere(f, index, m) /\ m.ino \in Block
  <2>1. m.took = {} /\ m.ino = BlockAt(f, index) /\ ~Short(f, index, m)
    BY <1>6 DEF WasThere, Short
  <2>2. BlockAt(g, i)' = BlockAt(g, i)
    BY <1>2, <2>1 DEF EntriesKept
  <2>3. CASE g = f /\ i = index
    BY <1>1, <1>3, <1>6, <2>1, <2>2, <2>3 DEF CellAt
  <2>4. CASE ~(g = f /\ i = index)
    <3>1. BlockAt(g, i) # NoBlock => BlockAt(g, i) # m.ino
      BY <1>3, <2>1, <2>4 DEF OwnOK
    <3> QED
      BY <1>1, <1>3, <1>4, <2>2, <2>4, <3>1 DEF CellAt
  <2> QED
    BY <2>3, <2>4
<1>7. CASE Made(f, index, m) /\ m.ino \in Block
  <2>1. m.took # {} /\ ~Short(f, index, m)
    BY <1>7 DEF Made, Short
  <2>2. PICK table \in Ino : EntryMade(f, index, m.ino, table)
    BY <1>2, <2>1
  <2>3. m.ino \in freemap /\ BlockAt(g, i)' = IF g = f /\ i = index THEN m.ino ELSE BlockAt(g, i)
    BY <2>2 DEF EntryMade
  <2>4. CASE g = f /\ i = index
    BY <1>1, <1>3, <1>7, <2>1, <2>3, <2>4 DEF CellAt
  <2>5. CASE ~(g = f /\ i = index)
    BY <1>1, <1>3, <1>4, <2>1, <2>3, <2>5 DEF CellAt
  <2> QED
    BY <2>4, <2>5
<1> QED
  BY <1>5, <1>6, <1>7

\* The block that was loaded holds what the file does.
LEMMA LoadedHolds ==
  ASSUME IInv, NEW f \in File, NEW index \in Index, NEW m, Loads(f, index, m),
         WasThere(f, index, m) \/ Made(f, index, m), m.ino \in Block, NEW k \in Cell
  PROVE  m.disk[m.ino][k] = CellAt(f, index, k)
<1>1. CASE WasThere(f, index, m)
  BY <1>1, Numbers DEF WasThere, CellAt
<1>2. CASE Made(f, index, m)
  BY <1>2 DEF Made, CellAt, Zeroed
<1> QED
  BY <1>1, <1>2

\* The bytes of the files are their cells.
LEMMA Bytes ==
  /\ \A f \in File, p \in Position : ByteAt(f, p) = CellAt(f, p \div BLKSIZE, p % BLKSIZE)
  /\ (\A f \in File, i \in Index, c \in Cell : CellAt(f, i, c)' = CellAt(f, i, c))
       => \A f \in File, p \in Position : ByteAt(f, p)' = ByteAt(f, p)
<1>1. \A f \in File, p \in Position : ByteAt(f, p) = CellAt(f, p \div BLKSIZE, p % BLKSIZE)
  BY DEF ByteAt, CellAt
<1>2. \A f \in File, p \in Position : ByteAt(f, p)' = CellAt(f, p \div BLKSIZE, p % BLKSIZE)'
  BY DEF ByteAt, CellAt
<1> QED
  BY <1>1, <1>2, Positions

\* No file changes its size, and none its bytes.
SizesSame == \A f \in File : din'[f].size = din[f].size
BytesSame == \A f \in File, p \in Position : ByteAt(f, p)' = ByteAt(f, p)

\* A transfer ends without a block.
Ends == BytesSame /\ call'.alen = call.alen /\ call'.got = call.got /\ call'.at = "out"

\* A transfer gets n bytes further: those that a read gets are the file's, and those
\* that a write passes are its value from now on.
Passed(n, p) == Reached <= p /\ p < Reached + n
Advances(n) ==
  /\ call'.alen = call.alen + n /\ Reached + n <= call.end
  /\ \A k \in 1 .. n : Reached + k - 1 \in Position
  /\ call.op = "read" =>
       /\ BytesSame
       /\ \E bytes \in [1 .. n -> Content] :
            call'.got = call.got \o bytes /\ \A k \in 1 .. n : bytes[k] = ByteAt(call.f, Reached + k - 1)
  /\ call.op = "write" =>
       /\ call'.got = call.got
       /\ \A f \in File, p \in Position :
            ByteAt(f, p)' = IF f = call.f /\ Passed(n, p) THEN call.v ELSE ByteAt(f, p)

\* Those are the ways a read or a write takes a step on the disk, unless it panics.
LEMMA TransferBytes ==
  ASSUME IInv, GInv, IoHead \/ IoBody \/ IoTail
  PROVE  \/ \E why : why # "none" /\ Panics(why)
         \/ /\ SizesSame /\ SameCall /\ UNCHANGED <<node, pos, panic, mishap>>
            /\ Ends \/ \E n \in Nat \ {0} : Advances(n)
<1>0. PICK f, index, m, why :
        /\ f = call.f /\ index = call.blkno /\ m = BmapLoad(call.f, call.blkno)
        /\ why = BmapLoadPanics(call.f, call.blkno)
  OBVIOUS
<1>1. /\ call.op \in {"read", "write"} /\ call.at # "out" /\ ExtentOK /\ NextBlockOK /\ IoNumbers /\ TypeOK
      /\ \E n, c, next : Piece(n, c, next) /\ Transfer(n, c, next)
  BY Pieces, IoCounts DEF GInv, IInv
<1>2. PICK n, c, next : Piece(n, c, next) /\ Transfer(n, c, next)
  BY <1>1
<1>3. /\ n \in Nat \ {0} /\ c \in Nat /\ c + n <= BLKSIZE /\ f \in File /\ call.v \in Value /\ BLKSIZE \in Nat
      /\ Reached = BLKSIZE * index + c /\ Reached + n <= call.end
  BY <1>0, <1>1, <1>2, Calls, Numbers DEF Piece, IInv
<1>4. CASE why # "none"
  BY <1>0, <1>1, <1>2, <1>3, <1>4, Transfers
<1>5. CASE why = "none"
  <2>1. /\ index \in Index /\ Loads(f, index, m)
        /\ UNCHANGED <<node, pos, panic, mishap>> /\ SameCall
        /\ Stopped(m) \/ Moved(m, n, c, next)
    BY <1>0, <1>1, <1>2, <1>3, <1>5, Transfers
  <2>2. m.disk \in [Block -> [Cell -> Content]]
    BY <2>1 DEF Loads
  <2>3. SizesSame
    <3>1. din \in [File -> Inode]
      BY <1>1 DEF TypeOK
    <3>2. din' = [din EXCEPT ![f] = m.inode]
      BY <1>0, <2>1 DEF Stopped, Moved, Adopt
    <3>3. Short(f, index, m) \/ WasThere(f, index, m) \/ Made(f, index, m)
      BY <1>0, <2>1 DEF Stopped, Moved
    <3>4. m.inode.size = din[f].size
      BY <1>3, <3>1, <3>3 DEF WasThere, Made, Short, Inode
    <3> QED
      BY <1>3, <3>1, <3>2, <3>4 DEF SizesSame
  <2>4. CASE Stopped(m)
    <3>1. Short(f, index, m) /\ Adopt(f, m, m.disk)
      BY <1>0, <2>4 DEF Stopped
    <3>2. \A g \in File, i \in Index, k \in Cell : CellAt(g, i, k)' = CellAt(g, i, k)
      BY <1>3, <2>1, <2>2, <3>1, CellsKept
    <3>3. BytesSame
      BY <3>2, Bytes DEF BytesSame
    <3>4. Ends
      BY <2>4, <3>3 DEF Stopped, Ends
    <3> QED
      BY <2>1, <2>3, <3>4
  <2>5. CASE Moved(m, n, c, next)
    <3>1. /\ WasThere(f, index, m) \/ Made(f, index, m)
          /\ m.ino \in Block
          /\ Adopt(f, m, IF call.op = "write" THEN Written(m, n, c) ELSE m.disk)
          /\ call'.alen = call.alen + n
          /\ call'.got = IF call.op = "read" THEN call.got \o [i \in 1 .. n |-> m.disk[m.ino][c + i - 1]] ELSE call.got
      BY <1>0, <2>5 DEF Moved
    <3>2. ~Short(f, index, m)
      BY <3>1 DEF Short, WasThere, Made
    <3>3. \A k \in Cell : m.disk[m.ino][k] = CellAt(f, index, k)
      BY <1>3, <2>1, <3>1, LoadedHolds
    <3>4. ASSUME NEW k \in 1 .. n
          PROVE  /\ c + k - 1 \in Cell /\ Reached + k - 1 \in Position
                 /\ ByteAt(f, Reached + k - 1) = CellAt(f, index, c + k - 1)
      <4>1. c + k - 1 \in Cell
        BY <1>3 DEF Cell
      <4>2. BLKSIZE * index \in Int
        BY <1>3, <2>1, Numbers
      <4> DEFINE p == BLKSIZE * index + (c + k - 1)
      <4>3. p = Reached + k - 1
        BY <1>3, <4>2
      <4>4. p \in Position /\ p \div BLKSIZE = index /\ p % BLKSIZE = c + k - 1
        BY <2>1, <4>1, Positions
      <4> HIDE DEF p
      <4> QED
        BY <1>3, <4>1, <4>3, <4>4, Bytes
    <3>5. CASE call.op = "read"
      <4>0. Adopt(f, m, m.disk)
        BY <3>1, <3>5
      <4>1. \A g \in File, i \in Index, k \in Cell : CellAt(g, i, k)' = CellAt(g, i, k)
        <5>1. \A g \in File, i \in Index, k \in Cell :
                CellAt(g, i, k)' = IF ~Short(f, index, m) /\ g = f /\ i = index THEN m.disk[m.ino][k] ELSE CellAt(g, i, k)
          BY <1>3, <2>1, <2>2, <3>1, <4>0, CellsKept
        <5> QED
          BY <3>3, <5>1
      <4>2. BytesSame
        BY <4>1, Bytes DEF BytesSame
      <4> DEFINE bytes == [k \in 1 .. n |-> m.disk[m.ino][c + k - 1]]
      <4>3. bytes \in [1 .. n -> Content] /\ \A k \in 1 .. n : bytes[k] = ByteAt(f, Reached + k - 1)
        BY <2>2, <3>1, <3>3, <3>4
      <4>4. call'.got = call.got \o bytes
        BY <3>1, <3>5
      <4> HIDE DEF bytes
      <4>5. Advances(n)
        BY <1>0, <1>3, <3>1, <3>4, <3>5, <4>2, <4>3, <4>4 DEF Advances
      <4> QED
        BY <1>3, <2>1, <2>3, <4>5
    <3>6. CASE call.op = "write"
      <4>1. PICK data : data = Written(m, n, c)
        OBVIOUS
      <4>2. /\ data \in [Block -> [Cell -> Content]] /\ \A b \in Block : b # m.ino => data[b] = m.disk[b]
            /\ \A i \in Cell : data[m.ino][i] = IF c <= i /\ i < c + n THEN call.v ELSE m.disk[m.ino][i]
        BY <1>3, <2>2, <3>1, <4>1, WrittenIs DEF Writes
      <4>3. \A g \in File, i \in Index, k \in Cell :
              CellAt(g, i, k)' = IF g = f /\ i = index THEN data[m.ino][k] ELSE CellAt(g, i, k)
        BY <1>3, <2>1, <3>1, <3>2, <3>6, <4>1, <4>2, CellsKept
      <4>4. ASSUME NEW g \in File, NEW p \in Position
            PROVE  ByteAt(g, p)' = IF g = f /\ Passed(n, p) THEN call.v ELSE ByteAt(g, p)
        <5>1. PICK i \in Index, k \in Cell : i = p \div BLKSIZE /\ k = p % BLKSIZE /\ p = BLKSIZE * i + k
          BY Positions
        <5>2. ByteAt(g, p)' = CellAt(g, i, k)' /\ ByteAt(g, p) = CellAt(g, i, k)
          BY <5>1 DEF ByteAt, CellAt
        <5>3. i = index => (Passed(n, p) <=> c <= k /\ k < c + n)
          <6>1. BLKSIZE * i \in Int /\ k \in Int
            BY <1>3, Numbers DEF Cell
          <6> QED
            BY <1>3, <5>1, <6>1 DEF Passed
        <5>4. Passed(n, p) => i = index
          <6> SUFFICES ASSUME Passed(n, p) PROVE i = index
            OBVIOUS
          <6>1. /\ BLKSIZE * i \in Int /\ BLKSIZE * index \in Int /\ k \in 0 .. BLKSIZE - 1 /\ i \in Int /\ index \in Int
            BY <1>3, <2>1, Numbers DEF Cell
          <6>2. /\ BLKSIZE * index <= BLKSIZE * i + k /\ BLKSIZE * i + k < BLKSIZE * index + BLKSIZE
            BY <1>3, <5>1, <6>1 DEF Passed
          <6>3. i < index => BLKSIZE * i + BLKSIZE <= BLKSIZE * index
            BY <6>1, Multiples
          <6>4. index < i => BLKSIZE * index + BLKSIZE <= BLKSIZE * i
            BY <6>1, Multiples
          <6> HIDE DEF Passed
          <6> QED
            BY <1>3, <6>1, <6>2, <6>3, <6>4
        <5>5. CellAt(g, i, k)' = IF g = f /\ i = index THEN data[m.ino][k] ELSE CellAt(g, i, k)
          BY <4>3
        <5>6. g = f /\ i = index => data[m.ino][k] = IF c <= k /\ k < c + n THEN call.v ELSE CellAt(g, i, k)
          BY <3>3, <4>2
        <5> QED
          BY <5>2, <5>3, <5>4, <5>5, <5>6
      <4>5. Advances(n)
        BY <1>0, <1>3, <3>1, <3>4, <3>6, <4>4 DEF Advances
      <4> QED
        BY <1>3, <2>1, <2>3, <4>5
    <3> QED
      BY <1>1, <3>5, <3>6
  <2> QED
    BY <2>1, <2>4, <2>5
<1> QED
  BY <1>4, <1>5

\* Two sequences of bytes, one after the other.
LEMMA Joined ==
  ASSUME NEW a \in Nat, NEW n \in Nat, NEW s \in [1 .. a -> Content], NEW t \in [1 .. n -> Content]
  PROVE  /\ s \o t \in [1 .. a + n -> Content]
         /\ \A k \in 1 .. a + n : (s \o t)[k] = IF k <= a THEN s[k] ELSE t[k - a]
<1>1. s \in Seq(Content) /\ t \in Seq(Content)
  BY SeqDef
<1>2. Len(s) = a /\ Len(t) = n
  BY <1>1, LenProperties
<1>3. s \o t \in Seq(Content) /\ Len(s \o t) = a + n
  BY <1>1, <1>2, ConcatProperties
<1>4. s \o t \in [1 .. a + n -> Content]
  BY <1>3, LenProperties
<1>5. \A k \in 1 .. Len(s) + Len(t) : (s \o t)[k] = IF k <= Len(s) THEN s[k] ELSE t[k - Len(s)]
  BY <1>1, ConcatProperties
<1> QED
  BY <1>2, <1>4, <1>5

\* What a read has got is what the file holds, and what a write has passed holds its value.
BytesOK ==
  /\ call.op = "read" =>
       /\ call.got \in [1 .. call.alen -> Content]
       /\ \A k \in 1 .. call.alen : call.off + k - 1 \in Position /\ call.got[k] = ByteAt(call.f, call.off + k - 1)
  /\ call.op = "write" =>
       \A k \in 1 .. call.alen : call.off + k - 1 \in Position /\ ByteAt(call.f, call.off + k - 1) = call.v

\* A panic changes nothing.
LEMMA PanicBytes == ASSUME BytesOK, NEW why, Panics(why) PROVE BytesOK'
<1>1. UNCHANGED <<disk, din, call>>
  BY DEF Panics, fsvars
<1> QED
  BY <1>1 DEF BytesOK, ByteAt, BlockAt

\* The bytes of a read and a write get further together with it.
LEMMA TransferOK ==
  ASSUME IInv, GInv, BytesOK, IoHead \/ IoBody \/ IoTail
  PROVE  BytesOK'
<1>1. /\ call.op \in {"read", "write"} /\ call.f \in File /\ ExtentOK
  BY Pieces, Calls DEF GInv, IInv
<1>2. /\ call.off \in Nat /\ call.alen \in Nat /\ Reached = call.off + call.alen
  <2>1. MAX_FILE_SIZE \in Nat
    BY Largest
  <2> QED
    BY <1>1, <2>1 DEF ExtentOK, Reached
<1>3. CASE \E why : Panics(why)
  BY <1>3, PanicBytes
<1>4. CASE SameCall /\ Ends
  <2>1. /\ call'.op = call.op /\ call'.f = call.f /\ call'.v = call.v /\ call'.off = call.off
        /\ call'.alen = call.alen /\ call'.got = call.got
    BY <1>4 DEF SameCall, Ends
  <2>2. PICK f : f = call.f
    OBVIOUS
  <2>3. \A p \in Position : ByteAt(f, p)' = ByteAt(f, p)
    BY <1>1, <1>4, <2>2 DEF Ends, BytesSame
  <2>4. \A p : ByteAt(call.f, p)' = ByteAt(f, p)'
    BY <2>1, <2>2 DEF ByteAt, BlockAt
  <2> QED
    BY <1>1, <2>1, <2>2, <2>3, <2>4 DEF BytesOK
<1>5. ASSUME SameCall, NEW n \in Nat \ {0}, Advances(n) PROVE BytesOK'
  <2>1. PICK f, a, off, v : f = call.f /\ a = call.alen /\ off = call.off /\ v = call.v
    OBVIOUS
  <2>2. /\ call'.op = call.op /\ call'.f = f /\ call'.v = v /\ call'.off = off /\ call'.alen = a + n
        /\ \A k \in 1 .. n : Reached + k - 1 \in Position
        /\ f \in File /\ a \in Nat /\ off \in Nat /\ Reached = off + a
    BY <1>1, <1>2, <1>5, <2>1 DEF SameCall, Advances
  <2>3. ASSUME NEW k \in 1 .. a + n, ~(k <= a)
        PROVE  k - a \in 1 .. n /\ Reached + (k - a) - 1 = off + k - 1 /\ off + k - 1 \in Position
               /\ Passed(n, off + k - 1)
    <3>1. k - a \in 1 .. n /\ Reached + (k - a) - 1 = off + k - 1 /\ Passed(n, off + k - 1)
      BY <2>2, <2>3 DEF Passed
    <3> QED
      BY <2>2, <3>1
  <2>4. CASE call.op = "read"
    <3>1. PICK bytes \in [1 .. n -> Content] :
            call'.got = call.got \o bytes /\ \A k \in 1 .. n : bytes[k] = ByteAt(f, Reached + k - 1)
      BY <1>5, <2>1, <2>4 DEF Advances
    <3>2. /\ call.got \in [1 .. a -> Content]
          /\ \A k \in 1 .. a : off + k - 1 \in Position /\ call.got[k] = ByteAt(f, off + k - 1)
      BY <2>1, <2>4 DEF BytesOK
    <3>3. /\ call'.got \in [1 .. a + n -> Content]
          /\ \A k \in 1 .. a + n : call'.got[k] = IF k <= a THEN call.got[k] ELSE bytes[k - a]
      <4>1. n \in Nat /\ a \in Nat
        BY <2>2
      <4>2. PICK s, t : s = call.got /\ t = bytes
        OBVIOUS
      <4>3. s \in [1 .. a -> Content] /\ t \in [1 .. n -> Content] /\ call'.got = s \o t
        BY <3>1, <3>2, <4>2
      <4>4. /\ s \o t \in [1 .. a + n -> Content]
            /\ \A k \in 1 .. a + n : (s \o t)[k] = IF k <= a THEN s[k] ELSE t[k - a]
        BY <4>1, <4>3, Joined
      <4> QED
        BY <4>2, <4>3, <4>4
    <3>4. \A p \in Position : ByteAt(f, p)' = ByteAt(f, p)
      BY <1>5, <2>2, <2>4 DEF Advances, BytesSame
    <3>5. ASSUME NEW k \in 1 .. a + n
          PROVE  off + k - 1 \in Position /\ call'.got[k] = ByteAt(f, off + k - 1)'
      <4>1. CASE k <= a
        <5>1. k \in 1 .. a
          BY <2>2, <4>1
        <5> QED
          BY <3>2, <3>3, <3>4, <4>1, <5>1
      <4>2. CASE ~(k <= a)
        <5>1. call'.got[k] = bytes[k - a] /\ k - a \in 1 .. n /\ off + k - 1 \in Position
          BY <2>3, <3>3, <4>2
        <5>2. bytes[k - a] = ByteAt(f, Reached + (k - a) - 1)
          BY <3>1, <5>1
        <5>3. bytes[k - a] = ByteAt(f, off + k - 1)
          BY <2>3, <4>2, <5>2
        <5> QED
          BY <3>4, <5>1, <5>3
      <4> QED
        BY <4>1, <4>2
    <3>6. \A p : ByteAt(call.f, p)' = ByteAt(f, p)'
      BY <2>2 DEF ByteAt, BlockAt
    <3> QED
      BY <2>2, <2>4, <3>3, <3>5, <3>6 DEF BytesOK
  <2>5. CASE call.op = "write"
    <3>1. \A p \in Position : ByteAt(f, p)' = IF Passed(n, p) THEN v ELSE ByteAt(f, p)
      BY <1>5, <2>1, <2>2, <2>5 DEF Advances
    <3>2. \A k \in 1 .. a : off + k - 1 \in Position /\ ByteAt(f, off + k - 1) = v
      BY <2>1, <2>5 DEF BytesOK
    <3>3. ASSUME NEW k \in 1 .. a + n
          PROVE  off + k - 1 \in Position /\ ByteAt(f, off + k - 1)' = v
      <4>1. CASE k <= a
        <5>1. k \in 1 .. a
          BY <2>2, <4>1
        <5> QED
          BY <3>1, <3>2, <5>1
      <4>2. CASE ~(k <= a)
        BY <2>3, <3>1, <4>2
      <4> QED
        BY <4>1, <4>2
    <3>4. \A p : ByteAt(call.f, p)' = ByteAt(f, p)'
      BY <2>2 DEF ByteAt, BlockAt
    <3> QED
      BY <2>2, <2>5, <3>3, <3>4 DEF BytesOK
  <2> QED
    BY <1>1, <2>4, <2>5
<1> QED
  BY <1>3, <1>4, <1>5, TransferBytes

\* Every step keeps what reads have got and writes have passed.
LEMMA NextBytes == IInv /\ GInv /\ BytesOK /\ [Next]_vars => BytesOK'
<1> SUFFICES ASSUME IInv, GInv, BytesOK, [Next]_vars PROVE BytesOK'
  OBVIOUS
<1>1. CallOK
  BY DEF IInv
<1>2. ASSUME call'.op \notin {"read", "write"} PROVE BytesOK'
  BY <1>2 DEF BytesOK
<1>3. CASE UNCHANGED vars
  <2>1. UNCHANGED <<disk, din, call>>
    BY <1>3 DEF vars, fsvars
  <2> QED
    BY <2>1 DEF BytesOK, ByteAt, BlockAt
<1>4. CASE Go
  <2>1. CASE IoHead \/ IoBody \/ IoTail
    BY <2>1, TransferOK
  <2>2. CASE IoOut \/ OpenReturns \/ SeekReturns
    <3>1. call' = Idle
      BY <2>2 DEF IoOut, OpenReturns, SeekReturns
    <3>2. call'.op = "idle"
      BY <3>1 DEF Idle
    <3> QED
      BY <1>2, <3>2
  <2>3. CASE TruncateGrow \/ TruncateShrink \/ TruncateResize
    <3>1. call.op = "truncate" /\ DOMAIN call = TruncateFields
      BY <1>1, <2>3, Calls DEF TruncateGrow, TruncateShrink, TruncateResize, Running
    <3>2. CASE \E why : Panics(why)
      BY <3>2, PanicBytes
    <3>3. CASE ~\E why : Panics(why)
      <4>1. call'.op = call.op
        BY <2>3, <3>1, <3>3, Grows DEF TruncateShrink, TruncateResize, TruncateFields, SameTruncate
      <4> QED
        BY <1>2, <3>1, <4>1
    <3> QED
      BY <3>2, <3>3
  <2> QED
    BY <1>4, <2>1, <2>2, <2>3 DEF Go
<1>5. ASSUME NEW h \in Handle, NEW f \in File, Open(h, f) \/ OpenAppend(h, f) \/ OpenTruncate(h, f)
      PROVE  BytesOK'
  <2>1. call = Idle
    BY <1>1, <1>5, Calls DEF Open, OpenAppend, OpenTruncate, Running
  <2>2. call' = call \/ call' = Idle \/ call' = TruncateCall(h, f, 0, "open")
    BY <1>5 DEF Open, OpenAppend, OpenTruncate, Panics
  <2> QED
    BY <1>2, <2>1, <2>2 DEF Idle, TruncateCall
<1>6. ASSUME NEW h, NEW len, NEW op, NEW v, StartIo(op, h, len, v)
      PROVE  BytesOK'
  <2>1. call'.alen = 0 /\ call'.got = <<>>
    BY <1>6 DEF StartIo
  <2>2. 1 .. 0 = {} /\ <<>> \in [1 .. 0 -> Content]
    BY EmptySeq, LenProperties
  <2> QED
    BY <2>1, <2>2 DEF BytesOK
<1>7. ASSUME NEW h \in Handle,
             (\E g \in Handle : Dup(h, g)) \/ (\E to \in SeekTo : Seek(h, to)) \/ Close(h) \/ Fsync(h)
      PROVE  BytesOK'
  <2>1. call = Idle
    BY <1>1, <1>7, Calls DEF Dup, Seek, Close, Fsync, Ready, Running
  <2>2. call' = call \/ \E to : call' = TruncateCall(h, node[h], to, "seek")
    BY <1>7 DEF Dup, Seek, Close, Fsync
  <2> QED
    BY <1>2, <2>1, <2>2 DEF Idle, TruncateCall
<1> QED
  BY <1>3, <1>4, <1>5, <1>6, <1>7 DEF Next, Read, Write

-----------------------------------------------------------------------------
(***************************************************************************)
(* The files of FileSpec                                                   *)
(***************************************************************************)
\* What FileSpec sees.
SizeOf == [f \in File |-> din[f].size]
ByteOf == [f \in File |-> [p \in Position |-> ByteAt(f, p)]]
BusyOf ==
  IF panic # "none" THEN [op |-> "halted"]
  ELSE IF call.op \in {"read", "write"}
  THEN [op |-> call.op, f |-> call.f, off |-> call.off, len |-> call.len, v |-> call.v]
  ELSE IF call.op = "truncate"
  THEN [op |-> "truncate", f |-> call.f, len |-> call.len] ELSE Idle
ReplyOf == IF Running("read") /\ call.at = "out" THEN call.got ELSE <<>>
Seen == <<SizeOf, ByteOf, BusyOf, ReplyOf>>

\* A step that FileSpec does not see.
LEMMA StillSeen ==
  ASSUME SizesSame, BytesSame, BusyOf' = BusyOf, ReplyOf' = ReplyOf
  PROVE  UNCHANGED Seen
<1>1. SizeOf' = SizeOf
  BY DEF SizesSame, SizeOf
<1>2. ByteOf' = ByteOf
  BY DEF BytesSame, ByteOf
<1> QED
  BY <1>1, <1>2 DEF Seen

\* Nothing is seen of the files when none of them changes.
LEMMA SameSeen ==
  ASSUME TypeOK, SizesSame, disk' = disk,
         \A g \in File : din'[g].direct = din[g].direct /\ din'[g].indirect = din[g].indirect
  PROVE  BytesSame
<1>1. \A g \in File, i \in Index : BlockAt(g, i)' = BlockAt(g, i)
  BY EntriesSame
<1>2. \A g \in File, i \in Index, c \in Cell : CellAt(g, i, c)' = CellAt(g, i, c)
  BY <1>1 DEF CellAt
<1> QED
  BY <1>2, Bytes DEF BytesSame

\* A failed assertion halts the kernel.
LEMMA PanicRefines == ASSUME TypeOK, NEW why, why # "none", Panics(why) PROVE Files!Halt
<1>1. UNCHANGED <<disk, din, call>> /\ panic' # "none"
  BY DEF Panics, fsvars
<1>2. SizesSame
  BY <1>1 DEF SizesSame
<1>3. SizeOf' = SizeOf /\ ByteOf' = ByteOf
  BY <1>1, <1>2, SameSeen DEF SizeOf, ByteOf, SizesSame, BytesSame
<1>4. BusyOf' = [op |-> "halted"] /\ ReplyOf' = <<>>
  BY <1>1 DEF BusyOf, ReplyOf, Running
<1> QED
  BY <1>3, <1>4 DEF Files!Halt, Files!Halted, SizeOf, ByteOf, BusyOf, ReplyOf, ByteAt

\* A read hands out what it has got, and a write stores its value piece by piece.
LEMMA TransferRefines ==
  ASSUME IInv, GInv, GInv', BytesOK', IoHead \/ IoBody \/ IoTail
  PROVE  Files!Next \/ UNCHANGED Seen
<1>0. PICK f, off, len, v : f = call.f /\ off = call.off /\ len = call.len /\ v = call.v
  OBVIOUS
<1>1. /\ call.op \in {"read", "write"} /\ call.at # "out" /\ f \in File /\ ExtentOK /\ TypeOK /\ panic = "none" /\ CallOK
  BY <1>0, Pieces, Calls DEF GInv, IInv, IoHead, IoBody, IoTail, InIo, Running
<1>2. CASE \E why : why # "none" /\ Panics(why)
  BY <1>1, <1>2, PanicRefines DEF Files!Next
<1>3. CASE ~\E why : why # "none" /\ Panics(why)
  <2>1. /\ SizesSame /\ SameCall /\ UNCHANGED <<node, pos, panic, mishap>>
        /\ Ends \/ \E n \in Nat \ {0} : Advances(n)
    BY <1>3, TransferBytes
  <2>2. /\ call'.op = call.op /\ call'.f = f /\ call'.off = off /\ call'.len = len /\ call'.v = v /\ call'.end = call.end
        /\ panic' = "none" /\ SizeOf' = SizeOf
    BY <1>0, <1>1, <2>1 DEF SameCall, SizesSame, SizeOf
  <2>3. BusyOf = [op |-> call.op, f |-> f, off |-> off, len |-> len, v |-> v] /\ BusyOf' = BusyOf /\ ReplyOf = <<>>
    BY <1>0, <1>1, <2>2 DEF BusyOf, ReplyOf
  <2>4. CASE call.op = "read"
    <3>1. BytesSame
      BY <2>1, <2>4 DEF Ends, Advances
    <3>2. ByteOf' = ByteOf
      BY <3>1 DEF BytesSame, ByteOf
    <3>3. CASE call'.at # "out" \/ call'.alen = 0
      <4>1. ReplyOf' = <<>>
        <5>1. CASE call'.at # "out"
          BY <2>2, <2>4, <5>1 DEF ReplyOf, Running
        <5>2. CASE call'.alen = 0
          <6>1. call'.got \in [1 .. 0 -> Content]
            BY <2>2, <2>4, <5>2 DEF BytesOK
          <6>2. call'.got = <<>>
            <7>1. call'.got \in Seq(Content)
              BY <6>1, SeqDef
            <7>2. Len(call'.got) = 0
              BY <6>1, <7>1, LenProperties
            <7> QED
              BY <7>1, <7>2, EmptySeq
          <6> QED
            BY <6>2 DEF ReplyOf
        <5> QED
          BY <3>3, <5>1, <5>2
      <4> QED
        BY <2>1, <2>3, <3>1, <4>1, StillSeen
    <3>4. CASE call'.at = "out" /\ call'.alen # 0
      <4>1. PICK n : n = call'.alen
        OBVIOUS
      <4>2. ExtentOK'
        BY <2>2, <2>4 DEF GInv, IoOK
      <4>3. MAX_FILE_SIZE \in Nat
        BY Largest
      <4>4. /\ off \in Nat /\ n \in Nat /\ len \in Nat /\ off + n <= call.end /\ call.end <= off + len /\ call.end \in Nat
        BY <2>2, <3>4, <4>1, <4>2 DEF ExtentOK, Reached, MAX_FILE_SIZE
      <4>5. call.end <= din[f].size /\ din[f].size \in Int
        BY <1>0, <1>1, <2>4 DEF ExtentOK, TypeOK, Inode
      <4>6. n \in 1 .. len /\ off + n <= SizeOf[f]
        BY <1>1, <3>4, <4>1, <4>4, <4>5 DEF SizeOf
      <4>7. /\ call'.got \in [1 .. n -> Content]
            /\ \A k \in 1 .. n : off + k - 1 \in Position /\ call'.got[k] = ByteAt(f, off + k - 1)'
        <5>1. \A p : ByteAt(call.f, p)' = ByteAt(f, p)'
          BY <2>2 DEF ByteAt, BlockAt
        <5> QED
          BY <2>2, <2>4, <4>1, <5>1 DEF BytesOK
      <4>8. ASSUME NEW k \in 1 .. n PROVE call'.got[k] = ByteOf[f][off + k - 1]
        <5>1. call'.got[k] = ByteAt(f, off + k - 1)' /\ off + k - 1 \in Position
          BY <4>7
        <5>2. ByteAt(f, off + k - 1)' = ByteAt(f, off + k - 1)
          BY <1>1, <3>1, <5>1 DEF BytesSame
        <5> QED
          BY <1>1, <5>1, <5>2 DEF ByteOf
      <4>9. ReplyOf' = [k \in 1 .. n |-> ByteOf[f][off + k - 1]]
        BY <2>2, <2>4, <3>4, <4>7, <4>8 DEF ReplyOf, Running
      <4>10. BusyOf.op = "read" /\ BusyOf.f = f /\ BusyOf.off = off /\ BusyOf.len = len
        BY <2>3, <2>4
      <4>11. \E k \in 1 .. BusyOf.len :
               /\ BusyOf.off + k <= SizeOf[BusyOf.f]
               /\ ReplyOf' = [i \in 1 .. k |-> ByteOf[BusyOf.f][BusyOf.off + i - 1]]
        BY <4>6, <4>9, <4>10
      <4>12. Files!ReadBytes
        BY <2>2, <2>3, <3>2, <4>10, <4>11 DEF Files!ReadBytes, SizeOf, ByteOf, BusyOf, ReplyOf, ByteAt
      <4> QED
        BY <4>12 DEF Files!Next
    <3> QED
      BY <3>3, <3>4
  <2>5. CASE call.op = "write"
    <3>1. ReplyOf' = <<>>
      BY <2>2, <2>5 DEF ReplyOf, Running
    <3>2. CASE Ends
      BY <2>1, <2>3, <3>1, <3>2, StillSeen DEF Ends
    <3>3. ASSUME NEW n \in Nat \ {0}, Advances(n) PROVE Files!Next
      <4> DEFINE S == {p \in Position : Passed(n, p)}
      <4>1. \A g \in File, p \in Position : ByteAt(g, p)' = IF g = f /\ Passed(n, p) THEN v ELSE ByteAt(g, p)
        BY <1>0, <2>5, <3>3 DEF Advances
      <4>2. ByteOf' = [ByteOf EXCEPT ![f] = [p \in Position |-> IF p \in S THEN v ELSE ByteOf[f][p]]]
        <5>1. ByteOf' = [g \in File |-> [p \in Position |-> IF g = f /\ Passed(n, p) THEN v ELSE ByteAt(g, p)]]
          BY <4>1 DEF ByteOf
        <5>2. ByteOf = [g \in File |-> [p \in Position |-> ByteAt(g, p)]]
          BY DEF ByteOf
        <5> QED
          BY <1>1, <5>1, <5>2
      <4>3. S \in SUBSET {p \in Position : off <= p /\ p < off + len}
        <5>1. MAX_FILE_SIZE \in Nat
          BY Largest
        <5>2. /\ off \in Nat /\ call.alen \in Nat /\ len \in Nat /\ Reached = off + call.alen /\ call.end \in Nat
              /\ Reached + n <= call.end /\ call.end <= off + len
          BY <1>0, <1>1, <3>3, <5>1 DEF ExtentOK, Reached, Advances
        <5>3. \A p \in Position : p \in Nat
          BY Positions
        <5> QED
          BY <5>2, <5>3 DEF Passed
      <4>4. BusyOf.op = "write" /\ BusyOf.f = f /\ BusyOf.off = off /\ BusyOf.len = len /\ BusyOf.v = v
        BY <2>3, <2>5
      <4> HIDE DEF S
      <4>5. \E T \in SUBSET {p \in Position : BusyOf.off <= p /\ p < BusyOf.off + BusyOf.len} :
              ByteOf' = [ByteOf EXCEPT ![BusyOf.f] =
                           [p \in Position |-> IF p \in T THEN BusyOf.v ELSE ByteOf[BusyOf.f][p]]]
        BY <4>2, <4>3, <4>4
      <4>6. Files!Store
        BY <2>2, <2>3, <3>1, <4>4, <4>5 DEF Files!Store, SizeOf, ByteOf, BusyOf, ReplyOf, ByteAt
      <4> QED
        BY <4>6 DEF Files!Next
    <3> QED
      BY <2>1, <3>2, <3>3
  <2> QED
    BY <1>1, <2>4, <2>5
<1> QED
  BY <1>2, <1>3

\* The end of a read, and of a write, which moves the size.
LEMMA IoOutRefines == ASSUME IInv, GInv, BytesOK, IoOut PROVE Files!Next
<1>1. PICK f, off, n, v, len : f = call.f /\ off = call.off /\ n = call.alen /\ v = call.v /\ len = call.len
  OBVIOUS
<1>2. /\ call.op \in {"read", "write"} /\ f \in File /\ ExtentOK /\ TypeOK /\ BoundsOK /\ panic = "none" /\ CallOK
      /\ din \in [File -> Inode]
  BY <1>1, Calls DEF IoOut, InIo, Running, IInv, GInv, IoOK, TypeOK
<1>3. MAX_FILE_SIZE \in Nat
  BY Largest
<1>4. /\ off \in Nat /\ n \in Nat /\ len \in Nat /\ call.end \in Nat /\ Reached = off + n /\ call.end <= off + len
      /\ Reached <= call.end \/ n = 0
      /\ din[f].size \in Int
  BY <1>1, <1>2, <1>3 DEF ExtentOK, Reached, BoundsOK
<1>5. /\ din' = IF call.end > off /\ off + n > din[f].size THEN [din EXCEPT ![f].size = off + n] ELSE din
      /\ UNCHANGED <<disk, panic>> /\ call' = Idle
  BY <1>1 DEF IoOut
<1>6. /\ \A g \in File : din'[g].direct = din[g].direct /\ din'[g].indirect = din[g].indirect
      /\ \A g \in File \ {f} : din'[g].size = din[g].size
      /\ din'[f].size = IF call.end > off /\ off + n > din[f].size THEN off + n ELSE din[f].size
  <2> DEFINE new == [din[f] EXCEPT !.size = off + n]
  <2>1. /\ new.size = off + n /\ new.direct = din[f].direct /\ new.indirect = din[f].indirect
    BY <1>2 DEF Inode
  <2>2. IF call.end > off /\ off + n > din[f].size THEN din' = [din EXCEPT ![f] = new] ELSE din' = din
    BY <1>2, <1>5
  <2> HIDE DEF new
  <2> QED
    BY <1>2, <2>1, <2>2
<1>7. \A g \in File, i \in Index : BlockAt(g, i)' = BlockAt(g, i)
  BY <1>2, <1>5, <1>6, EntriesSame
<1>8. ByteOf' = ByteOf
  <2>1. \A g \in File, i \in Index, c \in Cell : CellAt(g, i, c)' = CellAt(g, i, c)
    BY <1>5, <1>7 DEF CellAt
  <2> QED
    BY <2>1, Bytes DEF ByteOf
<1>9. BusyOf = [op |-> call.op, f |-> f, off |-> off, len |-> len, v |-> v] /\ BusyOf' = Idle /\ ReplyOf' = <<>>
  BY <1>1, <1>2, <1>5 DEF BusyOf, ReplyOf, Running, Idle
<1>10. CASE call.op = "read"
  <2>1. call.end <= din[f].size
    BY <1>1, <1>2, <1>10 DEF ExtentOK
  <2>2. ~(call.end > off /\ off + n > din[f].size)
    BY <1>4, <2>1
  <2>3. SizeOf' = SizeOf
    BY <1>5, <2>2 DEF SizeOf
  <2>4. BusyOf.op = "read"
    BY <1>9, <1>10
  <2>5. Files!ReadReturns
    BY <1>8, <1>9, <2>3, <2>4 DEF Files!ReadReturns, Files!Idle, Idle, SizeOf, ByteOf, BusyOf, ReplyOf, ByteAt
  <2> QED
    BY <2>5 DEF Files!Next, Files!Returns
<1>11. CASE call.op = "write"
  <2>1. off < call.end
    BY <1>1, <1>2, <1>11 DEF ExtentOK
  <2>2. ReplyOf = <<>>
    BY <1>11 DEF ReplyOf, Running
  <2>3. /\ BusyOf.op = "write" /\ BusyOf.f = f /\ BusyOf.off = off /\ BusyOf.len = len /\ BusyOf.v = v
    BY <1>9, <1>11
  <2>4. n \in 0 .. len
    BY <1>4, <2>1
  <2>5. ASSUME NEW k \in 0 .. n - 1 PROVE ByteOf[f][off + k] = v
    <3>1. k + 1 \in 1 .. n /\ off + (k + 1) - 1 = off + k
      BY <1>4
    <3>2. \A i \in 1 .. n : off + i - 1 \in Position /\ ByteAt(f, off + i - 1) = v
      BY <1>1, <1>11 DEF BytesOK
    <3>3. off + k \in Position /\ ByteAt(f, off + k) = v
      BY <3>1, <3>2
    <3> QED
      BY <1>2, <3>3 DEF ByteOf
  <2>6. SizeOf' = [SizeOf EXCEPT ![f] = IF off + n > @ THEN off + n ELSE @]
    <3>1. off + n > din[f].size => call.end > off
      BY <1>4, <2>1
    <3>2. din'[f].size = IF off + n > din[f].size THEN off + n ELSE din[f].size
      BY <1>6, <3>1
    <3> QED
      BY <1>2, <1>6, <3>2 DEF SizeOf
  <2>7. \E i \in 0 .. BusyOf.len :
          /\ \A k \in 0 .. i - 1 : ByteOf[BusyOf.f][BusyOf.off + k] = BusyOf.v
          /\ SizeOf' = [SizeOf EXCEPT ![BusyOf.f] = IF BusyOf.off + i > @ THEN BusyOf.off + i ELSE @]
    BY <2>3, <2>4, <2>5, <2>6
  <2>8. Files!WriteReturns
    BY <1>8, <1>9, <2>2, <2>3, <2>7 DEF Files!WriteReturns, Files!Idle, Idle, SizeOf, ByteOf, BusyOf, ReplyOf, ByteAt
  <2> QED
    BY <2>8 DEF Files!Next, Files!Returns
<1> QED
  BY <1>2, <1>10, <1>11

\* A truncation that adds a block is not seen.
LEMMA TruncateGrowRefines == ASSUME IInv, GInv, TruncateGrow PROVE Files!Next \/ UNCHANGED Seen
<1>1. PICK f, index, m, why :
        /\ f = call.f /\ index = call.nblks /\ m = BmapLoad(call.f, call.nblks)
        /\ why = BmapLoadPanics(call.f, call.nblks)
  OBVIOUS
<1>2. call.op = "truncate" /\ f \in File /\ TypeOK /\ panic = "none"
  BY <1>1, Calls DEF TruncateGrow, Running, IInv
<1>3. CASE why # "none"
  <2>1. Panics(why)
    BY <1>1, <1>3, Grows
  <2> QED
    BY <1>2, <1>3, <2>1, PanicRefines DEF Files!Next
<1>4. CASE why = "none"
  <2>1. /\ index \in Index /\ Loads(f, index, m)
        /\ UNCHANGED <<node, pos, panic, mishap>> /\ SameTruncate /\ Adopt(f, m, m.disk)
        /\ Short(f, index, m) \/ ((WasThere(f, index, m) \/ Made(f, index, m)) /\ m.ino \in Block)
    BY <1>1, <1>4, Grows
  <2>2. m.disk \in [Block -> [Cell -> Content]]
    BY <2>1 DEF Loads
  <2>3. SizesSame
    <3>1. din \in [File -> Inode] /\ din' = [din EXCEPT ![f] = m.inode]
      BY <1>2, <2>1 DEF TypeOK, Adopt
    <3>2. m.inode.size = din[f].size
      BY <1>2, <2>1, <3>1 DEF WasThere, Made, Short, Inode
    <3> QED
      BY <1>2, <3>1, <3>2 DEF SizesSame
  <2>4. BytesSame
    <3>1. \A g \in File, i \in Index, k \in Cell :
            CellAt(g, i, k)' = IF ~Short(f, index, m) /\ g = f /\ i = index THEN m.disk[m.ino][k] ELSE CellAt(g, i, k)
      BY <1>2, <2>1, <2>2, CellsKept
    <3>2. ~Short(f, index, m) => \A k \in Cell : m.disk[m.ino][k] = CellAt(f, index, k)
      BY <1>2, <2>1, LoadedHolds
    <3>3. \A g \in File, i \in Index, k \in Cell : CellAt(g, i, k)' = CellAt(g, i, k)
      BY <3>1, <3>2
    <3> QED
      BY <3>3, Bytes DEF BytesSame
  <2>5. BusyOf' = BusyOf /\ ReplyOf' = ReplyOf
    BY <1>2, <2>1 DEF SameTruncate, BusyOf, ReplyOf, Running
  <2> QED
    BY <2>3, <2>4, <2>5, StillSeen
<1> QED
  BY <1>3, <1>4

\* A truncation that frees a block clears it.
LEMMA TruncateShrinkRefines == ASSUME IInv, GInv, TruncateShrink PROVE Files!Next
<1>1. PICK f, index, len : f = call.f /\ index = din[call.f].blocks - 1 /\ len = call.len
  OBVIOUS
<1>2. /\ call.op = "truncate" /\ f \in File /\ TypeOK /\ OwnOK /\ panic = "none" /\ TruncateOK
      /\ call.at = "loop" /\ call.nblks > call.tblks /\ DOMAIN call = TruncateFields
  BY <1>1, Calls DEF TruncateShrink, Running, IInv, GInv
<1>3. CASE ~ShrinkRuns
  <2>1. \E why : why # "none" /\ Panics(why)
    BY <1>2, <1>3 DEF TruncateShrink, ShrinkRuns
  <2> QED
    BY <1>2, <2>1, PanicRefines DEF Files!Next
<1>4. CASE ShrinkRuns
  <2>1. /\ index \in Index /\ din'[f].size = din[f].size
        /\ \A g \in File : g # f => din'[g] = din[g]
        /\ \A g \in File, i \in Index : BlockAt(g, i)' = IF g = f /\ i = index THEN NoBlock ELSE BlockAt(g, i)
        /\ \A g \in File, i \in Index : BlockAt(g, i) # NoBlock => disk'[BlockAt(g, i)] = disk[BlockAt(g, i)]
        /\ call' = [call EXCEPT !.nblks = @ - 1] /\ UNCHANGED <<node, pos, panic, mishap>>
    BY <1>1, <1>4, ShrinkPlaces
  <2>2. SizeOf' = SizeOf
    BY <2>1 DEF SizeOf
  <2>3. \A g \in File, i \in Index, c \in Cell :
          CellAt(g, i, c)' = IF g = f /\ i = index THEN 0 ELSE CellAt(g, i, c)
    BY <2>1 DEF CellAt
  <2> DEFINE S == {p \in Position : p \div BLKSIZE = index}
  <2>4. ByteOf' = [ByteOf EXCEPT ![f] = [p \in Position |-> IF p \in S THEN 0 ELSE ByteOf[f][p]]]
    <3>1. ASSUME NEW g \in File, NEW p \in Position
          PROVE  ByteAt(g, p)' = IF g = f /\ p \div BLKSIZE = index THEN 0 ELSE ByteAt(g, p)
      <4>1. PICK i \in Index, c \in Cell : i = p \div BLKSIZE /\ c = p % BLKSIZE
        BY Positions
      <4>2. ByteAt(g, p)' = CellAt(g, i, c)' /\ ByteAt(g, p) = CellAt(g, i, c)
        BY <4>1 DEF ByteAt, CellAt
      <4> QED
        BY <2>3, <4>1, <4>2
    <3>2. ByteOf' = [g \in File |-> [p \in Position |-> IF g = f /\ p \div BLKSIZE = index THEN 0 ELSE ByteAt(g, p)]]
      BY <3>1 DEF ByteOf
    <3>3. ByteOf = [g \in File |-> [p \in Position |-> ByteAt(g, p)]]
      BY DEF ByteOf
    <3> QED
      BY <1>2, <3>2, <3>3
  <2>5. S \in SUBSET {p \in Position : len <= p}
    <3> SUFFICES ASSUME NEW p \in Position, p \div BLKSIZE = index PROVE len <= p
      OBVIOUS
    <3>1. MAX_FILE_SIZE \in Nat
      BY Largest
    <3>2. len \in Nat /\ call.tblks = RoundUpDiv(len, BLKSIZE) /\ call.nblks = din[f].blocks
      BY <1>1, <1>2, <3>1 DEF TruncateOK, Tblks
    <3> DEFINE r == RoundUpDiv(len, BLKSIZE)
    <3>3. r \in Nat /\ len <= BLKSIZE * r
      BY <3>2, RoundUp
    <3>4. call.tblks = r
      BY <3>2
    <3> HIDE DEF r
    <3>5. din[f].blocks \in Int /\ BLKSIZE \in Nat /\ BLKSIZE > 0
      BY <1>2, Numbers DEF TypeOK, Inode
    <3>6. r <= index /\ index \in Int
      BY <1>1, <1>2, <3>2, <3>3, <3>4, <3>5
    <3>7. BLKSIZE * index \in Int /\ BLKSIZE * r \in Int
      BY <3>3, <3>5, <3>6
    <3>8. r < index => BLKSIZE * r + BLKSIZE <= BLKSIZE * index
      BY <3>3, <3>6, Multiples
    <3>9. BLKSIZE * r <= BLKSIZE * index
      <4>1. CASE r = index
        BY <3>7, <4>1
      <4>2. CASE r < index
        BY <3>5, <3>7, <3>8, <4>2
      <4> QED
        BY <3>3, <3>6, <4>1, <4>2
    <3>10. p = BLKSIZE * index + (p % BLKSIZE) /\ p % BLKSIZE \in Cell
      BY Positions
    <3>11. p % BLKSIZE \in Nat
      BY <3>5, <3>10 DEF Cell
    <3> QED
      BY <3>2, <3>3, <3>7, <3>9, <3>10, <3>11
  <2>6. call'.op = "truncate" /\ call'.f = f /\ call'.len = len
    BY <1>1, <1>2, <2>1 DEF TruncateFields
  <2>7. /\ BusyOf' = BusyOf /\ ReplyOf' = ReplyOf /\ BusyOf.op = "truncate" /\ BusyOf.f = f /\ BusyOf.len = len
    BY <1>1, <1>2, <2>1, <2>6 DEF BusyOf, ReplyOf, Running
  <2> HIDE DEF S
  <2>8. \E T \in SUBSET {p \in Position : BusyOf.len <= p} :
          ByteOf' = [ByteOf EXCEPT ![BusyOf.f] = [p \in Position |-> IF p \in T THEN 0 ELSE ByteOf[BusyOf.f][p]]]
    BY <2>4, <2>5, <2>7
  <2>9. Files!Clear
    BY <2>2, <2>7, <2>8 DEF Files!Clear, SizeOf, ByteOf, BusyOf, ReplyOf, ByteAt
  <2> QED
    BY <2>9 DEF Files!Next
<1> QED
  BY <1>3, <1>4

\* A truncation that has the blocks sets the size.
LEMMA TruncateResizeRefines == ASSUME IInv, GInv, TruncateResize PROVE Files!Next
<1>1. PICK f, len : f = call.f /\ len = call.len
  OBVIOUS
<1>2. /\ call.op = "truncate" /\ f \in File /\ TypeOK /\ panic = "none" /\ DOMAIN call = TruncateFields
      /\ din \in [File -> Inode]
  BY <1>1, Calls DEF TruncateResize, Running, IInv, TypeOK
<1>3. CASE \E why : why # "none" /\ Panics(why)
  BY <1>2, <1>3, PanicRefines DEF Files!Next
<1>4. CASE ~\E why : why # "none" /\ Panics(why)
  <2>1. /\ din' = [din EXCEPT ![f].size = len] /\ call' = [call EXCEPT !.at = "done"] /\ UNCHANGED <<disk, panic>>
    BY <1>1, <1>4 DEF TruncateResize
  <2>2. /\ \A g \in File : din'[g].direct = din[g].direct /\ din'[g].indirect = din[g].indirect
        /\ \A g \in File \ {f} : din'[g].size = din[g].size
        /\ din'[f].size = len
    <3> DEFINE new == [din[f] EXCEPT !.size = len]
    <3>1. /\ new.size = len /\ new.direct = din[f].direct /\ new.indirect = din[f].indirect
      BY <1>2 DEF Inode
    <3>2. din' = [din EXCEPT ![f] = new]
      BY <1>2, <2>1
    <3> HIDE DEF new
    <3> QED
      BY <1>2, <3>1, <3>2
  <2>3. ByteOf' = ByteOf
    <3>1. \A g \in File, i \in Index : BlockAt(g, i)' = BlockAt(g, i)
      BY <1>2, <2>1, <2>2, EntriesSame
    <3>2. \A g \in File, i \in Index, c \in Cell : CellAt(g, i, c)' = CellAt(g, i, c)
      BY <2>1, <3>1 DEF CellAt
    <3> QED
      BY <3>2, Bytes DEF ByteOf
  <2>4. /\ BusyOf' = BusyOf /\ ReplyOf' = ReplyOf /\ BusyOf.op = "truncate" /\ BusyOf.f = f /\ BusyOf.len = len
    BY <1>1, <1>2, <2>1 DEF BusyOf, ReplyOf, Running, TruncateFields
  <2>5. SizeOf' = [SizeOf EXCEPT ![BusyOf.f] = BusyOf.len]
    BY <1>2, <2>2, <2>4 DEF SizeOf
  <2>6. Files!Resize
    BY <2>3, <2>4, <2>5 DEF Files!Resize, SizeOf, ByteOf, BusyOf, ReplyOf, ByteAt
  <2> QED
    BY <2>6 DEF Files!Next
<1> QED
  BY <1>3, <1>4

\* The inodes and the disk stay: nothing is seen of the files.
LEMMA FilesStay == ASSUME UNCHANGED <<disk, din>> PROVE SizeOf' = SizeOf /\ ByteOf' = ByteOf /\ SizesSame /\ BytesSame
  BY DEF SizeOf, ByteOf, ByteAt, BlockAt, SizesSame, BytesSame

\* The ends of the calls that truncate.
LEMMA ReturnsRefines == ASSUME OpenReturns \/ SeekReturns PROVE Files!Next
<1>1. /\ call.op = "truncate" /\ panic = "none" /\ panic' = panic /\ call' = Idle /\ UNCHANGED <<disk, din>>
  BY DEF OpenReturns, SeekReturns, Running, fsvars
<1>2. BusyOf.op = "truncate" /\ BusyOf' = Idle /\ ReplyOf = <<>> /\ ReplyOf' = <<>>
  BY <1>1 DEF BusyOf, ReplyOf, Running, Idle
<1>3. Files!TruncateReturns
  BY <1>1, <1>2, FilesStay DEF Files!TruncateReturns, Files!Idle, Idle, SizeOf, ByteOf, BusyOf, ReplyOf, ByteAt
<1> QED
  BY <1>3 DEF Files!Next, Files!Returns

\* A read or a write begins.
LEMMA StartIoRefines ==
  ASSUME IInv, GInv, NEW op \in {"read", "write"}, NEW h \in Handle, NEW len \in Nat, NEW v \in Value,
         StartIo(op, h, len, v)
  PROVE  Files!Next
<1>1. PICK f, off : f = node[h] /\ off = pos[h]
  OBVIOUS
<1>2. /\ panic = "none" /\ panic' = panic /\ call.op = "idle" /\ f \in File /\ UNCHANGED <<disk, din>>
      /\ call'.op = op /\ call'.f = f /\ call'.off = off /\ call'.len = len /\ call'.v = v /\ call'.got = <<>>
  BY <1>1 DEF StartIo, Ready, Running, fsvars, IInv, TypeOK
<1>3. off \in Nat
  <2>1. MAX_FILE_SIZE \in Nat
    BY Largest
  <2> QED
    BY <1>1, <2>1 DEF GInv, BoundsOK
<1>4. BusyOf = Idle /\ BusyOf' = [op |-> op, f |-> f, off |-> off, len |-> len, v |-> v]
  BY <1>2 DEF BusyOf
<1>5. ReplyOf = <<>> /\ ReplyOf' = <<>>
  BY <1>2 DEF ReplyOf, Running
<1>6. BusyOf' \in Files!IoCall
  BY <1>2, <1>3, <1>4 DEF Files!IoCall
<1>7. Files!Start
  BY <1>2, <1>4, <1>5, <1>6, FilesStay DEF Files!Start, Files!Idle, Idle, SizeOf, ByteOf, BusyOf, ReplyOf, ByteAt
<1> QED
  BY <1>7 DEF Files!Next

\* A call that leaves the files alone, or begins to truncate one.
LEMMA IdleRefines ==
  ASSUME panic = "none", panic' = panic, call.op = "idle", call' = Idle, UNCHANGED <<disk, din>>
  PROVE  UNCHANGED Seen
<1>1. BusyOf = Idle /\ ReplyOf = <<>>
  BY DEF BusyOf, ReplyOf, Running
<1>2. BusyOf' = Idle /\ ReplyOf' = <<>>
  BY DEF BusyOf, ReplyOf, Running, Idle
<1> QED
  BY <1>1, <1>2, FilesStay, StillSeen

\* A call to sfs_truncfile begins, and so far no file has changed.
Begins(h, f, len, why) ==
  /\ panic = "none" /\ panic' = panic /\ call.op = "idle" /\ UNCHANGED <<disk, din>>
  /\ call' = TruncateCall(h, f, len, why)

\* A call that begins to change a file's length is one the abstract files see begin.
LEMMA LengthBegins ==
  ASSUME NEW h \in Handle, NEW f \in File, NEW len \in Nat, NEW why, Begins(h, f, len, why)
  PROVE  Files!Next
<1>1. BusyOf = Idle /\ ReplyOf = <<>>
  BY DEF Begins, BusyOf, ReplyOf, Running
<1>2. call'.op = "truncate" /\ call'.f = f /\ call'.len = len
  BY DEF Begins, TruncateCall
<1>3. BusyOf' = [op |-> "truncate", f |-> f, len |-> len] /\ ReplyOf' = <<>>
  <2>1. BusyOf' = [op |-> "truncate", f |-> call'.f, len |-> call'.len]
    BY <1>2 DEF Begins, BusyOf
  <2>2. ReplyOf' = <<>>
    BY <1>2 DEF ReplyOf, Running
  <2> QED
    BY <1>2, <2>1, <2>2
<1>4. BusyOf' \in Files!TruncateCall
  BY <1>3 DEF Files!TruncateCall
<1>5. Files!Start
  BY <1>1, <1>3, <1>4, FilesStay DEF Begins, Files!Start, Files!Idle, Idle, SizeOf, ByteOf, BusyOf, ReplyOf, ByteAt
<1> QED
  BY <1>5 DEF Files!Next

\* An inode that is stored, and read again later, is the same to the readers of the file.
LEMMA StoredRefines ==
  ASSUME IInv, GInv, NEW h \in Handle, Close(h) \/ Fsync(h)
  PROVE  UNCHANGED Seen
<1>1. PICK f : f = node[h]
  OBVIOUS
<1>2. /\ call.op = "idle" /\ call = Idle /\ TypeOK /\ BoundsOK /\ SyncOK /\ f \in File /\ call' = call /\ UNCHANGED <<disk, panic>>
      /\ din \in [File -> Inode]
  BY <1>1, Calls DEF Close, Fsync, Ready, Running, IInv, TypeOK, GInv
<1>3. din' = din \/ \E stored : /\ stored.size = din[f].size /\ stored.direct = din[f].direct
                                /\ stored.indirect = din[f].indirect /\ din' = [din EXCEPT ![f] = stored]
  <2>1. CASE Fsync(h)
    BY <2>1 DEF Fsync
  <2>2. CASE Close(h)
    <3>1. PICK stored : stored = IF dirty[f] THEN din[f] ELSE dinode[f]
      OBVIOUS
    <3>2. stored.size = din[f].size /\ stored.direct = din[f].direct /\ stored.indirect = din[f].indirect
      BY <1>2, <3>1 DEF BoundsOK, SyncOK
    <3>3. din' = din \/ din' = [din EXCEPT ![f] = stored]
      BY <1>1, <2>2, <3>1 DEF Close, Release
    <3> QED
      BY <3>2, <3>3
  <2> QED
    BY <2>1, <2>2
<1>4. /\ SizesSame
      /\ \A g \in File : din'[g].direct = din[g].direct /\ din'[g].indirect = din[g].indirect
  BY <1>2, <1>3 DEF SizesSame
<1>5. BytesSame
  BY <1>2, <1>4, SameSeen
<1>6. BusyOf' = BusyOf /\ ReplyOf' = ReplyOf
  BY <1>2 DEF BusyOf, ReplyOf, Running, Idle
<1> QED
  BY <1>4, <1>5, <1>6, StillSeen

\* The empty disk has empty files.
LEMMA StartRefines == Init => Files!Init
<1> SUFFICES ASSUME Init PROVE Files!Init
  OBVIOUS
<1>1. /\ \A f \in File : din[f] = EmptyInode
      /\ call = Idle /\ panic = "none"
  BY DEF Init
<1>2. \A f \in File, i \in Index : BlockAt(f, i) = NoBlock
  <2> SUFFICES ASSUME NEW f \in File, NEW i \in Index PROVE BlockAt(f, i) = NoBlock
    OBVIOUS
  <2>1. CASE i < NDIRECT
    BY <1>1, <2>1, Numbers DEF BlockAt, EmptyInode
  <2>2. CASE ~(i < NDIRECT)
    BY <1>1, <2>2 DEF BlockAt, EmptyInode
  <2> QED
    BY <2>1, <2>2
<1>3. SizeOf = [f \in File |-> 0]
  BY <1>1 DEF SizeOf, EmptyInode
<1>4. ByteOf = [f \in File |-> [p \in Position |-> 0]]
  BY <1>2, Positions DEF ByteOf, ByteAt
<1>5. BusyOf = Idle /\ ReplyOf = <<>>
  BY <1>1 DEF BusyOf, ReplyOf, Running, Idle
<1> QED
  BY <1>3, <1>4, <1>5 DEF Files!Init, Files!Idle, Idle, SizeOf, ByteOf, BusyOf, ReplyOf, ByteAt

\* Every step of every call is one of FileSpec, or not seen.
LEMMA NextRefines ==
  ASSUME IInv, GInv, BytesOK, GInv', BytesOK', [Next]_vars
  PROVE  Files!Next \/ UNCHANGED Seen
<1>1. CASE UNCHANGED vars
  <2>1. UNCHANGED <<disk, din, call, panic>>
    BY <1>1 DEF vars, fsvars
  <2>2. BusyOf' = BusyOf /\ ReplyOf' = ReplyOf
    BY <2>1 DEF BusyOf, ReplyOf, Running, Idle
  <2> QED
    BY <2>1, <2>2, FilesStay, StillSeen
<1>2. CASE Go
  <2>1. CASE IoHead \/ IoBody \/ IoTail
    BY <2>1, TransferRefines
  <2>2. CASE IoOut
    BY <2>2, IoOutRefines
  <2>3. CASE TruncateGrow \/ TruncateShrink \/ TruncateResize
    BY <2>3, TruncateGrowRefines, TruncateShrinkRefines, TruncateResizeRefines
  <2>4. CASE OpenReturns \/ SeekReturns
    BY <2>4, ReturnsRefines
  <2> QED
    BY <1>2, <2>1, <2>2, <2>3, <2>4 DEF Go
<1>3. ASSUME NEW h \in Handle, NEW f \in File, Open(h, f) \/ OpenAppend(h, f) \/ OpenTruncate(h, f)
      PROVE  Files!Next \/ UNCHANGED Seen
  <2>1. call = Idle /\ call.op = "idle" /\ panic = "none" /\ TypeOK
    BY <1>3, Calls DEF Open, OpenAppend, OpenTruncate, Running, IInv
  <2>2. CASE Panics("tblks == din->blocks")
    BY <2>1, <2>2, PanicRefines DEF Files!Next
  <2>3. CASE ~Panics("tblks == din->blocks")
    <3>1. /\ UNCHANGED <<disk, din, panic>>
          /\ call' = call \/ call' = Idle \/ call' = TruncateCall(h, f, 0, "open")
      BY <1>3, <2>3 DEF Open, OpenAppend, OpenTruncate, fsvars
    <3>2. CASE call' = Idle \/ call' = call
      BY <2>1, <3>1, <3>2, IdleRefines
    <3>3. CASE call' = TruncateCall(h, f, 0, "open")
      BY <2>1, <3>1, <3>3, LengthBegins DEF Begins
    <3> QED
      BY <3>1, <3>2, <3>3
  <2> QED
    BY <2>2, <2>3
<1>4. ASSUME NEW h \in Handle, NEW len \in 1 .. IOBUF_SIZE, Read(h, len) \/ \E v \in Value : Write(h, len, v)
      PROVE  Files!Next
  <2>1. len \in Nat
    BY SizesAssumption
  <2> QED
    BY <1>4, <2>1, StartIoRefines DEF Read, Write
<1>5. ASSUME NEW h \in Handle, (\E g \in Handle : Dup(h, g)) \/ (\E to \in SeekTo : Seek(h, to))
      PROVE  Files!Next \/ UNCHANGED Seen
  <2>1. call = Idle /\ call.op = "idle" /\ panic = "none" /\ node[h] \in File /\ UNCHANGED <<disk, din, panic>>
    BY <1>5, Calls DEF Dup, Seek, Ready, Running, IInv, TypeOK, fsvars
  <2>2. call' = Idle \/ \E to \in SeekTo : call' = TruncateCall(h, node[h], to, "seek")
    BY <1>5, <2>1 DEF Dup, Seek
  <2>3. CASE call' = Idle
    BY <2>1, <2>3, IdleRefines
  <2>4. ASSUME NEW to \in SeekTo, call' = TruncateCall(h, node[h], to, "seek")
        PROVE  Files!Next
    <3>1. PICK f : f = node[h]
      OBVIOUS
    <3>2. to \in Nat /\ f \in File /\ call' = TruncateCall(h, f, to, "seek")
      BY <2>1, <2>4, <3>1, ValueAssumption
    <3> QED
      BY <2>1, <3>2, LengthBegins DEF Begins
  <2> QED
    BY <2>2, <2>3, <2>4
<1>6. ASSUME NEW h \in Handle, Close(h) \/ Fsync(h) PROVE UNCHANGED Seen
  BY <1>6, StoredRefines
<1> QED
  BY <1>1, <1>2, <1>3, <1>4, <1>5, <1>6 DEF Next

\* The bytes of the calls in progress, from the start on.
THEOREM BytesAlways == Spec => []BytesOK
<1>1. Init => BytesOK
  BY DEF Init, BytesOK, Idle
<1> QED
  BY <1>1, NextBytes, Inductive, InOrderAlways, PTL DEF Spec

\* ImplementsFiles: with sfs_io_nolock, sfs_truncfile, sfs_bmap_load_nolock, the handles and
\* the inode cache in any order, and calls that stop on a full disk, a read hands out what
\* was written to the file, and no other file's bytes.
THEOREM Refines == Spec => ImplementsFiles
<1>1. Init => Files!Init
  BY StartRefines
<1>2. IInv /\ GInv /\ BytesOK /\ GInv' /\ BytesOK' /\ [Next]_vars => [Files!Next]_Seen
  BY NextRefines
<1>3. IInv /\ GInv /\ BytesOK /\ GInv' /\ BytesOK' /\ [Next]_vars => [Files!Next]_(Files!vars)
  BY <1>2 DEF Files!vars, Seen, SizeOf, ByteOf, BusyOf, ReplyOf, ByteAt
<1> QED
  BY <1>1, <1>3, Inductive, InOrderAlways, BytesAlways, PTL DEF Spec, ImplementsFiles, Files!Spec

=============================================================================
