------------------------------ MODULE SfsFile ------------------------------
(***************************************************************************)
(* Regular files of the simple file system of lab8: the free map, the      *)
(* blocks of a file with its direct and indirect entries, the inode in     *)
(* memory and on the disk, and the calls of file.c that reach them through *)
(* open files with positions.  One step is one iteration of a loop of      *)
(* sfs_io_nolock or sfs_truncfile.                                         *)
(*                                                                         *)
(* The disk is a RAM disk and nothing in these calls sleeps; the kernel is *)
(* not preemptive, so a call runs to its end before the next one starts.   *)
(***************************************************************************)
EXTENDS Integers, FiniteSets, Sequences

CONSTANTS
  File,        \* regular files, none of which is ever unlinked
  Handle,      \* slots of the open file tables, each opened for read and write
  Block,       \* numbers of the data blocks of the disk
  Value,       \* what a write stores: every byte of one write is the same
  BLKSIZE,     \* bytes of a block
  NDIRECT,     \* direct entries of an inode
  NENTRY,      \* entries of an indirect block
  IOBUF_SIZE,  \* the most one file_read or file_write is asked for
  SeekTo       \* positions asked of lseek, after `whence` is added

ASSUME SizesAssumption ==
  /\ BLKSIZE \in Nat \ {0} /\ NDIRECT \in Nat /\ NENTRY \in Nat
  /\ NENTRY <= BLKSIZE
  /\ IOBUF_SIZE \in Nat \ {0}
ASSUME BlockAssumption == Block \subseteq Nat \ {0} /\ IsFiniteSet(Block)
ASSUME ValueAssumption == SeekTo \subseteq Nat /\ NDIRECT + NENTRY # 0

VARIABLES
  freemap,        \* blocks whose bit is set
  unused_blocks,  \* the counter of the super block
  disk,           \* content of each block; cell i of an indirect block is entry i
  din,            \* the inode in memory, or what a load of it would read
  dinode,         \* the inode on the disk, while a load may still read it: see Marked
  dirty,          \* sin->dirty
  node,           \* the file each handle has open, or NoFile
  pos,            \* file->pos
  call,           \* the call in progress
  panic,          \* the assertion that stopped the kernel, or "none"
  mishap          \* history: what has happened that the code does not provide for

fsvars == <<freemap, unused_blocks, disk, din, dinode, dirty>>
vars == <<fsvars, node, pos, call, panic, mishap>>

NoFile == 0
NoBlock == 0
Cell == 0 .. BLKSIZE - 1
Index == 0 .. NDIRECT + NENTRY - 1
Position == 0 .. (NDIRECT + NENTRY) * BLKSIZE - 1
Zeroed == [i \in Cell |-> 0]
Idle == [op |-> "idle"]

RoundUpDiv(n, k) == (n + k - 1) \div k
Least(a, b) == IF a < b THEN a ELSE b
Lowest(S) == CHOOSE b \in S : \A c \in S : b <= c

(***************************************************************************)
(* Where a file keeps its block number `index`, and what lies there        *)
(***************************************************************************)
BlockAt(f, index) ==
  IF index < NDIRECT THEN din[f].direct[index]
  ELSE IF din[f].indirect = NoBlock THEN NoBlock
  ELSE disk[din[f].indirect][index - NDIRECT]

Inuse(b) == b \in Block \ freemap

Loaded(f) == \E h \in Handle : node[h] = f

EmptyInode ==
  [size |-> 0, blocks |-> 0, direct |-> [i \in 0 .. NDIRECT - 1 |-> NoBlock], indirect |-> NoBlock]

Init ==
  /\ freemap = Block
  /\ unused_blocks = Cardinality(Block)
  /\ disk = [b \in Block |-> Zeroed]
  /\ din = [f \in File |-> EmptyInode]
  /\ dinode = [f \in File |-> EmptyInode]
  /\ dirty = [f \in File |-> FALSE]
  /\ node = [h \in Handle |-> NoFile]
  /\ pos = [h \in Handle |-> 0]
  /\ call = Idle
  /\ panic = "none"
  /\ mishap = {}

(***************************************************************************)
(* sfs_bmap_get_nolock and sfs_bmap_get_sub_nolock with the block          *)
(* allocations they make: the entry found or made, and the new values of   *)
(* what changes.  An indirect block that turns out not to be needed goes   *)
(* back, cleared.                                                          *)
(***************************************************************************)
Unchanged(f, ino) ==
  [ok |-> TRUE, ino |-> ino, took |-> {}, disk |-> disk, inode |-> din[f], dirty |-> dirty[f]]

Failed(f) == [Unchanged(f, NoBlock) EXCEPT !.ok = FALSE]

\* Mutant: the failed path forgets to free the indirect block it took.
GiveBackForgets(f, first) == [Failed(f) EXCEPT !.disk = [disk EXCEPT ![first] = Zeroed], !.took = {first}]

\* The block of the indirect entries is given back when no second one is free.
GiveBack(f, first) == [Failed(f) EXCEPT !.disk = [disk EXCEPT ![first] = Zeroed]]

BmapGet(f, index, create) ==
  LET d == din[f]
      ino == BlockAt(f, index)
      first == Lowest(freemap)
      second == Lowest(freemap \ {first})
      entry == index - NDIRECT
  IN  IF ino # NoBlock \/ ~create THEN Unchanged(f, ino)
      ELSE IF freemap = {} THEN Failed(f)
      ELSE IF index < NDIRECT THEN
        [ok |-> TRUE, ino |-> first, took |-> {first},
         disk |-> [disk EXCEPT ![first] = Zeroed],
         inode |-> [d EXCEPT !.direct[index] = first], dirty |-> TRUE]
      ELSE IF d.indirect # NoBlock THEN
        [ok |-> TRUE, ino |-> first, took |-> {first},
         disk |-> [disk EXCEPT ![first] = Zeroed, ![d.indirect][entry] = first],
         inode |-> d, dirty |-> dirty[f]]
      ELSE IF freemap = {first} THEN
        GiveBack(f, first)
      ELSE
        [ok |-> TRUE, ino |-> second, took |-> {first, second},
         disk |-> [disk EXCEPT ![second] = Zeroed, ![first] = [Zeroed EXCEPT ![entry] = second]],
         inode |-> [d EXCEPT !.indirect = first], dirty |-> TRUE]

\* sfs_bmap_load_nolock: one more block when the index is the number of blocks.
BmapLoad(f, index) ==
  LET create == index = din[f].blocks
      m == BmapGet(f, index, create)
  IN  IF create /\ m.ok THEN [m EXCEPT !.inode.blocks = @ + 1] ELSE m

\* The assertion that BmapLoad runs into, or "none".
BmapLoadPanics(f, index) ==
  IF index > din[f].blocks THEN "index <= din->blocks"
  ELSE IF index \notin Index THEN "index out of range"
  ELSE LET m == BmapLoad(f, index) IN
       IF m.ok /\ ~(m.ino \in m.took \/ Inuse(m.ino)) THEN "sfs_block_inuse" ELSE "none"

\* Mutant: an inode that changed is not marked.
MarkedForgets(f, mark) == UNCHANGED <<dirty, dinode>>

\* sin->dirty.  A dirty inode is written over the one on the disk before that is
\* read again, so what the disk has meanwhile is not kept.
Marked(f, mark) ==
  /\ dirty' = [dirty EXCEPT ![f] = mark]
  /\ dinode' = IF mark THEN [dinode EXCEPT ![f] = EmptyInode] ELSE dinode

\* What remains of a BmapLoad, when `data` is the disk afterwards.
Adopt(f, m, data) ==
  /\ freemap' = freemap \ m.took
  /\ unused_blocks' = unused_blocks - Cardinality(m.took)
  /\ disk' = data
  /\ din' = [din EXCEPT ![f] = m.inode]
  /\ Marked(f, m.dirty)

Panics(why) ==
  /\ panic' = why
  /\ UNCHANGED <<fsvars, node, pos, call, mishap>>

Running(op) == panic = "none" /\ call.op = op
Ready(h) == Running("idle") /\ node[h] # NoFile

(***************************************************************************)
(* file_read and file_write with sfs_io_nolock                             *)
(***************************************************************************)
MAX_FILE_SIZE == 2 * BLKSIZE * (NDIRECT + NENTRY)

\* The part of the transfer that comes next, `left` whole blocks before the end.
Part(left, end) ==
  IF left > 0 THEN "body" ELSE IF end % BLKSIZE # 0 THEN "tail" ELSE "out"

StartIo(op, h, len, v) ==
  LET f == node[h]
      off == pos[h]
      end == Least(off + len, IF op = "read" THEN din[f].size ELSE MAX_FILE_SIZE)
      blkno == off \div BLKSIZE
      nblks == end \div BLKSIZE - blkno
  IN  /\ Ready(h)
      /\ call' = [op |-> op, h |-> h, f |-> f, off |-> off, len |-> len, end |-> end, v |-> v,
                  blkno |-> blkno, nblks |-> nblks, alen |-> 0, got |-> <<>>,
                  at |-> IF off >= end THEN "out"
                         ELSE IF off % BLKSIZE # 0 THEN "head" ELSE Part(nblks, end)]
      /\ mishap' = IF op = "write" /\ off > din[f].size THEN mishap \union {"stray write"} ELSE mishap
      /\ UNCHANGED <<fsvars, node, pos, panic>>

Read(h, len) == \E v \in Value : StartIo("read", h, len, v)
Write(h, len, v) == StartIo("write", h, len, v)

\* Transfer n bytes at cell c of the block that follows in the file.
Transfer(n, c, next) ==
  LET f == call.f
      m == BmapLoad(f, call.blkno)
      within == [i \in 1 .. n |-> m.disk[m.ino][c + i - 1]]
      written == [m.disk EXCEPT ![m.ino] = [i \in Cell |-> IF c <= i /\ i < c + n THEN call.v ELSE @[i]]]
      why == BmapLoadPanics(f, call.blkno)
  IN  IF why # "none" THEN Panics(why)
      ELSE IF ~m.ok THEN
        /\ Adopt(f, m, m.disk)
        /\ call' = [call EXCEPT !.at = "out"]
        /\ UNCHANGED <<node, pos, panic, mishap>>
      ELSE
        /\ Adopt(f, m, IF call.op = "write" THEN written ELSE m.disk)
        /\ call' = [call EXCEPT !.alen = @ + n, !.blkno = @ + 1, !.nblks = @ - 1, !.at = next,
                                !.got = IF call.op = "read" THEN @ \o within ELSE @]
        /\ UNCHANGED <<node, pos, panic, mishap>>

\* Where in its first block an unaligned transfer begins.
\* Mutant: it begins at the start of the block.
BlkoffForgotten(off) == 0
Blkoff(off) == off % BLKSIZE

InIo(part) == (Running("read") \/ Running("write")) /\ call.at = part

IoHead ==
  LET blkoff == Blkoff(call.off)
  IN  /\ InIo("head")
      /\ IF call.nblks # 0
         THEN Transfer(BLKSIZE - blkoff, blkoff, Part(call.nblks - 1, call.end))
         ELSE Transfer(call.end - call.off, blkoff, "out")

IoBody == InIo("body") /\ Transfer(BLKSIZE, 0, Part(call.nblks - 1, call.end))

IoTail == InIo("tail") /\ Transfer(call.end % BLKSIZE, 0, "out")

\* The end of sfs_io_nolock, which moves the size, and of file_read or file_write.
IoOut ==
  LET f == call.f
      reached == call.off + call.alen
      grows == call.end > call.off /\ reached > din[f].size
  IN  /\ InIo("out")
      /\ din' = IF grows THEN [din EXCEPT ![f].size = reached] ELSE din
      /\ Marked(f, dirty[f] \/ grows)
      /\ pos' = [pos EXCEPT ![call.h] = @ + call.alen]
      /\ call' = Idle
      /\ UNCHANGED <<freemap, unused_blocks, disk, node, panic, mishap>>

(***************************************************************************)
(* sfs_truncfile, called by sfs_tryseek to grow a file and by vfs_open to  *)
(* empty one                                                               *)
(***************************************************************************)
\* Mutant: a last block that is only partly used is not counted.
TblksDown(len) == len \div BLKSIZE
Tblks(len) == RoundUpDiv(len, BLKSIZE)

TruncateCall(h, f, len, why) ==
  [op |-> "truncate", h |-> h, f |-> f, len |-> len, why |-> why,
   nblks |-> din[f].blocks, tblks |-> Tblks(len), at |-> "loop"]

\* Nothing is done when the size is right, but the blocks are looked at.
SameSize(f, len) == din[f].size = len
BlocksFit(f, len) == Tblks(len) = din[f].blocks

TruncateGrow ==
  LET f == call.f
      m == BmapLoad(f, call.nblks)
      why == BmapLoadPanics(f, call.nblks)
  IN  /\ Running("truncate") /\ call.at = "loop" /\ call.nblks < call.tblks
      /\ IF why # "none" THEN Panics(why)
         ELSE /\ Adopt(f, m, m.disk)
              /\ call' = IF m.ok THEN [call EXCEPT !.nblks = @ + 1] ELSE [call EXCEPT !.at = "failed"]
              /\ UNCHANGED <<node, pos, panic, mishap>>

\* sfs_bmap_truncate_nolock and sfs_bmap_free_nolock: the last block goes; an
\* indirect block stays when its last entry has gone.
TruncateShrink ==
  LET f == call.f
      index == din[f].blocks - 1
      ino == BlockAt(f, index)
      freed == IF ino = NoBlock THEN {} ELSE {ino}
      direct == index < NDIRECT
  IN  /\ Running("truncate") /\ call.at = "loop" /\ call.nblks > call.tblks
      /\ IF din[f].blocks = 0 THEN Panics("din->blocks != 0")
         ELSE IF ~(freed \subseteq Block \ freemap) THEN Panics("sfs_block_inuse")
         ELSE /\ freemap' = freemap \union freed
              /\ unused_blocks' = unused_blocks + Cardinality(freed)
              /\ disk' = IF direct \/ freed = {} THEN disk
                         ELSE [disk EXCEPT ![din[f].indirect][index - NDIRECT] = NoBlock]
              /\ din' = [din EXCEPT ![f].blocks = @ - 1,
                                    ![f].direct = IF direct THEN [@ EXCEPT ![index] = NoBlock] ELSE @]
              /\ Marked(f, TRUE)
              /\ call' = [call EXCEPT !.nblks = @ - 1]
              /\ UNCHANGED <<node, pos, panic, mishap>>

TruncateResize ==
  LET f == call.f
  IN  /\ Running("truncate") /\ call.at = "loop" /\ call.nblks = call.tblks
      /\ IF din[f].blocks # call.tblks THEN Panics("din->blocks == tblks")
         ELSE /\ din' = [din EXCEPT ![f].size = call.len]
              /\ Marked(f, TRUE)
              /\ call' = [call EXCEPT !.at = "done"]
              /\ UNCHANGED <<freemap, unused_blocks, disk, node, pos, panic, mishap>>

(***************************************************************************)
(* file_open, file_close, file_dup, file_seek, file_fsync                  *)
(***************************************************************************)
\* sfs_fsync, then sfs_reclaim of an inode that no handle refers to any more:
\* the copy in memory goes, and a later load reads what the disk has.
Release(h) ==
  LET f == node[h]
      last == \A g \in Handle \ {h} : node[g] # f
      stored == IF dirty[f] THEN din[f] ELSE dinode[f]
  IN  /\ node' = [node EXCEPT ![h] = NoFile]
      /\ pos' = [pos EXCEPT ![h] = 0]
      /\ IF last THEN /\ dinode' = [dinode EXCEPT ![f] = stored]
                      /\ din' = [din EXCEPT ![f] = stored]
                      /\ dirty' = [dirty EXCEPT ![f] = FALSE]
                 ELSE UNCHANGED <<dinode, din, dirty>>

Open(h, f) ==
  /\ Running("idle") /\ node[h] = NoFile
  /\ node' = [node EXCEPT ![h] = f]
  /\ UNCHANGED <<fsvars, pos, call, panic, mishap>>

OpenAppend(h, f) ==
  /\ Running("idle") /\ node[h] = NoFile
  /\ node' = [node EXCEPT ![h] = f]
  /\ pos' = [pos EXCEPT ![h] = din[f].size]
  /\ UNCHANGED <<fsvars, call, panic, mishap>>

\* vfs_open empties the file for O_TRUNC, and for O_CREAT as well.
OpenTruncate(h, f) ==
  /\ Running("idle") /\ node[h] = NoFile
  /\ IF SameSize(f, 0) /\ ~BlocksFit(f, 0) THEN Panics("tblks == din->blocks")
     ELSE /\ node' = [node EXCEPT ![h] = f]
          /\ call' = IF SameSize(f, 0) THEN Idle ELSE TruncateCall(h, f, 0, "open")
          /\ UNCHANGED <<fsvars, pos, panic, mishap>>

OpenReturns ==
  /\ Running("truncate") /\ call.why = "open" /\ call.at = "done"
  /\ call' = Idle
  /\ UNCHANGED <<fsvars, node, pos, panic, mishap>>

Close(h) ==
  /\ Ready(h)
  /\ Release(h)
  /\ UNCHANGED <<freemap, unused_blocks, disk, call, panic, mishap>>

Dup(h, g) ==
  /\ Ready(h) /\ node[g] = NoFile
  /\ node' = [node EXCEPT ![g] = node[h]]
  /\ pos' = [pos EXCEPT ![g] = pos[h]]
  /\ UNCHANGED <<fsvars, call, panic, mishap>>

\* sfs_tryseek: a position beyond the size makes the file longer.
Seek(h, to) ==
  /\ Ready(h)
  /\ to < MAX_FILE_SIZE
  /\ IF to > din[node[h]].size
     THEN call' = TruncateCall(h, node[h], to, "seek") /\ UNCHANGED pos
     ELSE pos' = [pos EXCEPT ![h] = to] /\ UNCHANGED call
  /\ UNCHANGED <<fsvars, node, panic, mishap>>

SeekReturns ==
  /\ Running("truncate") /\ call.why = "seek" /\ call.at \in {"done", "failed"}
  /\ pos' = IF call.at = "done" THEN [pos EXCEPT ![call.h] = call.len] ELSE pos
  /\ mishap' = IF call.at = "failed" THEN mishap \union {"failed seek"} ELSE mishap
  /\ call' = Idle
  /\ UNCHANGED <<fsvars, node, panic>>

Fsync(h) ==
  LET f == node[h]
  IN  /\ Ready(h) /\ dirty[f]
      /\ dinode' = [dinode EXCEPT ![f] = din[f]]
      /\ dirty' = [dirty EXCEPT ![f] = FALSE]
      /\ UNCHANGED <<freemap, unused_blocks, disk, din, node, pos, call, panic, mishap>>

Go == IoHead \/ IoBody \/ IoTail \/ IoOut
      \/ TruncateGrow \/ TruncateShrink \/ TruncateResize \/ OpenReturns \/ SeekReturns

Next ==
  \/ Go
  \/ \E h \in Handle :
       \/ \E f \in File : Open(h, f) \/ OpenAppend(h, f) \/ OpenTruncate(h, f)
       \/ \E len \in 1 .. IOBUF_SIZE : Read(h, len) \/ \E v \in Value : Write(h, len, v)
       \/ \E to \in SeekTo : Seek(h, to)
       \/ \E g \in Handle : Dup(h, g)
       \/ Close(h)
       \/ Fsync(h)

Spec == Init /\ [][Next]_vars

(***************************************************************************)
(* Properties                                                              *)
(***************************************************************************)

\* Who a block belongs to: the entries of the inodes and of their indirect blocks.
Owners(b) ==
  {u \in File \X Index : BlockAt(u[1], u[2]) = b} \union
  {<<f, "indirect">> : f \in {g \in File : din[g].indirect = b}}

\* A block in use belongs to one place of one file, a free one to nobody, and the
\* super block's counter is the number of free blocks: whatever calls fail halfway
\* on a full disk (sfs_bmap_get_sub_nolock 201-245, sfs_truncfile 930-974).
BlocksOwned ==
  /\ \A b \in Block : Cardinality(Owners(b)) = IF b \in freemap THEN 0 ELSE 1
  /\ unused_blocks = Cardinality(freemap)

\* An inode in memory that is not marked dirty is the one on the disk, between two
\* calls, so that closing the file loses nothing (sfs.h 72, "true if inode
\* modified"); unless a seek failed halfway, after which blocks may have been
\* added through an indirect block and the mark not set.
CleanInodeOnDisk ==
  mishap = {} /\ call = Idle => \A f \in File : dirty[f] \/ din[f] = dinode[f]

\* No assertion of these paths fails, and a file has exactly the blocks of its size
\* between two calls; unless a write was made from a position that another open
\* handle's truncation left beyond the size, or a seek ran out of blocks halfway.
AssertionsHold ==
  mishap = {} =>
    /\ panic = "none"
    /\ call = Idle => \A f \in File :
         /\ din[f].blocks = RoundUpDiv(din[f].size, BLKSIZE)
         /\ \A i \in Index : i < din[f].blocks <=> BlockAt(f, i) # NoBlock

\* The files are those of FileSpec: what was written is what is read, and no other
\* file's bytes ever show.
Files == INSTANCE FileSpec WITH
  size <- [f \in File |-> din[f].size],
  byte <- [f \in File |-> [p \in Position |->
             IF BlockAt(f, p \div BLKSIZE) = NoBlock THEN 0
             ELSE disk[BlockAt(f, p \div BLKSIZE)][p % BLKSIZE]]],
  busy <- IF panic # "none" THEN [op |-> "halted"]
          ELSE IF call.op \in {"read", "write"}
          THEN [op |-> call.op, f |-> call.f, off |-> call.off, len |-> call.len, v |-> call.v]
          ELSE IF call.op = "truncate"
          THEN [op |-> "truncate", f |-> call.f, len |-> call.len] ELSE Idle,
  reply <- IF Running("read") /\ call.at = "out" THEN call.got ELSE <<>>

ImplementsFiles == Files!Spec

=============================================================================
