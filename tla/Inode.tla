--------------------------------- MODULE Inode --------------------------------
(***************************************************************************)
(* Inodes, their index blocks and the free map (filesys/inode.c and        *)
(* filesys/free-map.c): creation, growth with the roll-back of a growth    *)
(* that fails, the list of open inodes, and the release of the sectors of  *)
(* a removed inode at its last close.                                      *)
(*                                                                         *)
(* A length, an offset and a size count bytes, of which a sector has       *)
(* BLOCK_SECTOR_SIZE.  An operation is one step: this module is about what *)
(* each call does to the disk, one call at a time; calls that interleave   *)
(* are the subject of module Directory.  What a directory knows of an      *)
(* inode is whether some entry names it (linked).  The contents of data    *)
(* sectors are left out, as are those of free ones.                        *)
(***************************************************************************)
EXTENDS Integers, Sequences, FiniteSets, SequencesExt, FiniteSetsExt

CONSTANTS
  SectorCount,  \* the size of fs_device
  BLOCK_SECTOR_SIZE, \* the bytes of a sector (512)
  DIRECT,       \* the direct pointers of an inode (10)
  PER_BLOCK,    \* the pointers of an index block (128)
  MaxOpen,      \* bound: openers of one inode
  MaxLength     \* bound: the length asked for by a creation or a write

ASSUME InodeAssumption ==
  /\ SectorCount \in Nat /\ SectorCount > 1 /\ BLOCK_SECTOR_SIZE \in Nat \ {0}
  /\ DIRECT \in Nat \ {0} /\ PER_BLOCK \in Nat \ {0}
  /\ MaxOpen \in Nat \ {0} /\ MaxLength \in Nat

Sectors == 0..(SectorCount - 1)
BLOCK_SECTOR_NONE == -1
Pointers == Sectors \cup {BLOCK_SECTOR_NONE}
\* FREE_MAP_SECTOR and ROOT_DIR_SECTOR.
Reserved == {0, 1}

VARIABLES
  free_map,     \* the sectors whose bit is set
  inode_disk,   \* inode_disk[s]: the inode in sector s
  ib,           \* ib[s]: the pointers in the index block in sector s
  linked,       \* the inodes named by a directory entry
  open_inodes,  \* open_inodes[s]: the struct inode of s, if open_cnt > 0
  open_inodes_lock  \* "held" by a call that returned without releasing it

vars == <<free_map, inode_disk, ib, linked, open_inodes, open_inodes_lock>>

NoPointers == [i \in 1..PER_BLOCK |-> BLOCK_SECTOR_NONE]
EmptyInode == [length |-> 0, direct |-> [i \in 1..DIRECT |-> BLOCK_SECTOR_NONE],
               indirect |-> BLOCK_SECTOR_NONE, doubly_indirect |-> BLOCK_SECTOR_NONE]
Closed == [open_cnt |-> 0, removed |-> FALSE, data |-> EmptyInode]

\* A formatted disk.  The blocks of the free map file and of the root directory
\* do not matter here, nor does whether those two inodes are open.
Init ==
  /\ free_map = Reserved
  /\ inode_disk = [s \in Sectors |-> EmptyInode]
  /\ ib = [s \in Sectors |-> NoPointers]
  /\ linked = {}
  /\ open_inodes = [s \in Sectors |-> Closed]
  /\ open_inodes_lock = "free"

IsOpen(s) == open_inodes[s].open_cnt > 0

bytes_to_sectors(size) == (size + BLOCK_SECTOR_SIZE - 1) \div BLOCK_SECTOR_SIZE

\* byte_to_sector_unlocked with indirect_lookup and doubly_indirect_lookup;
\* blocks are the index blocks on disk.
byte_to_sector(node, blocks, pos) ==
  LET indirect_lookup(s, i) == IF s = BLOCK_SECTOR_NONE THEN s ELSE blocks[s][i + 1]
      o == pos \div BLOCK_SECTOR_SIZE
      p == o - DIRECT
      q == p - PER_BLOCK
  IN  CASE o < DIRECT -> node.direct[o + 1]
        [] o >= DIRECT /\ p < PER_BLOCK -> indirect_lookup(node.indirect, p)
        [] p >= PER_BLOCK /\ q < PER_BLOCK * PER_BLOCK ->
             indirect_lookup(indirect_lookup(node.doubly_indirect, q \div PER_BLOCK), q % PER_BLOCK)
        [] OTHER -> BLOCK_SECTOR_NONE

-------------------------------------------------------------------------------
(* inode_grow_unlocked.  A growth in progress is a record: the inode, the    *)
(* index blocks, the free map, how many data sectors are still wanted, how   *)
(* many were allocated, whether no allocation has failed, and whether the    *)
(* roll-back has returned.                                                   *)

Growth(map, node, wanted) ==
  [node |-> node, ib |-> ib, free_map |-> map, left |-> wanted, allocated |-> 0, ok |-> TRUE,
   returned |-> FALSE]

\* bitmap_scan_and_flip finds the first free sector.
Free(g) == Sectors \ g.free_map

\* How many members of a set come before x.
Rank(S, x) == Cardinality({y \in S : y < x})

\* The empty pointers of an array are filled in turn, until enough sectors are
\* allocated or one cannot be.
Fill(g, pointers) ==
  LET holes == {i \in DOMAIN pointers : pointers[i] = BLOCK_SECTOR_NONE}
      free == Free(g)
      wanted == Min({g.left, Cardinality(holes)})
      n == Min({wanted, Cardinality(free)})
      new == {x \in free : Rank(free, x) < n}
  IN  [pointers |-> [i \in DOMAIN pointers |->
                       IF i \in holes /\ Rank(holes, i) < n
                         THEN CHOOSE x \in new : Rank(new, x) = Rank(holes, i)
                         ELSE pointers[i]],
       g |-> [g EXCEPT !.free_map = @ \cup new, !.left = @ - n, !.allocated = @ + n,
                       !.ok = n = wanted]]

\* inode_indirect_allocate, unless there is such a block already: the growth
\* after it and the sector of the index block.
NewBlock(g, old) ==
  IF old # BLOCK_SECTOR_NONE THEN [g |-> g, s |-> old]
  ELSE IF Free(g) = {} THEN [g |-> [g EXCEPT !.ok = FALSE], s |-> old]
  ELSE LET s == Min(Free(g))
       IN  [g |-> [g EXCEPT !.free_map = @ \cup {s}, !.ib[s] = NoPointers], s |-> s]

\* The pointers in the index block in sector s are filled.
FillBlock(g, s) ==
  LET f == Fill(g, g.ib[s]) IN [f.g EXCEPT !.ib[s] = f.pointers]

\* Is there more to do?
Going(g) == g.ok /\ g.left > 0

GrowDirect(g) ==
  LET f == Fill(g, g.node.direct) IN [f.g EXCEPT !.node.direct = f.pointers]

GrowIndirect(g) ==
  LET b == NewBlock(g, g.node.indirect)
  IN  IF b.g.ok THEN FillBlock([b.g EXCEPT !.node.indirect = b.s], b.s) ELSE b.g

\* The i-th block under the doubly indirect block.
GrowEntry(g, i) ==
  LET dib == g.node.doubly_indirect
      b == NewBlock(g, g.ib[dib][i])
  IN  IF b.g.ok THEN FillBlock([b.g EXCEPT !.ib[dib][i] = b.s], b.s) ELSE b.g

GrowDoubly(g) ==
  LET b == NewBlock(g, g.node.doubly_indirect)
  IN  IF b.g.ok
        THEN FoldLeft(LAMBDA x, i : IF Going(x) THEN GrowEntry(x, i) ELSE x,
                      [b.g EXCEPT !.node.doubly_indirect = b.s], [i \in 1..PER_BLOCK |-> i])
        ELSE b.g

\* The allocation, up to the label fail.
Grow(map, node, sectors) ==
  LET g == Growth(map, node, sectors)
      direct == IF Going(g) THEN GrowDirect(g) ELSE g
      indirect == IF Going(direct) THEN GrowIndirect(direct) ELSE direct
  IN  IF Going(indirect) THEN GrowDoubly(indirect) ELSE indirect

(* The label fail: what was allocated is released, from the highest pointer  *)
(* down, until allocated is 0 again.                                         *)

Release(g, S) == [g EXCEPT !.free_map = @ \ S,
                           !.ib = [s \in Sectors |-> IF s \in S THEN NoPointers ELSE @[s]]]

\* Mutant: the lowest pointers are released.
MutDrainLowest(g, pointers) ==
  LET used == {i \in DOMAIN pointers : pointers[i] # BLOCK_SECTOR_NONE}
      n == Min({g.allocated, Cardinality(used)})
      dropped == {i \in used : Rank(used, i) < n}
  IN  [pointers |-> [i \in DOMAIN pointers |->
                       IF i \in dropped THEN BLOCK_SECTOR_NONE ELSE pointers[i]],
       g |-> [Release(g, {pointers[i] : i \in dropped}) EXCEPT !.allocated = @ - n],
       last |-> n > 0 /\ n = g.allocated,
       kept |-> n > 0 /\ n = g.allocated /\ 1 \notin dropped]

\* The highest pointers of an array are released, as many as are to be.
Drain(g, pointers) ==
  LET used == {i \in DOMAIN pointers : pointers[i] # BLOCK_SECTOR_NONE}
      n == Min({g.allocated, Cardinality(used)})
      dropped == {i \in used : Rank(used, i) >= Cardinality(used) - n}
  IN  [pointers |-> [i \in DOMAIN pointers |->
                       IF i \in dropped THEN BLOCK_SECTOR_NONE ELSE pointers[i]],
       g |-> [Release(g, {pointers[i] : i \in dropped}) EXCEPT !.allocated = @ - n],
       \* The last one that was to be released is in this array...
       last |-> n > 0 /\ n = g.allocated,
       \* ... and is not its first: the array's block is kept.
       kept |-> n > 0 /\ n = g.allocated /\ 1 \notin dropped]

\* The pointers in the index block in sector s are drained; the block is
\* released too, unless it is kept.
DrainBlock(g, s) ==
  LET d == Drain(g, g.ib[s])
      h == [d.g EXCEPT !.returned = d.last]
  IN  IF d.kept THEN [h EXCEPT !.ib[s] = d.pointers] ELSE Release(h, {s})

\* The pointer to the index block in sector s, after the block was drained.
PointerTo(g, s) == IF s \in g.free_map THEN s ELSE BLOCK_SECTOR_NONE

\* The i-th block under the doubly indirect block.
UndoEntry(g, i) ==
  LET dib == g.node.doubly_indirect
      s == g.ib[dib][i]
      h == DrainBlock(g, s)
  IN  IF g.returned \/ g.allocated = 0 \/ s = BLOCK_SECTOR_NONE THEN g
      ELSE [h EXCEPT !.ib[dib][i] = PointerTo(h, s)]

\* Having returned in the loop, the doubly indirect block is released only with
\* its first entry; having left the loop, in any case.
UndoDoubly(g) ==
  LET dib == g.node.doubly_indirect
      h == FoldLeft(UndoEntry, g, [i \in 1..PER_BLOCK |-> PER_BLOCK + 1 - i])
  IN  IF dib = BLOCK_SECTOR_NONE THEN g
      ELSE IF h.returned /\ h.ib[dib][1] # BLOCK_SECTOR_NONE THEN h
      ELSE [Release(h, {dib}) EXCEPT !.node.doubly_indirect = BLOCK_SECTOR_NONE]

\* Mutant: the indirect block is forgotten.
MutNoUndoIndirect(g) == g

UndoIndirect(g) ==
  IF g.returned \/ g.node.indirect = BLOCK_SECTOR_NONE THEN g
  ELSE LET s == g.node.indirect
           h == DrainBlock(g, s)
       IN  [h EXCEPT !.node.indirect = PointerTo(h, s)]

UndoDirect(g) ==
  IF g.returned THEN g
  ELSE LET d == Drain(g, g.node.direct) IN [d.g EXCEPT !.node.direct = d.pointers]

Undo(g) == [UndoDirect(UndoIndirect(UndoDoubly(g))) EXCEPT !.ok = FALSE]

\* inode_grow_unlocked from a free map: ok says whether it succeeded.
inode_grow(map, node, sectors) ==
  LET g == Grow(map, node, sectors) IN IF g.ok /\ g.left = 0 THEN g ELSE Undo(g)

-------------------------------------------------------------------------------
(* The operations.                                                           *)

\* Every sector below an inode.
Blocks(node, blocks) ==
  LET below(s) == IF s = BLOCK_SECTOR_NONE THEN {} ELSE Range(blocks[s])
      indices == {node.indirect} \cup below(node.doubly_indirect)
  IN  (Range(node.direct) \cup {node.doubly_indirect} \cup indices
        \cup UNION {below(s) : s \in indices}) \ {BLOCK_SECTOR_NONE}

\* inode_create: an inode of some length is an empty one that has grown to it.
inode_create(map, length) ==
  inode_grow(map, [EmptyInode EXCEPT !.length = length], bytes_to_sectors(length))

\* filesys_create: a sector for the inode, inode_create and dir_add.  added:
\* there is no such name yet and the entry could be written.  When something
\* fails, the sector of the inode is released.  The directory has been opened.
filesys_create(size, added) ==
  LET s == Min(Sectors \ free_map) IN
    /\ open_inodes_lock = "free"
    /\ Sectors \ free_map # {}
    /\ \E g \in {inode_create(free_map \cup {s}, size)} :
         LET ok == g.ok /\ added
         IN  /\ free_map' = IF ok THEN g.free_map ELSE g.free_map \ {s}
             /\ ib' = g.ib
             /\ inode_disk' = IF ok THEN [inode_disk EXCEPT ![s] = g.node] ELSE inode_disk
             /\ linked' = IF ok THEN linked \cup {s} ELSE linked
    /\ UNCHANGED <<open_inodes, open_inodes_lock>>

\* inode_open of an inode found in a directory.
inode_open(s) ==
  /\ open_inodes_lock = "free"
  /\ s \in linked /\ open_inodes[s].open_cnt < MaxOpen
  /\ open_inodes' = [open_inodes EXCEPT ![s] =
       IF IsOpen(s) THEN [@ EXCEPT !.open_cnt = @ + 1]
       ELSE [open_cnt |-> 1, removed |-> FALSE, data |-> inode_disk[s]]]
  /\ UNCHANGED <<free_map, inode_disk, ib, linked, open_inodes_lock>>

\* When malloc fails, inode_open returns NULL with open_inodes_lock held: from
\* then on nobody gets past it.
inode_open_fails(s) ==
  /\ open_inodes_lock = "free"
  /\ s \in linked /\ ~IsOpen(s)
  /\ open_inodes_lock' = "held"
  /\ UNCHANGED <<free_map, inode_disk, ib, linked, open_inodes>>

\* inode_reopen by a caller that has the inode open: open_inodes_lock is not
\* taken.
inode_reopen(s) ==
  /\ IsOpen(s) /\ open_inodes[s].open_cnt < MaxOpen
  /\ open_inodes' = [open_inodes EXCEPT ![s].open_cnt = @ + 1]
  /\ UNCHANGED <<free_map, inode_disk, ib, linked, open_inodes_lock>>

\* The deallocation of a removed inode at its last close, with
\* inode_indirect_close.
Deallocate(s, node) ==
  LET gone == Blocks(node, ib) \cup {s}
  IN  /\ free_map' = free_map \ gone
      /\ ib' = [x \in Sectors |-> IF x \in gone THEN NoPointers ELSE ib[x]]
      /\ inode_disk' = [inode_disk EXCEPT ![s] = EmptyInode]

inode_close(s) ==
  LET inode == open_inodes[s]
  IN  /\ open_inodes_lock = "free" /\ IsOpen(s)
      /\ open_inodes' = [open_inodes EXCEPT ![s] =
           IF inode.open_cnt = 1 THEN Closed ELSE [@ EXCEPT !.open_cnt = @ - 1]]
      /\ IF inode.open_cnt = 1 /\ inode.removed
           THEN Deallocate(s, inode.data)
           ELSE UNCHANGED <<free_map, inode_disk, ib>>
      /\ UNCHANGED <<linked, open_inodes_lock>>

inode_remove(inode) == [inode EXCEPT !.removed = TRUE]

\* dir_remove of a file: the inode is opened, the entry erased, inode_remove
\* called and the inode closed, which is the last close if nobody has it open.
dir_remove(s) ==
  /\ open_inodes_lock = "free" /\ s \in linked
  /\ linked' = linked \ {s}
  /\ IF IsOpen(s)
       THEN /\ open_inodes' = [open_inodes EXCEPT ![s] = inode_remove(@)]
            /\ UNCHANGED <<free_map, inode_disk, ib>>
       ELSE /\ Deallocate(s, inode_disk[s])
            /\ UNCHANGED open_inodes
  /\ UNCHANGED open_inodes_lock

\* The growth that a write up to some position asks for.
GrowthTo(inode, end) ==
  inode_grow(free_map, inode.data, bytes_to_sectors(end) - bytes_to_sectors(inode.data.length))

\* Mutant: the length is set before the growth.
MutLengthFirst(s, end) ==
  LET inode == open_inodes[s]
      g == GrowthTo(inode, end)
      node == [g.node EXCEPT !.length = end]
  IN  /\ IsOpen(s) /\ end > inode.data.length
      /\ open_inodes' = [open_inodes EXCEPT ![s].data = node]
      /\ inode_disk' = [inode_disk EXCEPT ![s] = node]
      /\ free_map' = g.free_map
      /\ ib' = g.ib
      /\ UNCHANGED <<linked, open_inodes_lock>>

\* Mutant: the grown inode is not written to disk.
MutNoSave(s, end) ==
  LET inode == open_inodes[s]
      g == GrowthTo(inode, end)
  IN  /\ IsOpen(s) /\ end > inode.data.length
      /\ open_inodes' = [open_inodes EXCEPT ![s].data =
           IF g.ok THEN [g.node EXCEPT !.length = end] ELSE g.node]
      /\ free_map' = g.free_map
      /\ ib' = g.ib
      /\ UNCHANGED <<inode_disk, linked, open_inodes_lock>>

\* inode_write_at of bytes up to end, beyond the end of the file; nothing is
\* allocated when end lies in the last sector of the file.  A growth that fails
\* has changed the inode in memory, and the index blocks on disk.  Writes within
\* the file, and those that deny_write_cnt turns away, change nothing that is
\* modelled.
inode_write_at(s, end) ==
  LET inode == open_inodes[s] IN
    /\ IsOpen(s) /\ end > inode.data.length
    /\ \E g \in {GrowthTo(inode, end)} :
         LET node == IF g.ok THEN [g.node EXCEPT !.length = end] ELSE g.node
         IN  /\ open_inodes' = [open_inodes EXCEPT ![s].data = node]
             /\ inode_disk' = IF g.ok THEN [inode_disk EXCEPT ![s] = node] ELSE inode_disk
             /\ free_map' = g.free_map
             /\ ib' = g.ib
    /\ UNCHANGED <<linked, open_inodes_lock>>

Next ==
  \/ \E size \in 0..MaxLength, added \in BOOLEAN : filesys_create(size, added)
  \/ \E s \in Sectors :
       \/ inode_open(s) \/ inode_open_fails(s) \/ inode_reopen(s) \/ inode_close(s)
       \/ dir_remove(s)
       \/ \E end \in 1..MaxLength : inode_write_at(s, end)

Spec == Init /\ [][Next]_vars

-------------------------------------------------------------------------------
(* Properties.                                                               *)

InodeType == [length : Nat, direct : [1..DIRECT -> Pointers],
              indirect : Pointers, doubly_indirect : Pointers]

TypeOK ==
  /\ free_map \subseteq Sectors /\ linked \subseteq Sectors
  /\ ib \in [Sectors -> [1..PER_BLOCK -> Pointers]]
  /\ open_inodes_lock \in {"free", "held"}
  /\ \A s \in Sectors :
       /\ inode_disk[s] \in InodeType
       /\ open_inodes[s] \in [open_cnt : 0..MaxOpen, removed : BOOLEAN, data : InodeType]

\* The inodes that exist, and what each of them consists of: an open inode is
\* its copy in memory.
Inodes == linked \cup {s \in Sectors : IsOpen(s)}
Data(s) == IF IsOpen(s) THEN open_inodes[s].data ELSE inode_disk[s]

\* The sectors below the inodes, and the number of pointers in inodes and index
\* blocks.
Used == UNION {Blocks(Data(s), ib) : s \in Inodes}
PointerCount ==
  LET set(pointer) == pointer # BLOCK_SECTOR_NONE
  IN  Cardinality({<<s, i>> \in Inodes \X (1..DIRECT) : set(Data(s).direct[i])})
        + Cardinality({s \in Inodes : set(Data(s).indirect)})
        + Cardinality({s \in Inodes : set(Data(s).doubly_indirect)})
        + Cardinality({<<b, i>> \in Used \X (1..PER_BLOCK) : set(ib[b][i])})

\* Every sector marked in the free map is reserved, an inode, or belongs to
\* exactly one place of exactly one inode, and every sector an inode uses is
\* marked: nothing leaks, nothing is shared, nothing in use can be handed out
\* again - also after failed growths, and for removed files still open
\* (free_map_allocate, free_map_release and all their callers in inode.c).
SectorsAccounted ==
  /\ TypeOK
  /\ free_map = Reserved \cup Inodes \cup Used
  /\ Used \cap (Reserved \cup Inodes) = {}
  /\ PointerCount = Cardinality(Used)

\* byte_to_sector finds a sector exactly for the positions below the length of
\* the inode, rounded up to whole sectors: inode_read_at stops at the end of the
\* file and not before, and the assertion in inode_write_at holds.
CoversUpTo(node, end) ==
  \A pos \in 0..MaxLength : byte_to_sector(node, ib, pos) # BLOCK_SECTOR_NONE <=> pos < end
Covers ==
  \A s \in Inodes : CoversUpTo(Data(s), BLOCK_SECTOR_SIZE * bytes_to_sectors(Data(s).length))

\* The inode on disk is the one in memory: a later inode_open, and the re-reads
\* in inode_file_cnt and inode_update_file_cnt, do not lose a growth or revive
\* what a failed growth undid.
DiskCoherent == \A s \in Sectors : IsOpen(s) => inode_disk[s] = open_inodes[s].data

\* No step moves or truncates what an inode holds, as long as the inode is
\* there: neither its own growth, failed or not, nor anything done to others.
DataStays ==
  [][\A s \in Inodes : s \in Inodes' =>
       \A pos \in 0..(Data(s).length - 1) :
         byte_to_sector(Data(s), ib, pos) = byte_to_sector(Data(s)', ib', pos)]_vars
===============================================================================
