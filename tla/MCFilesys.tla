------------------------------- MODULE MCFilesys ------------------------------
(***************************************************************************)
(* Instances of the two modules of the file system above the buffer cache, *)
(* Inode and Directory: part says which of them a behaviour is of, and the *)
(* other stays as it is.                                                   *)
(*                                                                         *)
(* one file: one file, of any length up to the largest and beyond.         *)
(* two files: two files of whole sectors, on a disk on which two others    *)
(* have been created that nobody uses.                                     *)
(* directory: Directory.                                                   *)
(***************************************************************************)
EXTENDS Inode, TLC

CONSTANTS Procs, Names, DirSectors, MaxEntries, MaxLost, MaxRootOpen, Parts,
          MaxInodes   \* bound: files that exist at the same time, the others not counted

VARIABLES part, map, inode, open_cnt, removed, cwd, file, fault, pc, call

Dir == INSTANCE Directory WITH SectorCount <- DirSectors, free_map <- map

dir_vars == <<map, inode, open_cnt, removed, cwd, file, fault, pc, call>>

\* The sectors of two files created first, of no sector and of one.
Others == {2, 3}
InitOthers ==
  /\ free_map = Reserved \cup {2, 3, 4}
  /\ inode_disk = [s \in Sectors |->
       IF s = 3 THEN [EmptyInode EXCEPT !.length = BLOCK_SECTOR_SIZE, !.direct[1] = 4] ELSE EmptyInode]
  /\ ib = [s \in Sectors |-> NoPointers]
  /\ linked = Others
  /\ open_inodes = [s \in Sectors |-> Closed]
  /\ open_inodes_lock = "free"

MCInit == part \in Parts /\ (IF part = "two files" THEN InitOthers ELSE Init) /\ Dir!Init

\* A growth of s fails before it has allocated a sector for data, when there are
\* index blocks already: it has no room for a single sector.
Barren(s) ==
  LET node == open_inodes[s].data
  IN  node.indirect # BLOCK_SECTOR_NONE /\ Grow(free_map, node, 1).left > 0

\* Bound: one of two files is longer than its direct pointers reach.
Small(length) == length <= DIRECT * BLOCK_SECTOR_SIZE
Room(s, length) ==
  part = "two files" =>
    /\ length % BLOCK_SECTOR_SIZE = 0
    /\ Small(length) \/ \A x \in Inodes \ {s} : Small(Data(x).length)

\* Bound: the openers of all files together are as many as one file may have.
Openers == MapThenSumSet(LAMBDA s : open_inodes[s].open_cnt, Inodes)

\* The files in use.
Users == IF part = "one file" THEN Inodes ELSE Inodes \ Others

\* Files that are created are new, and no growth is a barren one.
OrderlyInode ==
  \/ /\ Cardinality(Users) < (IF part = "one file" THEN 1 ELSE MaxInodes)
     /\ \E size \in 0..MaxLength, added \in BOOLEAN :
          /\ added \/ size = 0
          /\ Room(BLOCK_SECTOR_NONE, size)
          /\ filesys_create(size, added)
  \/ Openers < MaxOpen /\ \E s \in Users : inode_open(s) \/ inode_reopen(s)
  \/ part = "one file" /\ \E s \in Users : inode_open_fails(s)
  \/ \E s \in Users :
       \/ inode_close(s) \/ dir_remove(s)
       \/ /\ IsOpen(s)
          /\ LET length == open_inodes[s].data.length
                 end == IF Barren(s) THEN BLOCK_SECTOR_SIZE * bytes_to_sectors(length) ELSE MaxLength
             IN  \E e \in (length + 1)..end : Room(s, e) /\ inode_write_at(s, e)

\* One call at a time, and nobody removes the directory another process is in.
\* Bounds: the root directory can grow, and one file is open at a time.
OrderlyDirectory ==
  \E p \in Procs :
    \/ \E op \in Dir!Ops, dir \in Dir!Sectors, name \in Names :
         /\ \A q \in Procs : pc[q] = "idle" /\ (op = "open" => file[q] = Dir!NoSector)
         /\ op = "remove" => \A q \in Procs \ {p}, i \in DOMAIN inode[dir].entries :
              inode[dir].entries[i].name = name => inode[dir].entries[i].sector # cwd[q]
         /\ Dir!Start(p, op, dir, name)
    \/ Dir!Step(p) /\ inode'[Dir!ROOT_DIR_SECTOR].lost = 0

OrderlyNext ==
  /\ \/ part # "directory" /\ OrderlyInode /\ UNCHANGED dir_vars
     \/ part = "directory" /\ OrderlyDirectory /\ UNCHANGED vars
  /\ UNCHANGED part

OrderlySpec == MCInit /\ [][OrderlyNext]_<<part, vars, dir_vars>>

\* One call of a directory at a time, whatever it removes.
SerialNext ==
  /\ \E p \in Procs :
       \/ \E op \in Dir!Ops, dir \in Dir!Sectors, name \in Names :
            (\A q \in Procs : pc[q] = "idle") /\ Dir!Start(p, op, dir, name)
       \/ Dir!Step(p)
  /\ UNCHANGED <<part, vars>>

SerialSpec == MCInit /\ [][SerialNext]_<<part, vars, dir_vars>>

\* Everything the code can do.
FreeNext ==
  /\ \/ part # "directory" /\ Next /\ UNCHANGED dir_vars
     \/ part = "directory" /\ Dir!Next /\ UNCHANGED vars
  /\ UNCHANGED part

FreeSpec == MCInit /\ [][FreeNext]_<<part, vars, dir_vars>>

Symmetry == Permutations(Procs) \cup Permutations(Names)

\* No two entries of a directory have the same name.
NamesUnique == Dir!NamesUnique

\* No process is in a directory that has been removed.
CwdNotRemoved == Dir!CwdNotRemoved

\* Entries, inodes and file counts agree.
EntriesExact == Dir!EntriesExact

\* No sector leaks, and nothing in use is free.
SpaceExact == Dir!SpaceExact
===============================================================================
