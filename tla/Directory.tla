------------------------------- MODULE Directory ------------------------------
(***************************************************************************)
(* Directories (filesys/directory.c, filesys/filesys.c): what processes    *)
(* that create, open, remove and enter files and directories do to the     *)
(* directory entries, to the free map and to the inodes they open.         *)
(*                                                                         *)
(* A path is one name below the root directory or below the current        *)
(* directory; dir_walk along a longer one repeats the same look-up.  Every *)
(* access to an inode is protected by that inode's lock, but a call makes  *)
(* several, and nothing protects the free map between the test of a bit    *)
(* and its setting, so other processes run between the steps of a call.    *)
(* Files and directories are created with initial size 0; the sectors      *)
(* below an inode are the subject of module Inode.                         *)
(***************************************************************************)
EXTENDS Integers, Sequences, FiniteSets, SequencesExt, FiniteSetsExt

CONSTANTS
  Procs,        \* the processes
  Names,        \* the file names
  SectorCount,  \* the size of fs_device
  MaxEntries,   \* bound: the entries of a directory
  MaxLost,      \* bound: the entries of a directory that could not be written
  MaxRootOpen   \* bound: openers of the root directory

ROOT_DIR_SECTOR == 1
Sectors == 1..(SectorCount - 1)
Unused == "unused"
NoSector == 0

VARIABLES
  free_map,   \* the sectors whose bit is set
  inode,      \* inode[s]: is_dir, parent, file_cnt and the entries; and lost,
              \* how often an entry could not be written (not in the code)
  open_cnt,   \* open_cnt[s]: in struct inode, 0 when s is not open
  removed,    \* removed[s]: in struct inode
  cwd,        \* cwd[p]: in struct thread
  file,       \* file[p]: the file p has open, or NoSector
  fault,      \* an assertion failed, or a null pointer was used
  pc,         \* pc[p]: the step p is at, "idle" between calls
  call        \* call[p]: its call and the call's local variables

vars == <<free_map, inode, open_cnt, removed, cwd, file, fault, pc, call>>

NewInode(is_dir, parent) ==
  [is_dir |-> is_dir, parent |-> parent, file_cnt |-> 0, entries |-> <<>>, lost |-> 0]
NoCall == [op |-> "none", dir |-> NoSector, name |-> Unused, sector |-> NoSector, ofs |-> 0]

Init ==
  /\ free_map = {ROOT_DIR_SECTOR}
  /\ inode = [s \in Sectors |-> NewInode(s = ROOT_DIR_SECTOR, ROOT_DIR_SECTOR)]
  /\ open_cnt = [s \in Sectors |-> 0]
  /\ removed = [s \in Sectors |-> FALSE]
  /\ cwd = [p \in Procs |-> ROOT_DIR_SECTOR]
  /\ file = [p \in Procs |-> NoSector]
  /\ fault = FALSE
  /\ pc = [p \in Procs |-> "idle"]
  /\ call = [p \in Procs |-> NoCall]

\* lookup: the entry of a directory with some name, or 0.
lookup(dir, name) ==
  LET found == {i \in DOMAIN inode[dir].entries : inode[dir].entries[i].name = name}
  IN  IF found = {} THEN 0 ELSE Min(found)

inode_open(s) == open_cnt' = [open_cnt EXCEPT ![s] = @ + 1]

\* inode_close of some inodes: what a removed one occupies is released by the
\* last close.  free_map_release (x) for every x of freed is part of the step.
inode_close(S, freed) ==
  LET gone == {s \in S : open_cnt[s] = 1 /\ removed[s]}
  IN  /\ open_cnt' = [s \in Sectors |-> IF s \in S THEN open_cnt[s] - 1 ELSE open_cnt[s]]
      /\ removed' = [s \in Sectors |-> removed[s] /\ s \notin gone]
      /\ free_map' = free_map \ (gone \cup freed)

Goto(p, l) == pc' = [pc EXCEPT ![p] = l]

\* The call is over.
Done(p) == pc' = [pc EXCEPT ![p] = "idle"] /\ call' = [call EXCEPT ![p] = NoCall]

\* filesys_create, filesys_remove, filesys_open and filesys_chdir all begin by
\* opening the root directory or the current directory.
Start(p, op, dir, name) ==
  /\ pc[p] = "idle"
  /\ dir \in {ROOT_DIR_SECTOR, cwd[p]} /\ inode[dir].is_dir
  /\ op = "open" => file[p] = NoSector
  /\ inode_open(dir)
  /\ call' = [call EXCEPT ![p] = [NoCall EXCEPT !.op = op, !.dir = dir, !.name = name]]
  /\ Goto(p, IF op \in {"create", "mkdir"} THEN "scan" ELSE "find")
  /\ UNCHANGED <<free_map, inode, removed, cwd, file, fault>>

\* dir_open_cwd returns NULL when the current directory was removed and its
\* sector holds a file by now.  filesys_create returns false then; the others
\* go on to ASSERT (dir != NULL) in dir_lookup or dir_remove, and to the inode of
\* a null directory for "..".
StartNowhere(p) ==
  /\ pc[p] = "idle" /\ ~inode[cwd[p]].is_dir
  /\ fault' = TRUE
  /\ UNCHANGED <<free_map, inode, open_cnt, removed, cwd, file, pc, call>>

-------------------------------------------------------------------------------
(* filesys_create.                                                           *)

\* bitmap_scan in free_map_allocate.
scan(p) ==
  LET free == Sectors \ free_map
  IN  /\ pc[p] = "scan"
      /\ IF free = {}
           THEN Done(p) /\ inode_close({call[p].dir}, {})
           ELSE /\ call' = [call EXCEPT ![p].sector = Min(free)]
                /\ Goto(p, "flip")
                /\ UNCHANGED <<free_map, open_cnt, removed>>
      /\ UNCHANGED <<inode, cwd, file, fault>>

\* bitmap_set_multiple in free_map_allocate, and inode_create.
flip(p) ==
  /\ pc[p] = "flip"
  /\ free_map' = free_map \cup {call[p].sector}
  /\ inode' = [inode EXCEPT ![call[p].sector] = NewInode(call[p].op = "mkdir", call[p].dir)]
  /\ Goto(p, "add")
  /\ UNCHANGED <<open_cnt, removed, cwd, file, fault, call>>

\* The look-up in dir_add: a name in use makes the creation fail, and the
\* sector is released.
add(p) ==
  LET c == call[p]
  IN  /\ pc[p] = "add"
      /\ IF lookup(c.dir, c.name) # 0
           THEN Done(p) /\ inode_close({c.dir}, {c.sector})
           ELSE Goto(p, "slot") /\ UNCHANGED <<free_map, open_cnt, removed, call>>
      /\ UNCHANGED <<inode, cwd, file, fault>>

\* dir_add looks for a slot that is not in use, or the end of the directory.
slot(p) ==
  LET ofs == lookup(call[p].dir, Unused)
      end == Len(inode[call[p].dir].entries) + 1
  IN  /\ pc[p] = "slot"
      /\ call' = [call EXCEPT ![p].ofs = IF ofs = 0 THEN end ELSE ofs]
      /\ Goto(p, "write")
      /\ UNCHANGED <<free_map, inode, open_cnt, removed, cwd, file, fault>>

\* dir_add writes the entry.  Bound: a directory has MaxEntries entries.
write(p) ==
  LET c == call[p]
      e == [name |-> c.name, sector |-> c.sector]
  IN  /\ pc[p] = "write" /\ c.ofs <= MaxEntries
      /\ inode' = [inode EXCEPT ![c.dir].entries =
           IF c.ofs <= Len(@) THEN [@ EXCEPT ![c.ofs] = e] ELSE Append(@, e)]
      /\ Goto(p, "count")
      /\ UNCHANGED <<free_map, open_cnt, removed, cwd, file, fault, call>>

\* An entry beyond the end cannot be written when the directory cannot grow.
\* Bound: MaxLost.
write_fails(p) ==
  LET c == call[p]
  IN  /\ pc[p] = "write" /\ c.ofs > Len(inode[c.dir].entries)
      /\ inode[c.dir].lost < MaxLost
      /\ inode' = [inode EXCEPT ![c.dir].lost = @ + 1]
      /\ Goto(p, "count failed")
      /\ UNCHANGED <<free_map, open_cnt, removed, cwd, file, fault, call>>

\* inode_update_file_cnt in dir_add, whether or not the entry was written; if
\* not, filesys_create releases the sector of the inode; and dir_close.
count(p) ==
  LET c == call[p]
  IN  /\ pc[p] \in {"count", "count failed"}
      /\ inode' = [inode EXCEPT ![c.dir].file_cnt = @ + 1]
      /\ inode_close({c.dir}, IF pc[p] = "count" THEN {} ELSE {c.sector})
      /\ Done(p)
      /\ UNCHANGED <<cwd, file, fault>>

-------------------------------------------------------------------------------
(* filesys_remove, filesys_open, filesys_chdir.                              *)

\* The look-up of the name, in dir_remove or dir_lookup.
find(p) ==
  LET c == call[p]
      ofs == lookup(c.dir, c.name)
  IN  /\ pc[p] = "find"
      /\ IF ofs = 0
           THEN Done(p) /\ inode_close({c.dir}, {})
           ELSE /\ call' = [call EXCEPT ![p].ofs = ofs,
                                        ![p].sector = inode[c.dir].entries[ofs].sector]
                /\ Goto(p, "inode")
                /\ UNCHANGED <<free_map, open_cnt, removed>>
      /\ UNCHANGED <<inode, cwd, file, fault>>

\* inode_open of the sector found, whatever happened to it since.
found(p) ==
  /\ pc[p] = "inode"
  /\ inode_open(call[p].sector)
  /\ Goto(p, call[p].op)
  /\ UNCHANGED <<free_map, inode, removed, cwd, file, fault, call>>

\* filesys_open: dir_close and file_open.
open(p) ==
  /\ pc[p] = "open"
  /\ file' = [file EXCEPT ![p] = call[p].sector]
  /\ inode_close({call[p].dir}, {})
  /\ Done(p)
  /\ UNCHANGED <<inode, cwd, fault>>

\* filesys_chdir: the end of dir_walk, and dir_close of both directories.
chdir(p) ==
  LET s == call[p].sector
  IN  /\ pc[p] = "chdir"
      /\ cwd' = IF inode[s].is_dir THEN [cwd EXCEPT ![p] = s] ELSE cwd
      /\ inode_close({call[p].dir, s}, {})
      /\ Done(p)
      /\ UNCHANGED <<inode, file, fault>>

\* Mutant: a directory need not be empty.
MutRemovesFull(p, s) ==
  inode[s].is_dir => open_cnt[s] = 1 /\ s # ROOT_DIR_SECTOR /\ s # cwd[p]

\* dir_remove refuses a directory that is not empty, is open somewhere else,
\* is the root or is the current directory of the caller.
MayRemove(p, s) ==
  inode[s].is_dir => /\ inode[s].file_cnt = 0
                     /\ open_cnt[s] = 1
                     /\ s # ROOT_DIR_SECTOR /\ s # cwd[p]

remove(p) ==
  LET c == call[p]
  IN  /\ pc[p] = "remove"
      /\ IF MayRemove(p, c.sector)
           THEN Goto(p, "erase") /\ UNCHANGED <<free_map, open_cnt, removed, call>>
           ELSE Done(p) /\ inode_close({c.dir, c.sector}, {})
      /\ UNCHANGED <<inode, cwd, file, fault>>

\* dir_remove writes the entry, not in use any more.
erase(p) ==
  LET c == call[p]
  IN  /\ pc[p] = "erase" /\ c.ofs <= Len(inode[c.dir].entries)
      /\ inode' = [inode EXCEPT ![c.dir].entries[c.ofs] = [name |-> Unused, sector |-> c.sector]]
      /\ Goto(p, "mark")
      /\ UNCHANGED <<free_map, open_cnt, removed, cwd, file, fault, call>>

\* inode_remove.
mark(p) ==
  /\ pc[p] = "mark"
  /\ removed' = [removed EXCEPT ![call[p].sector] = TRUE]
  /\ Goto(p, "uncount")
  /\ UNCHANGED <<free_map, inode, open_cnt, cwd, file, fault, call>>

\* Mutant: the count of files is left as it is.
MutNoUncount(p) ==
  /\ pc[p] = "uncount"
  /\ inode_close({call[p].dir, call[p].sector}, {})
  /\ Done(p)
  /\ UNCHANGED <<inode, cwd, file, fault>>

\* inode_update_file_cnt in dir_remove, inode_close and dir_close.
uncount(p) ==
  /\ pc[p] = "uncount"
  /\ inode' = [inode EXCEPT ![call[p].dir].file_cnt = @ - 1]
  /\ inode_close({call[p].dir, call[p].sector}, {})
  /\ Done(p)
  /\ UNCHANGED <<cwd, file, fault>>

-------------------------------------------------------------------------------
\* file_close.
close(p) ==
  /\ pc[p] = "idle" /\ file[p] # NoSector
  /\ file' = [file EXCEPT ![p] = NoSector]
  /\ inode_close({file[p]}, {})
  /\ UNCHANGED <<inode, cwd, fault, pc, call>>

\* filesys_chdir to the parent of the current directory, if that is one.
chdir_up(p) ==
  LET dir == inode[cwd[p]].parent
  IN  /\ pc[p] = "idle" /\ inode[cwd[p]].is_dir /\ inode[dir].is_dir
      /\ cwd' = [cwd EXCEPT ![p] = dir]
      /\ UNCHANGED <<free_map, inode, open_cnt, removed, file, fault, pc, call>>

\* filesys_chdir to the root, which is opened and not closed again.
chdir_root(p) ==
  /\ pc[p] = "idle" /\ open_cnt[ROOT_DIR_SECTOR] < MaxRootOpen
  /\ inode_open(ROOT_DIR_SECTOR)
  /\ cwd' = [cwd EXCEPT ![p] = ROOT_DIR_SECTOR]
  /\ UNCHANGED <<free_map, inode, removed, file, fault, pc, call>>

Step(p) ==
  \/ scan(p) \/ flip(p) \/ add(p) \/ slot(p) \/ write(p) \/ write_fails(p) \/ count(p)
  \/ find(p) \/ found(p) \/ open(p) \/ chdir(p)
  \/ remove(p) \/ erase(p) \/ mark(p) \/ uncount(p)
  \/ close(p) \/ chdir_up(p) \/ chdir_root(p)

Ops == {"create", "mkdir", "remove", "open", "chdir"}

Next ==
  /\ ~fault
  /\ \E p \in Procs :
       \/ \E op \in Ops, dir \in Sectors, name \in Names : Start(p, op, dir, name)
       \/ StartNowhere(p)
       \/ Step(p)

Spec == Init /\ [][Next]_vars

-------------------------------------------------------------------------------
(* Properties.                                                               *)

\* The directories that are there, and their entries in use.
Dirs == {d \in free_map : inode[d].is_dir /\ ~removed[d]}
InUse(d) == {i \in DOMAIN inode[d].entries : inode[d].entries[i].name # Unused}
Entries == {<<d, i>> \in Dirs \X (1..MaxEntries) : i \in InUse(d)}
Target(e) == inode[e[1]].entries[e[2]].sector

\* No call is in progress.
Quiet == \A p \in Procs : pc[p] = "idle"

\* No directory ever has two entries of the same name: of two processes that
\* create the same file one fails (dir_add).
NamesUnique ==
  \A d \in Dirs : \A i, j \in InUse(d) :
    inode[d].entries[i].name = inode[d].entries[j].name => i = j

\* Between calls every entry leads to an inode of its own that is there and not
\* removed, below a directory that is its parent, and file_cnt, by which
\* dir_remove decides, counts the entries and, besides, every entry that could
\* not be written: dir_add counts those too, so it is never 0 again in such a
\* directory (dir_add, dir_remove).
EntriesExact ==
  /\ NamesUnique
  /\ Quiet =>
       /\ \A e, f \in Entries : Target(e) = Target(f) => e = f
       /\ \A e \in Entries :
            /\ Target(e) \in free_map /\ ~removed[Target(e)]
            /\ inode[Target(e)].is_dir => inode[Target(e)].parent = e[1]
       /\ \A d \in Dirs : inode[d].file_cnt = Cardinality(InUse(d)) + inode[d].lost

\* The directory a process is in is there and not removed: dir_remove keeps
\* processes from removing it, their own by its sector and others by open_cnt.
CwdNotRemoved == \A p \in Procs : cwd[p] \in Dirs

\* Between calls the sectors in use are the root, what some entry leads to, and
\* removed files that are still open; whatever a process has open, and the
\* directory it is in, is among them (filesys_create, dir_remove, inode_close).
SpaceExact ==
  Quiet =>
    /\ free_map = {ROOT_DIR_SECTOR} \cup {Target(e) : e \in Entries}
                    \cup {s \in Sectors : removed[s] /\ open_cnt[s] > 0}
    /\ CwdNotRemoved
    /\ \A p \in Procs : file[p] \in free_map \cup {NoSector}
===============================================================================
