----------------------------- MODULE BufferCache ------------------------------
(***************************************************************************)
(* The buffer cache of filesys/cache.c: cache_read, cache_write,           *)
(* cache_flush, cache_free and cache_lock_release, called by any number of *)
(* threads, with the page fault that the memcpy of a read or a write can   *)
(* take on a user buffer (userprog/exception.c).                           *)
(*                                                                         *)
(* A running call is a frame; stack[t] is <<>> when t is outside the cache,*)
(* one frame for a call, two when the memcpy of the first has faulted and  *)
(* the fault handler, loading the page from a file or writing an evicted   *)
(* page to one, calls the cache again.  The inner call copies from or to a *)
(* kernel page, which cannot fault.                                        *)
(*                                                                         *)
(* The contents of a sector are one value; sizes and offsets within the    *)
(* sector are left out.  The only device is fs_device, so the block field  *)
(* is left out too.  A step ends where another thread can interfere:       *)
(* before a lock_acquire, between the disk operations, at the memcpy.  The *)
(* bytes of a memcpy move together, after its last fault.                  *)
(***************************************************************************)
EXTENDS Integers, Sequences, FiniteSets

CONSTANTS
  Users,       \* threads that read, write and free sectors
  Flusher,     \* the thread that runs flush_func
  NoThread,
  Sectors,
  NoSector,
  Values,      \* what a sector may contain
  Zero,        \* what it contains at first
  CACHE_SIZE

Threads == Users \cup {Flusher}

ASSUME CacheAssumption ==
  /\ NoThread \notin Threads /\ Flusher \notin Users
  /\ NoSector \notin Sectors
  /\ Zero \in Values
  /\ CACHE_SIZE \in Nat \ {0}

Blocks == 1..CACHE_SIZE

VARIABLES
  cache,       \* cache[b]: the fields sector, dirty, valid and data of a block
  cache_list,  \* the blocks, the least recently used first
  cache_lock,  \* holder of cache_lock
  block_lock,  \* block_lock[b]: holder of cache[b].lock
  disk,        \* what the device stores
  stack,       \* stack[t]: the running calls of t, the innermost last
  flush_done,
  latest       \* history: the value last written to each sector

vars == <<cache, cache_list, cache_lock, block_lock, disk, stack, flush_done, latest>>

\* at = enter: about to take cache_lock;  scan: in the for loop, about to lock
\* block i;  writeback, fill: the two disk operations of a miss;  copy: at the
\* memcpy.  held is is_cache_block_lock_held.
Frame(o, s) == [op |-> o, sector |-> s, at |-> "enter", i |-> 1, cb |-> 0, held |-> FALSE]

Init ==
  /\ cache = [b \in Blocks |->
                [sector |-> NoSector, dirty |-> FALSE, valid |-> FALSE, data |-> Zero]]
  /\ cache_list = [b \in Blocks |-> b]
  /\ cache_lock = NoThread
  /\ block_lock = [b \in Blocks |-> NoThread]
  /\ disk = [s \in Sectors |-> Zero]
  /\ latest = [s \in Sectors |-> Zero]
  /\ stack = [t \in Threads |-> <<>>]
  /\ flush_done = FALSE

Depth(t) == Len(stack[t])
Top(t) == stack[t][Depth(t)]
At(t, loc, ops) == Depth(t) > 0 /\ Top(t).at = loc /\ Top(t).op \in ops
Push(t, f) == stack' = [stack EXCEPT ![t] = Append(@, f)]
SetTop(t, f) == stack' = [stack EXCEPT ![t][Depth(t)] = f]
Return(t) == stack' = [stack EXCEPT ![t] = SubSeq(@, 1, Len(@) - 1)]

\* list_remove and list_push_back: b becomes the most recently used block.
Touch(b) == cache_list' = Append(SelectSeq(cache_list, LAMBDA x : x # b), b)

\* Mutant: the scan does not take the block locks.
MutNoBlockLock(t, b) == TRUE

\* t can go past lock_acquire (&cache[b].lock), or skips it: a read or a write
\* looks whether t holds the lock already.
Lockable(t, b) == block_lock[b] = NoThread \/ block_lock[b] = t

Call(t, o, s) ==
  /\ stack[t] = <<>>
  /\ Push(t, Frame(o, s))
  /\ UNCHANGED <<cache, cache_list, cache_lock, block_lock, disk, flush_done, latest>>

\* flush_func wakes up from timer_sleep.
flush_func ==
  /\ ~flush_done
  /\ Call(Flusher, "flush", NoSector)

\* cache_flush (true), called by filesys_done.
filesys_done(t) ==
  /\ stack[t] = <<>>
  /\ flush_done' = TRUE
  /\ Push(t, Frame("flush", NoSector))
  /\ UNCHANGED <<cache, cache_list, cache_lock, block_lock, disk, latest>>

\* Mutant: cache_lock is not waited for.
MutNoCacheLock(t) ==
  /\ Depth(t) > 0 /\ Top(t).at = "enter"
  /\ cache_lock' = t
  /\ SetTop(t, [Top(t) EXCEPT !.at = "scan"])
  /\ UNCHANGED <<cache, cache_list, block_lock, disk, flush_done, latest>>

\* lock_acquire (&cache_lock) at the head of the four functions.
Enter(t) ==
  /\ Depth(t) > 0 /\ Top(t).at = "enter"
  /\ cache_lock = NoThread
  /\ cache_lock' = t
  /\ SetTop(t, [Top(t) EXCEPT !.at = "scan"])
  /\ UNCHANGED <<cache, cache_list, block_lock, disk, flush_done, latest>>

Matches(b, s) == cache[b].valid /\ cache[b].sector = s

\* The loop of cache_read and cache_write: this block is another sector's.
Scan(t) ==
  /\ At(t, "scan", {"read", "write"})
  /\ LET f == Top(t) IN
       /\ f.i <= CACHE_SIZE
       /\ Lockable(t, f.i)
       /\ ~Matches(f.i, f.sector)
       /\ SetTop(t, [f EXCEPT !.i = @ + 1])
  /\ UNCHANGED <<cache, cache_list, cache_lock, block_lock, disk, flush_done, latest>>

\* Mutant: a hit keeps cache_lock.
MutHitKeepsLock(t) ==
  /\ At(t, "scan", {"read", "write"})
  /\ LET f == Top(t) IN
       /\ f.i <= CACHE_SIZE
       /\ Lockable(t, f.i)
       /\ Matches(f.i, f.sector)
       /\ Touch(f.i)
       /\ block_lock' = [block_lock EXCEPT ![f.i] = t]
       /\ SetTop(t, [f EXCEPT !.at = "copy", !.cb = f.i])
  /\ UNCHANGED <<cache, cache_lock, disk, flush_done, latest>>

\* The block is found: its lock is kept, cache_lock is released.
Hit(t) ==
  /\ At(t, "scan", {"read", "write"})
  /\ LET f == Top(t) IN
       /\ f.i <= CACHE_SIZE
       /\ Lockable(t, f.i)
       /\ Matches(f.i, f.sector)
       /\ cache' = [cache EXCEPT ![f.i].dirty = @ \/ f.op = "write"]
       /\ Touch(f.i)
       /\ block_lock' = [block_lock EXCEPT ![f.i] = t]
       /\ SetTop(t, [f EXCEPT !.at = "copy", !.cb = f.i, !.held = block_lock[f.i] = t])
  /\ cache_lock' = NoThread
  /\ UNCHANGED <<disk, flush_done, latest>>

\* Not found: the least recently used block is locked and reused.
Miss(t) ==
  /\ At(t, "scan", {"read", "write"})
  /\ LET f == Top(t)
         b == Head(cache_list)
     IN  /\ f.i > CACHE_SIZE
         /\ Lockable(t, b)
         /\ Touch(b)
         /\ block_lock' = [block_lock EXCEPT ![b] = t]
         /\ SetTop(t, [f EXCEPT !.at = "writeback", !.cb = b, !.held = block_lock[b] = t])
  /\ cache_lock' = NoThread
  /\ UNCHANGED <<cache, disk, flush_done, latest>>

\* block_write of the old sector if it is dirty; the block changes hands.
WriteBack(t) ==
  /\ At(t, "writeback", {"read", "write"})
  /\ LET f == Top(t)
         old == cache[f.cb]
     IN  /\ disk' = IF old.valid /\ old.dirty THEN [disk EXCEPT ![old.sector] = old.data] ELSE disk
         /\ cache' = [cache EXCEPT ![f.cb].sector = f.sector, ![f.cb].valid = FALSE]
         /\ SetTop(t, [f EXCEPT !.at = "fill"])
  /\ UNCHANGED <<cache_list, cache_lock, block_lock, flush_done, latest>>

\* block_read of the new sector.
Fill(t) ==
  /\ At(t, "fill", {"read", "write"})
  /\ LET f == Top(t) IN
       /\ cache' = [cache EXCEPT ![f.cb].data = disk[f.sector], ![f.cb].dirty = f.op = "write"]
       /\ SetTop(t, [f EXCEPT !.at = "copy"])
  /\ UNCHANGED <<cache_list, cache_lock, block_lock, disk, flush_done, latest>>

\* lock_release (&cb->lock) at the end of cache_read and cache_write.
Unlock(t, f) ==
  block_lock' = IF f.held THEN block_lock ELSE [block_lock EXCEPT ![f.cb] = NoThread]

cache_read(t) ==
  /\ At(t, "copy", {"read"})
  /\ cache' = [cache EXCEPT ![Top(t).cb].valid = TRUE]
  /\ Unlock(t, Top(t))
  /\ Return(t)
  /\ UNCHANGED <<cache_list, cache_lock, disk, flush_done, latest>>

cache_write(t, v) ==
  /\ At(t, "copy", {"write"})
  /\ cache' = [cache EXCEPT ![Top(t).cb].data = v, ![Top(t).cb].valid = TRUE]
  /\ latest' = [latest EXCEPT ![Top(t).sector] = v]
  /\ Unlock(t, Top(t))
  /\ Return(t)
  /\ UNCHANGED <<cache_list, cache_lock, disk, flush_done>>

\* The memcpy faults and page_full_load brings the page in: it reads a file, or
\* writes back a page of a mapped file to free a frame.
Fault(t, o, s) ==
  /\ Depth(t) = 1
  /\ At(t, "copy", {"read", "write"})
  /\ Push(t, Frame(o, s))
  /\ UNCHANGED <<cache, cache_list, cache_lock, block_lock, disk, flush_done, latest>>

\* Mutant: only cache_lock is given up.
MutKeepsBlockLocks(t) ==
  /\ Depth(t) = 1
  /\ At(t, "copy", {"read", "write"})
  /\ cache_lock' = IF cache_lock = t THEN NoThread ELSE cache_lock
  /\ stack' = [stack EXCEPT ![t] = <<>>]
  /\ UNCHANGED <<cache, cache_list, block_lock, disk, flush_done, latest>>

\* The memcpy faults on an address that cannot be loaded: page_fault gives up
\* the locks of the cache and the process exits.
cache_lock_release(t) ==
  /\ Depth(t) = 1
  /\ At(t, "copy", {"read", "write"})
  /\ cache_lock' = IF cache_lock = t THEN NoThread ELSE cache_lock
  /\ block_lock' = [b \in Blocks |-> IF block_lock[b] = t THEN NoThread ELSE block_lock[b]]
  /\ stack' = [stack EXCEPT ![t] = <<>>]
  /\ UNCHANGED <<cache, cache_list, disk, flush_done, latest>>

\* Mutant: cache_flush skips the blocks in use.
MutFlushSkips(t) ==
  /\ At(t, "scan", {"flush"})
  /\ Top(t).i <= CACHE_SIZE
  /\ IF block_lock[Top(t).i] = NoThread /\ cache[Top(t).i].valid
       THEN /\ disk' = [disk EXCEPT ![cache[Top(t).i].sector] = cache[Top(t).i].data]
            /\ cache' = [cache EXCEPT ![Top(t).i].dirty = FALSE]
       ELSE UNCHANGED <<disk, cache>>
  /\ SetTop(t, [Top(t) EXCEPT !.i = @ + 1])
  /\ UNCHANGED <<cache_list, cache_lock, block_lock, flush_done, latest>>

\* One iteration of cache_flush.
cache_flush(t) ==
  /\ At(t, "scan", {"flush"})
  /\ LET f == Top(t) IN
       /\ f.i <= CACHE_SIZE
       /\ block_lock[f.i] = NoThread
       /\ IF cache[f.i].valid /\ cache[f.i].dirty
            THEN /\ disk' = [disk EXCEPT ![cache[f.i].sector] = cache[f.i].data]
                 /\ cache' = [cache EXCEPT ![f.i].dirty = FALSE]
            ELSE UNCHANGED <<disk, cache>>
       /\ SetTop(t, [f EXCEPT !.i = @ + 1])
  /\ UNCHANGED <<cache_list, cache_lock, block_lock, flush_done, latest>>

\* One iteration of cache_free.  A freed sector has no contents to keep.
cache_free(t) ==
  /\ At(t, "scan", {"free"})
  /\ LET f == Top(t) IN
       /\ f.i <= CACHE_SIZE
       /\ block_lock[f.i] = NoThread
       /\ IF Matches(f.i, f.sector)
            THEN /\ cache' = [cache EXCEPT ![f.i].valid = FALSE, ![f.i].dirty = FALSE]
                 /\ latest' = [latest EXCEPT ![f.sector] = disk[f.sector]]
                 /\ SetTop(t, [f EXCEPT !.i = CACHE_SIZE + 1])
            ELSE /\ SetTop(t, [f EXCEPT !.i = @ + 1])
                 /\ UNCHANGED <<cache, latest>>
  /\ UNCHANGED <<cache_list, cache_lock, block_lock, disk, flush_done>>

\* The final lock_release of cache_flush and cache_free.
Leave(t) ==
  /\ At(t, "scan", {"flush", "free"})
  /\ Top(t).i > CACHE_SIZE
  /\ cache_lock' = NoThread
  /\ Return(t)
  /\ UNCHANGED <<cache, cache_list, block_lock, disk, flush_done, latest>>

Step(t) ==
  \/ Enter(t) \/ Scan(t) \/ Hit(t) \/ Miss(t) \/ WriteBack(t) \/ Fill(t)
  \/ cache_read(t) \/ (\E v \in Values : cache_write(t, v))
  \/ cache_flush(t) \/ cache_free(t) \/ Leave(t)

\* Calls whose buffer stays in memory.
CacheNext ==
  \/ flush_func
  \/ \E t \in Threads : Step(t)
  \/ \E t \in Users :
       \/ filesys_done(t)
       \/ \E s \in Sectors, o \in {"read", "write", "free"} : Call(t, o, s)

\* A memcpy faults.
FaultNext ==
  \E t \in Users :
    \/ cache_lock_release(t)
    \/ \E s \in Sectors, o \in {"read", "write"} : Fault(t, o, s)

Next == CacheNext \/ FaultNext

Spec == Init /\ [][Next]_vars
-------------------------------------------------------------------------------
TypeOK ==
  /\ cache \in [Blocks -> [sector : Sectors \cup {NoSector}, dirty : BOOLEAN,
                           valid : BOOLEAN, data : Values]]
  /\ cache_list \in [Blocks -> Blocks]
  /\ \A b \in Blocks : \E i \in Blocks : cache_list[i] = b
  /\ cache_lock \in Threads \cup {NoThread}
  /\ block_lock \in [Blocks -> Threads \cup {NoThread}]
  /\ disk \in [Sectors -> Values]
  /\ latest \in [Sectors -> Values]
  /\ flush_done \in BOOLEAN

\* A sector is cached at most once: two misses on one sector, each dropping
\* cache_lock before its disk operations, never both install it.
UniqueBlock ==
  \A b, c \in Blocks :
    cache[b].valid /\ cache[c].valid /\ cache[b].sector = cache[c].sector => b = c

\* Whoever is at the memcpy of a call has the wanted sector in its block, the
\* block's lock, and the contents last written, whatever was evicted, flushed
\* or freed in between ("other processes are not able to evict it").
CopyLatest ==
  \A t \in Threads :
    LET f == Top(t) IN
      At(t, "copy", {"read", "write"}) =>
        /\ block_lock[f.cb] = t
        /\ cache[f.cb].sector = f.sector
        /\ cache[f.cb].data = latest[f.sector]

\* When cache_flush is about to return, the disk holds every sector's latest
\* contents, in-flight misses and writes included: halting right after the
\* flush of filesys_done loses nothing.
FlushComplete ==
  \A t \in Threads :
    At(t, "scan", {"flush"}) /\ Top(t).i > CACHE_SIZE => disk = latest

\* t is in a call and not kept from its next step by a lock.
CanMove(t) ==
  LET f == Top(t) IN
    /\ Depth(t) > 0
    /\ f.at = "enter" => cache_lock = NoThread
    /\ f.at = "scan" /\ f.op \in {"read", "write"} =>
         Lockable(t, IF f.i <= CACHE_SIZE THEN f.i ELSE Head(cache_list))
    /\ f.at = "scan" /\ f.op \in {"flush", "free"} /\ f.i <= CACHE_SIZE =>
         block_lock[f.i] = NoThread

\* The calls in progress never wait for each other in a circle.
NoDeadlock == (\E t \in Threads : stack[t] # <<>>) => \E t \in Threads : CanMove(t)

\* The state is well typed, and no lock of the cache outlives the call that took
\* it, on the path through a failed page fault either.
NoLeakedLock ==
  /\ TypeOK
  /\ \A t \in Threads : stack[t] = <<>> => cache_lock # t /\ \A b \in Blocks : block_lock[b] # t

\* doc/filesys.texi: "after the write system call returns to its caller, all
\* subsequent readers must see the change".  Here: the block that a read is
\* about to hit holds what was last written.
ReadersSeeWrites ==
  \A t \in Threads :
    LET f == Top(t) IN
      /\ Depth(t) = 1
      /\ At(t, "scan", {"read"})
      /\ f.i <= CACHE_SIZE /\ Lockable(t, f.i) /\ Matches(f.i, f.sector)
      => cache[f.i].data = latest[f.sector]
===============================================================================
