----------------------------- MODULE RWLockProofs -----------------------------
(***************************************************************************)
(* Theorems about the read-write lock, for any finite set of threads.      *)
(***************************************************************************)
EXTENDS RWLock, FiniteSetTheorems, SequenceTheorems, TLAPS

Elems(s) == {s[i] : i \in 1..Len(s)}

Distinct(s) == \A i, j \in 1..Len(s) : s[i] = s[j] => i = j

\* What list_push_back does to the set of queued threads.
LEMMA AppendElems ==
  ASSUME NEW s \in Seq(Threads), NEW t \in Threads
  PROVE  /\ Append(s, t) \in Seq(Threads)
         /\ Elems(Append(s, t)) = Elems(s) \cup {t}
         /\ Distinct(s) /\ t \notin Elems(s) => Distinct(Append(s, t))
<1> DEFINE a == Append(s, t)
<1>1. a \in Seq(Threads) /\ Len(a) = Len(s) + 1 /\ Len(s) \in Nat
  OBVIOUS
<1>2. \A i \in 1..Len(s) : a[i] = s[i]
  OBVIOUS
<1>3. a[Len(s) + 1] = t
  OBVIOUS
<1> HIDE DEF a
<1>4. Elems(a) = Elems(s) \cup {t}
  <2>1. ASSUME NEW x \in Elems(a) PROVE x \in Elems(s) \cup {t}
    <3>1. PICK i \in 1..Len(a) : x = a[i]
      BY <2>1 DEF Elems
    <3>2. CASE i = Len(s) + 1
      BY <3>1, <3>2, <1>3
    <3>3. CASE i \in 1..Len(s)
      BY <3>1, <3>3, <1>2 DEF Elems
    <3>4. QED
      BY <3>2, <3>3, <1>1
  <2>2. ASSUME NEW x \in Elems(s) PROVE x \in Elems(a)
    BY <1>1, <1>2 DEF Elems
  <2>3. t \in Elems(a)
    BY <1>1, <1>3 DEF Elems
  <2>4. QED
    BY <2>1, <2>2, <2>3
<1>5. ASSUME Distinct(s), t \notin Elems(s) PROVE Distinct(a)
  BY <1>1, <1>2, <1>3, <1>5 DEF Distinct, Elems
<1>6. QED
  BY <1>1, <1>4, <1>5 DEF a

\* What list_pop_front does to it.
LEMMA TailElems ==
  ASSUME NEW s \in Seq(Threads), s # <<>>, Distinct(s)
  PROVE  /\ Head(s) \in Threads
         /\ Head(s) \in Elems(s)
         /\ Tail(s) \in Seq(Threads)
         /\ Elems(Tail(s)) = Elems(s) \ {Head(s)}
         /\ Distinct(Tail(s))
<1> DEFINE b == Tail(s)
<1>1. b \in Seq(Threads) /\ Len(b) = Len(s) - 1 /\ Len(s) \in Nat \ {0}
  OBVIOUS
<1>2. \A i \in 1..Len(b) : b[i] = s[i + 1]
  OBVIOUS
<1>3. Head(s) = s[1] /\ s[1] \in Threads
  OBVIOUS
<1> HIDE DEF b
<1>4. Elems(b) = Elems(s) \ {Head(s)}
  <2>1. ASSUME NEW x \in Elems(b) PROVE x \in Elems(s) \ {Head(s)}
    <3>1. PICK i \in 1..Len(b) : x = b[i]
      BY <2>1 DEF Elems
    <3>2. x = s[i + 1] /\ i + 1 \in 1..Len(s) /\ i + 1 # 1 /\ 1 \in 1..Len(s)
      BY <3>1, <1>1, <1>2
    <3>3. QED
      BY <3>2, <1>3 DEF Elems, Distinct
  <2>2. ASSUME NEW x \in Elems(s), x # Head(s) PROVE x \in Elems(b)
    <3>1. PICK i \in 1..Len(s) : x = s[i]
      BY <2>2 DEF Elems
    <3>2. i # 1
      BY <3>1, <2>2, <1>3
    <3>3. i - 1 \in 1..Len(b) /\ b[i - 1] = s[i]
      BY <3>2, <1>1, <1>2
    <3>4. QED
      BY <3>1, <3>3 DEF Elems
  <2>3. QED
    BY <2>1, <2>2
<1>5. Distinct(b)
  BY <1>1, <1>2 DEF Distinct
<1>6. QED
  BY <1>1, <1>3, <1>4, <1>5 DEF b, Elems

\* Owners are threads, so they can be counted.
LEMMA OwnersFinite ==
  /\ IsFiniteSet(Readers) /\ Cardinality(Readers) \in Nat
  /\ IsFiniteSet(Writers) /\ Cardinality(Writers) \in Nat
<1>1. Readers \subseteq Threads /\ Writers \subseteq Threads
  BY DEF Readers, Writers
<1>2. QED
  BY <1>1, ThreadsAssumption, FS_Subset, FS_CardinalityType

\* A thread that owns the lock is in one of the two sets, and an empty set is
\* the one that counts zero.
LEMMA OwnerCounted ==
  ASSUME IInv, NEW t \in Threads, Owns(t)
  PROVE  /\ is_writer[t] => /\ t \in Writers /\ active_writers = 1
                            /\ active_readers = 0 /\ Writers = {t}
         /\ ~is_writer[t] => /\ t \in Readers /\ active_readers > 0
                             /\ active_writers = 0 /\ Writers = {}
<1>1. ASSUME is_writer[t]
      PROVE  t \in Writers /\ active_writers = 1 /\ active_readers = 0 /\ Writers = {t}
  <2>1. t \in Writers
    BY <1>1 DEF Writers
  <2>2. Cardinality(Writers) # 0
    BY <2>1, OwnersFinite, FS_EmptySet
  <2>3. active_writers = 1 /\ active_readers = 0
    BY <2>2 DEF IInv, CountersExact, OneKind, TypeOK
  <2>4. PICK x : Writers = {x}
    BY <2>3, OwnersFinite, FS_Singleton DEF IInv, CountersExact
  <2>5. QED
    BY <2>1, <2>3, <2>4
<1>2. ASSUME ~is_writer[t]
      PROVE  t \in Readers /\ active_readers > 0 /\ active_writers = 0 /\ Writers = {}
  <2>1. t \in Readers
    BY <1>2 DEF Readers
  <2>2. Cardinality(Readers) # 0
    BY <2>1, OwnersFinite, FS_EmptySet
  <2>3. active_readers > 0 /\ active_writers = 0
    BY <2>2 DEF IInv, CountersExact, OneKind, TypeOK
  <2>4. Writers = {}
    BY <2>3, OwnersFinite, FS_EmptySet DEF IInv, CountersExact
  <2>5. QED
    BY <2>1, <2>3, <2>4
<1>3. QED
  BY <1>1, <1>2

THEOREM InitIInv == Init => IInv
<1> SUFFICES ASSUME Init PROVE IInv
  OBVIOUS
<1>1. TypeOK
  BY DEF Init, TypeOK, Locations
<1>2. Readers = {} /\ Writers = {} /\ Queued = {}
  BY DEF Init, Readers, Writers, Owns, Queued
<1>3. CountersExact
  BY <1>2, FS_EmptySet DEF CountersExact, Init
<1>4. HolderInv /\ ParkedQueued /\ OneKind /\ NoPanic
  BY ThreadsAssumption DEF Init, HolderInv, ParkedQueued, OneKind, NoPanic
<1>5. WaitersLive
  BY <1>2 DEF Init, WaitersLive
<1>6. QED
  BY <1>1, <1>3, <1>4, <1>5 DEF IInv

\* Steps that leave the counters, the list and the owners alone.
LEMMA SameOwners ==
  ASSUME IInv, UNCHANGED <<active_readers, active_writers>>,
         Readers' = Readers, Writers' = Writers
  PROVE  CountersExact' /\ OneKind'
BY DEF IInv, CountersExact, OneKind

THEOREM NextIInv == IInv /\ [Next]_vars => IInv'
<1> SUFFICES ASSUME IInv, [Next]_vars PROVE IInv'
  OBVIOUS
<1> USE ThreadsAssumption
<1>a. /\ Queued = Elems(waiters) /\ Queued' = Elems(waiters')
      /\ Distinct(waiters)
  BY DEF Queued, Elems, Distinct, IInv, WaitersLive
<1>1. ASSUME NEW t \in Threads, NEW w \in BOOLEAN, Call(t, w) PROVE IInv'
  <2>1. TypeOK' /\ HolderInv' /\ ParkedQueued' /\ WaitersLive' /\ NoPanic'
    BY <1>1 DEF Call, Goto, IInv, TypeOK, HolderInv, ParkedQueued, WaitersLive, NoPanic,
                Queued, Locations
  <2>2. Readers' = Readers /\ Writers' = Writers
    BY <1>1 DEF Call, Goto, IInv, TypeOK, Readers, Writers, Owns, Queued
  <2>3. QED
    BY <1>1, <2>1, <2>2, SameOwners DEF IInv, Call
<1>2. ASSUME NEW t \in Threads, pc[t] = "acquire", holder = NoThread, holder' = t,
             Enqueue(t), UNCHANGED is_writer
      PROVE  IInv'
  <2>1. t \notin Queued
    BY <1>2 DEF IInv, WaitersLive
  <2>2. waiters' \in Seq(Threads) /\ Queued' = Queued \cup {t} /\ Distinct(waiters')
    BY <1>2, <1>a, <2>1, AppendElems DEF Enqueue, IInv, TypeOK
  <2>3. TypeOK' /\ HolderInv' /\ ParkedQueued' /\ NoPanic'
    BY <1>2, <2>2 DEF Enqueue, Goto, IInv, TypeOK, HolderInv, ParkedQueued, NoPanic, Locations
  <2>4. WaitersLive'
    BY <1>2, <2>2 DEF Enqueue, Goto, IInv, TypeOK, WaitersLive, Distinct
  <2>5. Readers' = Readers /\ Writers' = Writers
    BY <1>2, <2>2 DEF Enqueue, Goto, IInv, TypeOK, Readers, Writers, Owns
  <2>6. QED
    BY <1>2, <2>3, <2>4, <2>5, SameOwners DEF IInv, Enqueue
<1>3. ASSUME NEW t \in Threads, rwlock_acquire_reader(t) PROVE IInv'
  <2>1. CASE ~ReaderShortcut
    BY <1>2, <1>3, <2>1 DEF rwlock_acquire_reader
  <2>2. CASE ReaderShortcut
    <3>1. /\ pc[t] = "acquire" /\ ~is_writer[t] /\ holder = NoThread /\ holder' = t
          /\ active_readers' = active_readers + 1 /\ pc' = [pc EXCEPT ![t] = "go"]
          /\ UNCHANGED <<waiters, active_writers, sema, is_writer>>
      BY <1>3, <2>2 DEF rwlock_acquire_reader, Goto
    <3>2. TypeOK'
      BY <3>1 DEF IInv, TypeOK, Locations
    <3>3. HolderInv' /\ ParkedQueued' /\ NoPanic'
      BY <3>1 DEF IInv, TypeOK, HolderInv, ParkedQueued, NoPanic, Queued
    <3>4. WaitersLive'
      BY <3>1 DEF IInv, TypeOK, WaitersLive, Queued
    <3>5. Readers' = Readers \cup {t} /\ t \notin Readers /\ Writers' = Writers
      BY <3>1 DEF IInv, TypeOK, Readers, Writers, Owns, Queued
    <3>6. Cardinality(Readers \cup {t}) = Cardinality(Readers) + 1
      BY <3>5, OwnersFinite, FS_AddElement
    <3>7. CountersExact' /\ OneKind'
      BY <2>2, <3>1, <3>5, <3>6 DEF ReaderShortcut, IInv, TypeOK, CountersExact, OneKind
    <3>8. QED
      BY <3>2, <3>3, <3>4, <3>7 DEF IInv
  <2>3. QED
    BY <2>1, <2>2
<1>4. ASSUME NEW t \in Threads, rwlock_acquire_writer(t) PROVE IInv'
  <2>1. CASE ~WriterShortcut
    BY <1>2, <1>4, <2>1 DEF rwlock_acquire_writer
  <2>2. CASE WriterShortcut
    <3>1. /\ pc[t] = "acquire" /\ is_writer[t] /\ holder = NoThread /\ holder' = t
          /\ active_writers' = active_writers + 1 /\ pc' = [pc EXCEPT ![t] = "go"]
          /\ UNCHANGED <<waiters, active_readers, sema, is_writer>>
      BY <1>4, <2>2 DEF rwlock_acquire_writer, Goto
    <3>2. TypeOK'
      BY <3>1 DEF IInv, TypeOK, Locations
    <3>3. HolderInv' /\ ParkedQueued' /\ NoPanic'
      BY <3>1 DEF IInv, TypeOK, HolderInv, ParkedQueued, NoPanic, Queued
    <3>4. WaitersLive'
      BY <3>1 DEF IInv, TypeOK, WaitersLive, Queued
    <3>5. Writers' = Writers \cup {t} /\ t \notin Writers /\ Readers' = Readers
      BY <3>1 DEF IInv, TypeOK, Readers, Writers, Owns, Queued
    <3>6. Cardinality(Writers \cup {t}) = Cardinality(Writers) + 1
      BY <3>5, OwnersFinite, FS_AddElement
    <3>7. CountersExact' /\ OneKind'
      <4>1. OneKind'
        BY <2>2, <3>1 DEF WriterShortcut, OneKind
      <4>2. CountersExact'
        BY <3>1, <3>5, <3>6 DEF IInv, CountersExact
      <4>3. QED
        BY <4>1, <4>2
    <3>8. QED
      BY <3>2, <3>3, <3>4, <3>7 DEF IInv
  <2>3. QED
    BY <2>1, <2>2
<1>5. ASSUME NEW t \in Threads, Unlock(t) PROVE IInv'
  <2>1. TypeOK' /\ HolderInv' /\ ParkedQueued' /\ NoPanic'
    BY <1>5 DEF Unlock, Goto, IInv, TypeOK, HolderInv, ParkedQueued, NoPanic, Queued, Locations
  <2>2. WaitersLive'
    BY <1>5 DEF Unlock, Goto, IInv, TypeOK, ParkedQueued, WaitersLive, Queued
  <2>3. Readers' = Readers /\ Writers' = Writers
    BY <1>5 DEF Unlock, Goto, IInv, TypeOK, ParkedQueued, Readers, Writers, Owns, Queued
  <2>4. QED
    BY <1>5, <2>1, <2>2, <2>3, SameOwners DEF IInv, Unlock
<1>6. ASSUME NEW t \in Threads, Wake(t) PROVE IInv'
  <2>1. t \notin Queued
    BY <1>6 DEF Wake, IInv, WaitersLive, TypeOK
  <2>a. TypeOK'
    BY <1>6 DEF Wake, Goto, IInv, TypeOK, Locations
  <2>2. HolderInv' /\ ParkedQueued' /\ NoPanic'
    BY <1>6 DEF Wake, Goto, IInv, TypeOK, HolderInv, ParkedQueued, NoPanic, Queued
  <2>3. WaitersLive'
    BY <1>6, <2>1 DEF Wake, Goto, IInv, TypeOK, WaitersLive, Queued
  <2>4. Readers' = Readers /\ Writers' = Writers
    BY <1>6, <2>1 DEF Wake, Goto, IInv, TypeOK, Readers, Writers, Owns, Queued
  <2>5. QED
    BY <1>6, <2>a, <2>2, <2>3, <2>4, SameOwners DEF IInv, Wake
<1>7. ASSUME NEW t \in Threads, CallRelease(t) PROVE IInv'
  <2>1. TypeOK' /\ HolderInv' /\ ParkedQueued' /\ WaitersLive' /\ NoPanic'
    BY <1>7 DEF CallRelease, Goto, IInv, TypeOK, HolderInv, ParkedQueued, WaitersLive, NoPanic,
                Queued, Locations
  <2>2. Readers' = Readers /\ Writers' = Writers
    BY <1>7 DEF CallRelease, Goto, IInv, TypeOK, Readers, Writers, Owns, Queued
  <2>3. QED
    BY <1>7, <2>1, <2>2, SameOwners DEF IInv, CallRelease
<1>8. ASSUME NEW t \in Threads, rwlock_release(t) PROVE IInv'
  <2>1. Owns(t)
    BY <1>8 DEF rwlock_release, Owns
  <2>2. TypeOK' /\ HolderInv' /\ ParkedQueued' /\ WaitersLive'
    BY <1>8 DEF rwlock_release, Goto, IInv, TypeOK, HolderInv, ParkedQueued, WaitersLive,
                Queued, Locations
  <2>3. NoPanic'
    BY <1>8, <2>1, OwnerCounted DEF rwlock_release, Goto, IInv, TypeOK, NoPanic
  <2>4. Readers' = Readers \ {t} /\ Writers' = Writers \ {t}
    BY <1>8 DEF rwlock_release, Goto, IInv, TypeOK, Readers, Writers, Owns, Queued
  <2>5. CASE is_writer[t]
    <3>1. /\ t \notin Readers /\ t \in Writers
          /\ active_writers' = active_writers - 1 /\ active_readers' = active_readers
          /\ active_writers = 1 /\ active_readers = 0
      BY <1>8, <2>1, <2>5, OwnerCounted DEF rwlock_release, Readers
    <3>a. Cardinality(Writers \ {t}) = Cardinality(Writers) - 1
      BY <3>1, OwnersFinite, FS_RemoveElement
    <3>b. Readers \ {t} = Readers
      BY <3>1
    <3>2. CountersExact' /\ OneKind'
      <4>1. OneKind'
        BY <3>1 DEF OneKind
      <4>2. CountersExact'
        BY <2>4, <3>1, <3>a, <3>b DEF IInv, CountersExact
      <4>3. QED
        BY <4>1, <4>2
    <3>3. QED
      BY <2>2, <2>3, <3>2 DEF IInv
  <2>6. CASE ~is_writer[t]
    <3>1. /\ t \in Readers /\ t \notin Writers
          /\ active_readers' = active_readers - 1 /\ active_writers' = active_writers
          /\ active_writers = 0
      BY <1>8, <2>1, <2>6, OwnerCounted DEF rwlock_release, Writers
    <3>a. Cardinality(Readers \ {t}) = Cardinality(Readers) - 1
      BY <3>1, OwnersFinite, FS_RemoveElement
    <3>b. Writers \ {t} = Writers
      BY <3>1
    <3>2. CountersExact' /\ OneKind'
      BY <2>4, <3>1, <3>a, <3>b DEF IInv, TypeOK, CountersExact, OneKind
    <3>3. QED
      BY <2>2, <2>3, <3>2 DEF IInv
  <2>7. QED
    BY <2>5, <2>6
<1>9. ASSUME NEW t \in Threads, HandOff(t) PROVE IInv'
  <2> DEFINE u == Head(waiters)
  <2>1. /\ u \in Threads /\ u \in Queued
        /\ waiters' \in Seq(Threads) /\ Queued' = Queued \ {u} /\ Distinct(waiters')
    BY <1>9, <1>a, TailElems DEF HandOff, PopWaiter, IInv, TypeOK
  <2>2. Admissible(is_writer[u]) /\ sema' = [sema EXCEPT ![u] = @ + 1]
    BY <1>9 DEF HandOff, PopWaiter, CountOwner
  <2>3. /\ active_writers' = IF is_writer[u] THEN active_writers + 1 ELSE active_writers
        /\ active_readers' = IF is_writer[u] THEN active_readers ELSE active_readers + 1
        /\ UNCHANGED <<holder, is_writer, pc>> /\ pc[t] = "handoff"
    BY <1>9 DEF HandOff, PopWaiter, CountOwner
  <2> HIDE DEF u
  <2>4. pc[u] = "wait"
    <3>1. pc[u] \in {"park", "wait"}
      BY <2>1 DEF IInv, WaitersLive
    <3>2. pc[u] # "park"
      BY <2>1, <2>3 DEF IInv, HolderInv
    <3>3. QED
      BY <3>1, <3>2
  <2>5. TypeOK' /\ HolderInv' /\ NoPanic'
    BY <2>1, <2>2, <2>3 DEF IInv, TypeOK, HolderInv, NoPanic
  <2>6. ParkedQueued'
    BY <2>1, <2>3, <2>4 DEF IInv, ParkedQueued
  <2>7. WaitersLive'
    BY <2>1, <2>2, <2>3, <2>4 DEF IInv, TypeOK, WaitersLive, Distinct
  <2>8. u \notin Readers /\ u \notin Writers
    BY <2>1, <2>4 DEF Readers, Writers, Owns
  <2>9. CASE is_writer[u]
    <3>1. Readers' = Readers /\ Writers' = Writers \cup {u}
      BY <2>1, <2>3, <2>4, <2>9 DEF Readers, Writers, Owns
    <3>a. Cardinality(Writers \cup {u}) = Cardinality(Writers) + 1
      BY <2>8, OwnersFinite, FS_AddElement
    <3>2. CountersExact' /\ OneKind'
      BY <2>2, <2>3, <2>9, <3>1, <3>a
      DEF IInv, TypeOK, CountersExact, OneKind, Admissible
    <3>3. QED
      BY <2>5, <2>6, <2>7, <3>2 DEF IInv
  <2>10. CASE ~is_writer[u]
    <3>1. Readers' = Readers \cup {u} /\ Writers' = Writers
      BY <2>1, <2>3, <2>4, <2>10 DEF Readers, Writers, Owns
    <3>a. Cardinality(Readers \cup {u}) = Cardinality(Readers) + 1
      BY <2>8, OwnersFinite, FS_AddElement
    <3>2. CountersExact' /\ OneKind'
      BY <2>2, <2>3, <2>10, <3>1, <3>a
      DEF IInv, TypeOK, CountersExact, OneKind, Admissible
    <3>3. QED
      BY <2>5, <2>6, <2>7, <3>2 DEF IInv
  <2>11. QED
    BY <2>9, <2>10
<1>10. ASSUME NEW t \in Threads, EndHandOff(t) PROVE IInv'
  <2>1. TypeOK' /\ HolderInv' /\ ParkedQueued' /\ WaitersLive' /\ NoPanic'
    BY <1>10 DEF EndHandOff, Goto, IInv, TypeOK, HolderInv, ParkedQueued, WaitersLive, NoPanic,
                 Queued, Locations
  <2>2. Readers' = Readers /\ Writers' = Writers
    BY <1>10 DEF EndHandOff, Goto, IInv, TypeOK, Readers, Writers, Owns, Queued
  <2>3. QED
    BY <1>10, <2>1, <2>2, SameOwners DEF IInv, EndHandOff
<1>11. ASSUME UNCHANGED vars PROVE IInv'
  BY <1>11 DEF vars, IInv, TypeOK, HolderInv, ParkedQueued, WaitersLive, NoPanic, Queued,
               CountersExact, OneKind, Readers, Writers, Owns
<1>12. QED
  BY <1>1, <1>3, <1>4, <1>5, <1>6, <1>7, <1>8, <1>9, <1>10, <1>11 DEF Next, Step

\* The inductive invariant holds in every reachable state.
THEOREM Invariance == Spec => []IInv
<1>1. IInv /\ [Next]_vars => IInv'
  BY NextIInv
<1>2. QED
  BY InitIInv, <1>1, PTL DEF Spec

\* rwlock_acquire_* and rwlock_release keep the types of struct rwlock.
THEOREM TypeCorrect == Spec => []TypeOK
<1>1. IInv => TypeOK
  BY DEF IInv
<1>2. QED
  BY Invariance, <1>1, PTL

\* One writer alone, or readers only.
THEOREM MutualExclusion == Spec => []Exclusion
<1>1. IInv => Exclusion
  <2> SUFFICES ASSUME IInv, NEW t \in Threads, NEW u \in Threads,
                      pc[t] = "held", is_writer[t], pc[u] = "held"
               PROVE  t = u
    BY DEF Exclusion
  <2>1. Owns(t) /\ Owns(u)
    BY DEF Owns
  <2>2. Writers = {t} /\ active_writers = 1
    BY <2>1, OwnerCounted
  <2>3. is_writer[u]
    BY <2>1, <2>2, OwnerCounted DEF IInv, TypeOK
  <2>4. QED
    BY <2>1, <2>2, <2>3 DEF Writers
<1>2. QED
  BY Invariance, <1>1, PTL

\* The counters are exact, so rwlock_release never confuses a reader with a
\* writer and never panics.
THEOREM CountersCorrect == Spec => [](CountersExact /\ NoPanic)
<1>1. IInv => CountersExact /\ NoPanic
  BY DEF IInv
<1>2. QED
  BY Invariance, <1>1, PTL

\* Waiters are taken off the list exactly once, while their stack frame lives.
THEOREM WaitersCorrect == Spec => []WaitersLive
<1>1. IInv => WaitersLive
  BY DEF IInv
<1>2. QED
  BY Invariance, <1>1, PTL

\* One step keeps the first waiter inadmissible outside a hand-off.
LEMMA NextHeadMustWait == IInv /\ HeadMustWait /\ [Next]_vars => HeadMustWait'
<1> SUFFICES ASSUME IInv, HeadMustWait, [Next]_vars,
                    waiters' # <<>>, \A t \in Threads : pc'[t] # "handoff"
             PROVE  ~Admissible(is_writer[Head(waiters)])'
  BY DEF HeadMustWait
<1> USE ThreadsAssumption
<1>1. ASSUME NEW t \in Threads, NEW w \in BOOLEAN, Call(t, w)
      PROVE  ~Admissible(is_writer[Head(waiters)])'
  <2>1. waiters # <<>> /\ waiters' = waiters /\ UNCHANGED <<active_readers, active_writers>>
    BY <1>1 DEF Call
  <2>2. Head(waiters) \in Queued /\ Head(waiters) \in Threads
    BY <2>1 DEF Queued, IInv, TypeOK
  <2>3. Head(waiters) # t
    BY <1>1, <2>2 DEF Call, IInv, WaitersLive
  <2>4. is_writer'[Head(waiters)] = is_writer[Head(waiters)]
    BY <1>1, <2>2, <2>3 DEF Call, IInv, TypeOK
  <2>5. \A u \in Threads : pc[u] # "handoff"
    BY <1>1 DEF Call, Goto, IInv, TypeOK
  <2>6. QED
    BY <2>1, <2>4, <2>5 DEF HeadMustWait, Admissible
<1>2. ASSUME NEW t \in Threads, holder = NoThread, Enqueue(t), UNCHANGED is_writer,
             waiters = <<>> => ~Admissible(is_writer[t])
      PROVE  ~Admissible(is_writer[Head(waiters)])'
  <2>1. \A u \in Threads : pc[u] # "handoff"
    BY <1>2 DEF IInv, HolderInv
  <2>2. waiters' = Append(waiters, t) /\ UNCHANGED <<active_readers, active_writers>>
    BY <1>2 DEF Enqueue
  <2>3. CASE waiters = <<>>
    <3>1. Head(waiters') = t
      BY <2>2, <2>3
    <3>2. QED
      BY <1>2, <2>2, <2>3, <3>1 DEF Admissible
  <2>4. CASE waiters # <<>>
    <3>1. Head(waiters') = Head(waiters)
      BY <2>2, <2>4 DEF IInv, TypeOK
    <3>2. QED
      BY <1>2, <2>1, <2>2, <2>4, <3>1 DEF HeadMustWait, Admissible
  <2>5. QED
    BY <2>3, <2>4
<1>3. ASSUME NEW t \in Threads, rwlock_acquire_reader(t)
      PROVE  ~Admissible(is_writer[Head(waiters)])'
  <2>1. ~ReaderShortcut
    BY <1>3 DEF rwlock_acquire_reader, ReaderShortcut
  <2>2. QED
    BY <1>2, <1>3, <2>1 DEF rwlock_acquire_reader, ReaderShortcut, Admissible
<1>4. ASSUME NEW t \in Threads, rwlock_acquire_writer(t)
      PROVE  ~Admissible(is_writer[Head(waiters)])'
  <2>1. ~WriterShortcut
    BY <1>4 DEF rwlock_acquire_writer, WriterShortcut
  <2>2. QED
    BY <1>2, <1>4, <2>1 DEF rwlock_acquire_writer, WriterShortcut, Admissible
<1>5. ASSUME NEW t \in Threads, pc[t] # "handoff", \A u \in Threads \ {t} : pc'[u] = pc[u],
             UNCHANGED <<waiters, active_readers, active_writers, is_writer>>
      PROVE  ~Admissible(is_writer[Head(waiters)])'
  BY <1>5 DEF HeadMustWait, Admissible
<1>6. ASSUME NEW t \in Threads, Unlock(t) \/ Wake(t) \/ CallRelease(t)
      PROVE  ~Admissible(is_writer[Head(waiters)])'
  BY <1>5, <1>6 DEF Unlock, Wake, CallRelease, Goto, IInv, TypeOK
<1>7. ASSUME NEW t \in Threads, rwlock_release(t)
      PROVE  ~Admissible(is_writer[Head(waiters)])'
  <2>1. Owns(t)
    BY <1>7 DEF rwlock_release, Owns
  <2>2. ~is_writer[t]
    BY <1>7, <2>1, OwnerCounted DEF rwlock_release, Goto, IInv, TypeOK
  <2>3. active_writers = 0 /\ active_readers \in Nat \ {0}
    BY <2>1, <2>2, OwnerCounted DEF IInv, TypeOK
  <2>4. \A u \in Threads : pc[u] # "handoff"
    BY <1>7 DEF rwlock_release, IInv, HolderInv
  <2>5. waiters # <<>> /\ UNCHANGED <<waiters, is_writer>>
    BY <1>7 DEF rwlock_release
  <2>6. is_writer[Head(waiters)]
    BY <2>3, <2>4, <2>5 DEF HeadMustWait, Admissible
  <2>7. active_readers' # 0
    BY <1>7, <2>3 DEF rwlock_release, Goto, IInv, TypeOK
  <2>8. QED
    BY <2>5, <2>6, <2>7 DEF Admissible
<1>8. ASSUME NEW t \in Threads, HandOff(t)
      PROVE  ~Admissible(is_writer[Head(waiters)])'
  BY <1>8 DEF HandOff
<1>9. ASSUME NEW t \in Threads, EndHandOff(t)
      PROVE  ~Admissible(is_writer[Head(waiters)])'
  BY <1>9 DEF EndHandOff, Admissible
<1>10. ASSUME UNCHANGED vars
       PROVE  ~Admissible(is_writer[Head(waiters)])'
  BY <1>10 DEF vars, HeadMustWait, Admissible
<1>11. QED
  BY <1>1, <1>3, <1>4, <1>6, <1>7, <1>8, <1>9, <1>10 DEF Next, Step

\* No hand-off is lost: whoever heads the queue is kept out by a present owner,
\* or a releaser is in its loop.
THEOREM HandOffComplete == Spec => [](HeadMustWait /\ NobodyStranded)
<1>1. Init => HeadMustWait
  BY DEF Init, HeadMustWait
<1>2. IInv /\ HeadMustWait => NobodyStranded
  BY DEF IInv, TypeOK, HeadMustWait, NobodyStranded, Admissible
<1>3. QED
  BY Invariance, <1>1, <1>2, NextHeadMustWait, PTL DEF Spec

\* An idle thread of the code is idle in the abstract lock.
LEMMA NotOwnerIdle ==
  ASSUME NEW t \in Threads, ~Owns(t), t \notin Queued
  PROVE  Abs!Idle(t)
BY DEF Abs!Idle, Readers, Writers, Queued

\* Every step of the code is a step of the abstract lock or invisible to it.
LEMMA StepRefines == IInv /\ [Next]_vars => [Abs!Next]_(Abs!absVars)
<1> SUFFICES ASSUME IInv, [Next]_vars PROVE Abs!Next \/ UNCHANGED Abs!absVars
  OBVIOUS
<1> USE ThreadsAssumption
<1>a. /\ Queued = Elems(waiters) /\ Queued' = Elems(waiters') /\ Distinct(waiters)
  BY DEF Queued, Elems, Distinct, IInv, WaitersLive
<1>1. ASSUME NEW t \in Threads, NEW w \in BOOLEAN, Call(t, w) PROVE Abs!Next
  <2>1. Readers' = Readers /\ Writers' = Writers
    BY <1>1 DEF Call, Goto, IInv, TypeOK, Readers, Writers, Owns, Queued
  <2>2. ~Owns(t) /\ t \notin Queued
    BY <1>1 DEF Call, Owns, IInv, WaitersLive
  <2>3. Abs!Ask(t, w)
    BY <1>1, <2>1, <2>2, NotOwnerIdle DEF Abs!Ask, Call
  <2>4. QED
    BY <2>3 DEF Abs!Next
<1>2. ASSUME NEW t \in Threads, pc[t] = "acquire", Enqueue(t), UNCHANGED is_writer
      PROVE  Abs!Next
  <2>1. ~Owns(t) /\ t \notin Queued
    BY <1>2 DEF Owns, IInv, WaitersLive
  <2>2. Queued' = Queued \cup {t}
    BY <1>2, <1>a, AppendElems DEF Enqueue, IInv, TypeOK
  <2>3. Readers' = Readers /\ Writers' = Writers
    BY <1>2, <2>2 DEF Enqueue, Goto, IInv, TypeOK, Readers, Writers, Owns
  <2>4. Abs!Wait(t)
    BY <1>2, <2>1, <2>3, NotOwnerIdle DEF Abs!Wait, Enqueue
  <2>5. QED
    BY <2>4 DEF Abs!Next
<1>3. ASSUME NEW t \in Threads, rwlock_acquire_reader(t) PROVE Abs!Next
  <2>1. CASE ~ReaderShortcut
    BY <1>2, <1>3, <2>1 DEF rwlock_acquire_reader
  <2>2. CASE ReaderShortcut
    <3>1. /\ pc[t] = "acquire" /\ ~is_writer[t] /\ pc' = [pc EXCEPT ![t] = "go"]
          /\ UNCHANGED <<waiters, is_writer>> /\ waiters = <<>> /\ active_writers = 0
      BY <1>3, <2>2 DEF rwlock_acquire_reader, Goto, ReaderShortcut
    <3>2. Readers' = Readers \cup {t} /\ Writers' = Writers
      BY <3>1 DEF IInv, TypeOK, Readers, Writers, Owns, Queued
    <3>3. Writers = {}
      BY <3>1, OwnersFinite, FS_EmptySet DEF IInv, CountersExact
    <3>4. ~Owns(t) /\ t \notin Queued
      BY <3>1 DEF Owns, Queued, IInv, WaitersLive
    <3>5. Abs!Enter(t)
      BY <3>1, <3>2, <3>3, <3>4, NotOwnerIdle DEF Abs!Enter, Abs!Compatible, Abs!Own
    <3>6. QED
      BY <3>5 DEF Abs!Next
  <2>3. QED
    BY <2>1, <2>2
<1>4. ASSUME NEW t \in Threads, rwlock_acquire_writer(t) PROVE Abs!Next
  <2>1. CASE ~WriterShortcut
    BY <1>2, <1>4, <2>1 DEF rwlock_acquire_writer
  <2>2. CASE WriterShortcut
    <3>1. /\ pc[t] = "acquire" /\ is_writer[t] /\ pc' = [pc EXCEPT ![t] = "go"]
          /\ UNCHANGED <<waiters, is_writer>> /\ waiters = <<>>
          /\ active_writers = 0 /\ active_readers = 0
      BY <1>4, <2>2 DEF rwlock_acquire_writer, Goto, WriterShortcut
    <3>2. Writers' = Writers \cup {t} /\ Readers' = Readers
      BY <3>1 DEF IInv, TypeOK, Readers, Writers, Owns, Queued
    <3>3. Writers = {} /\ Readers = {}
      BY <3>1, OwnersFinite, FS_EmptySet DEF IInv, CountersExact
    <3>4. ~Owns(t) /\ t \notin Queued
      BY <3>1 DEF Owns, Queued, IInv, WaitersLive
    <3>5. Abs!Enter(t)
      BY <3>1, <3>2, <3>3, <3>4, NotOwnerIdle DEF Abs!Enter, Abs!Compatible, Abs!Own
    <3>6. QED
      BY <3>5 DEF Abs!Next
  <2>3. QED
    BY <2>1, <2>2
<1>5. ASSUME NEW t \in Threads, Unlock(t) PROVE UNCHANGED Abs!absVars
  <2>1. Readers' = Readers /\ Writers' = Writers
    BY <1>5 DEF Unlock, Goto, IInv, TypeOK, ParkedQueued, Readers, Writers, Owns, Queued
  <2>2. QED
    BY <1>5, <2>1 DEF Unlock, Abs!absVars
<1>6. ASSUME NEW t \in Threads, Wake(t) PROVE UNCHANGED Abs!absVars
  <2>1. t \notin Queued
    BY <1>6 DEF Wake, IInv, WaitersLive, TypeOK
  <2>2. Readers' = Readers /\ Writers' = Writers
    BY <1>6, <2>1 DEF Wake, Goto, IInv, TypeOK, Readers, Writers, Owns, Queued
  <2>3. QED
    BY <1>6, <2>2 DEF Wake, Abs!absVars
<1>7. ASSUME NEW t \in Threads, CallRelease(t) \/ EndHandOff(t) PROVE UNCHANGED Abs!absVars
  <2>1. Readers' = Readers /\ Writers' = Writers
    BY <1>7 DEF CallRelease, EndHandOff, Goto, IInv, TypeOK, Readers, Writers, Owns, Queued
  <2>2. QED
    BY <1>7, <2>1 DEF CallRelease, EndHandOff, Abs!absVars
<1>8. ASSUME NEW t \in Threads, rwlock_release(t) PROVE Abs!Next
  <2>1. Readers' = Readers \ {t} /\ Writers' = Writers \ {t}
    BY <1>8 DEF rwlock_release, Goto, IInv, TypeOK, Readers, Writers, Owns, Queued
  <2>2. t \in Readers \cup Writers
    BY <1>8 DEF rwlock_release, Readers, Writers, Owns, IInv, TypeOK
  <2>3. Abs!Release(t)
    BY <1>8, <2>1, <2>2 DEF rwlock_release, Abs!Release
  <2>4. QED
    BY <2>3 DEF Abs!Next
<1>9. ASSUME NEW t \in Threads, HandOff(t) PROVE Abs!Next
  <2> DEFINE u == Head(waiters)
  <2>1. u \in Threads /\ u \in Queued /\ Queued' = Queued \ {u}
    BY <1>9, <1>a, TailElems DEF HandOff, PopWaiter, IInv, TypeOK
  <2>2. /\ Admissible(is_writer[u]) /\ UNCHANGED <<is_writer, pc>> /\ pc[t] = "handoff"
        /\ waiters # <<>> /\ waiters' = Tail(waiters)
    BY <1>9 DEF HandOff, PopWaiter, CountOwner
  <2>3. pc[u] = "wait"
    BY <2>1, <2>2 DEF IInv, WaitersLive, HolderInv
  <2>4. is_writer[u] \in BOOLEAN
    BY <2>1 DEF IInv, TypeOK
  <2>5. /\ Readers' = IF is_writer[u] THEN Readers ELSE Readers \cup {u}
        /\ Writers' = IF is_writer[u] THEN Writers \cup {u} ELSE Writers
    BY <2>1, <2>2, <2>3, <2>4 DEF Readers, Writers, Owns
  <2>6. Writers = {} /\ (is_writer[u] => Readers = {})
    BY <2>2, OwnersFinite, FS_EmptySet DEF IInv, CountersExact, Admissible
  <2>7. Abs!Grant
    BY <2>2, <2>5, <2>6 DEF Abs!Grant, Abs!Compatible, Abs!Own
  <2>8. QED
    BY <2>7 DEF Abs!Next
<1>10. ASSUME UNCHANGED vars PROVE UNCHANGED Abs!absVars
  BY <1>10 DEF vars, Abs!absVars, Readers, Writers, Owns, Queued
<1>11. QED
  BY <1>1, <1>3, <1>4, <1>5, <1>6, <1>7, <1>8, <1>9, <1>10 DEF Next, Step

\* rwlock_acquire_reader, rwlock_acquire_writer and rwlock_release implement the
\* first-come-first-served read-write lock of module FairRWLock.
THEOREM Refinement == Spec => AbsSpec
<1>1. Init => Abs!Init
  BY DEF Init, Abs!Init, Readers, Writers, Owns, Queued
<1>2. QED
  BY Invariance, <1>1, StepRefines, PTL DEF Spec, AbsSpec, Abs!Spec
===============================================================================
