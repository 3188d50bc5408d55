-------------------------- MODULE LockedObjectProofs --------------------------
(***************************************************************************)
(* Proofs, for any finite sets of threads and of guard variables, of the   *)
(* safety properties of the three spinlocks and of locked_object on them.  *)
(*                                                                         *)
(* LockInv is inductive for the steps of the locks alone; it adds to the   *)
(* properties which labels each kind of lock uses, that a thread inside a  *)
(* lock call has no open call of its own unless the lock is recursive, and *)
(* what the word read before an exchange looked like.  GuardInv adds what  *)
(* a thread in the middle of an operation on guards has and will have.     *)
(***************************************************************************)
EXTENDS LockedObject, FiniteSetTheorems, TLAPS

SharedLabels == {"ready", "tryWrite", "tryRead"} \cup WriterWaits \cup ReaderWaits

KindFits ==
  /\ ~Kind("shared") => word = Free /\ \A t \in Threads : ~reading[t]
  /\ Kind("plain") => \A t \in Threads : pc[t] \in {"ready"} \cup Spinning /\ depth[t] <= 1
  /\ Kind("recursive") => \A t \in Threads : pc[t] \in {"ready"} \cup Spinning \cup Counting
  /\ Kind("shared") =>
       owner = NoThread /\ \A t \in Threads : pc[t] \in SharedLabels /\ depth[t] <= 1

MayNest(t) == depth[t] > 0 /\ depth[t] < MaxDepth

LocalsFit == \A t \in Threads :
  /\ pc[t] \notin {"ready", "again", "leave"} => depth[t] = 0
  /\ At(t, "again") => MayNest(t)
  /\ reading[t] => depth[t] = 1
  /\ pc[t] \in {"seize", "tryWrite"} => NoOwner(expected[t])
  /\ pc[t] \in {"enter", "tryRead"} => ReadersMayEnter(expected[t])

(* WordIsExact in terms of the threads inside.                             *)
WordFits == Kind("shared") =>
  /\ word.readers = Cardinality(Readers)
  /\ word.write_locked => Readers = {} /\ \E x \in Threads : Writers = {x}
  /\ ~word.write_locked => Writers = {}

LockInv ==
  CountIsDepth /\ OwnerIsInside /\ WordFits /\ PendingHasWriter /\ KindFits /\ LocalsFit

(* A step of a lock, by whatever call.                                     *)
LockMove(t) ==
  \/ Lock(t) \/ TryLock(t) \/ LockShared(t) \/ TryLockShared(t) \/ Unlock(t) \/ UnlockShared(t)
  \/ Inner(t) \/ Exchange(t) \/ Retry(t)

-----------------------------------------------------------------------------
\* What a setup may be.
LEMMA SetupKinds ==
  ASSUME TypeOK
  PROVE  /\ setup \in Setups /\ setup.threads \subseteq Threads
         /\ Kind("plain") \/ Kind("recursive") \/ Kind("shared")
         /\ ~(Kind("plain") /\ Kind("recursive"))
         /\ ~(Kind("plain") /\ Kind("shared"))
         /\ ~(Kind("recursive") /\ Kind("shared"))
  BY SpinlocksParameters DEF TypeOK, Kind

\* The initial word has no reader and no writer.
LEMMA FreeWord == Free \in Word /\ Free.readers = 0 /\ ~Free.write_pending /\ ~Free.write_locked
  BY DEF Word, Free

\* What the operations on the word do to its three fields.
LEMMA WordOps ==
  ASSUME NEW w \in Word
  PROVE  /\ w.readers \in Nat
         /\ /\ Seized(w) \in Word /\ Seized(w).readers = w.readers
            /\ Seized(w).write_locked /\ ~Seized(w).write_pending
         /\ /\ OneMoreReader(w) \in Word /\ OneMoreReader(w).readers = w.readers + 1
            /\ OneMoreReader(w).write_locked = w.write_locked
            /\ OneMoreReader(w).write_pending = w.write_pending
         /\ LET a == [w EXCEPT !.write_pending = TRUE] IN
              a \in Word /\ a.readers = w.readers /\ a.write_locked = w.write_locked
         /\ LET u == [w EXCEPT !.write_locked = FALSE] IN
              /\ u \in Word /\ u.readers = w.readers /\ ~u.write_locked
              /\ u.write_pending = w.write_pending
         /\ w.readers > 0 =>
              LET r == [w EXCEPT !.readers = @ - 1] IN
              /\ r \in Word /\ r.readers = w.readers - 1 /\ r.write_locked = w.write_locked
              /\ r.write_pending = w.write_pending
<1> USE DEF Word
<1>1. w.readers \in Nat
  OBVIOUS
<1>2. /\ Seized(w) \in Word /\ Seized(w).readers = w.readers
      /\ Seized(w).write_locked /\ ~Seized(w).write_pending
  BY DEF Seized
<1>3. /\ OneMoreReader(w) \in Word /\ OneMoreReader(w).readers = w.readers + 1
      /\ OneMoreReader(w).write_locked = w.write_locked
      /\ OneMoreReader(w).write_pending = w.write_pending
  BY DEF OneMoreReader
<1>4. LET a == [w EXCEPT !.write_pending = TRUE] IN
        a \in Word /\ a.readers = w.readers /\ a.write_locked = w.write_locked
  OBVIOUS
<1>5. LET u == [w EXCEPT !.write_locked = FALSE] IN
        /\ u \in Word /\ u.readers = w.readers /\ ~u.write_locked
        /\ u.write_pending = w.write_pending
  OBVIOUS
<1>6. w.readers > 0 =>
        LET r == [w EXCEPT !.readers = @ - 1] IN
        /\ r \in Word /\ r.readers = w.readers - 1 /\ r.write_locked = w.write_locked
        /\ r.write_pending = w.write_pending
  OBVIOUS
<1> HIDE DEF Word
<1>7. QED
  BY <1>1, <1>2, <1>3, <1>4, <1>5, <1>6

\* Readers and writers are finite sets.
LEMMA ReadersFinite ==
  /\ IsFiniteSet(Readers) /\ Cardinality(Readers) \in Nat
  /\ Cardinality(Readers) = 0 <=> Readers = {}
  /\ IsFiniteSet(Writers)
<1>1. Readers \subseteq Threads /\ Writers \subseteq Threads /\ IsFiniteSet(Threads)
  BY SpinlocksParameters DEF Readers, Writers
<1>2. QED
  BY <1>1, FS_Subset, FS_CardinalityType, FS_EmptySet

\* The inductive form of WordIsExact implies it.
LEMMA WordFitsIsExact == TypeOK /\ WordFits => WordIsExact
<1> SUFFICES ASSUME TypeOK, WordFits, Kind("shared")
             PROVE  /\ word.readers = Cardinality(Readers)
                    /\ Cardinality(Writers) = (IF word.write_locked THEN 1 ELSE 0)
                    /\ Writers # {} => Readers = {}
  BY DEF WordIsExact
<1>1. CASE word.write_locked
  BY <1>1, ReadersFinite, FS_Singleton DEF WordFits
<1>2. CASE ~word.write_locked
  BY <1>2, FS_EmptySet DEF WordFits
<1>3. QED
  BY <1>1, <1>2

\* A new lock is free.
LEMMA InitLock == Init => LockInv
<1> SUFFICES ASSUME Init PROVE LockInv
  OBVIOUS
<1>0. MaxDepth \in Nat \ {0} /\ NoThread \notin Threads
  BY SpinlocksParameters
<1>1. TypeOK
  BY <1>0, FreeWord DEF Init, TypeOK, Labels
<1>2. Readers = {} /\ Writers = {} /\ Inside = {}
  BY DEF Init, Readers, Writers, Inside, Counting
<1>3. CountIsDepth /\ OwnerIsInside
  BY <1>0, <1>1, <1>2 DEF Init, CountIsDepth, OwnerIsInside
<1>4. WordFits /\ PendingHasWriter
  BY <1>2, FreeWord, FS_EmptySet DEF Init, WordFits, PendingHasWriter
<1>5. KindFits
  BY DEF Init, KindFits, SharedLabels
<1>6. LocalsFit
  BY DEF Init, LocalsFit, At
<1>7. QED
  BY <1>3, <1>4, <1>5, <1>6 DEF LockInv

\* A move that changes neither the lock nor who is inside.
LEMMA QuietMove ==
  ASSUME LockInv, NEW t \in Threads, NEW l \in Labels, Goto(t, l),
         UNCHANGED <<setup, owner, recursion_count, word, depth, reading>>,
         expected' \in [Threads -> Word],
         \A u \in Threads : u # t => expected'[u] = expected[u],
         pc[t] \notin Counting,
         l = "again" => Kind("recursive") /\ MayNest(t),
         l \in {"ready", "again"} \/ (l \notin Counting /\ depth[t] = 0),
         pc[t] \in WriterWaits => l \in WriterWaits,
         Kind("plain") => l \in {"ready"} \cup Spinning,
         Kind("recursive") => l \in {"ready", "again"} \cup Spinning,
         Kind("shared") => l \in SharedLabels,
         l \in {"seize", "tryWrite"} => NoOwner(expected'[t]),
         l \in {"enter", "tryRead"} => ReadersMayEnter(expected'[t])
  PROVE  LockInv'
<1>0. pc \in [Threads -> Labels] /\ TypeOK
  BY DEF LockInv, CountIsDepth, TypeOK
<1>1. TypeOK'
  BY <1>0 DEF TypeOK, Goto
<1>2. Inside' = Inside
  BY <1>0 DEF Inside, Goto, Counting, MayNest
<1>3. OwnerIsInside'
  BY <1>2 DEF LockInv, OwnerIsInside, Kind
<1>4. CountIsDepth'
  BY <1>0, <1>1 DEF LockInv, CountIsDepth, Kind, At, Goto, Counting
<1>5. WordFits'
  BY DEF LockInv, WordFits, Kind, Readers, Writers
<1>6. PendingHasWriter'
  BY <1>0 DEF LockInv, PendingHasWriter, Goto
<1>7. KindFits'
  BY <1>0 DEF LockInv, KindFits, Kind, Goto, Counting
<1>8. LocalsFit'
  BY <1>0 DEF LockInv, LocalsFit, At, Goto, NoOwner, ReadersMayEnter, MayNest
<1>9. QED
  BY <1>3, <1>4, <1>5, <1>6, <1>7, <1>8 DEF LockInv

-----------------------------------------------------------------------------
(* The shared lock.                                                        *)

\* Facts about a thread of the shared lock that the steps below share.
LEMMA SharedFacts ==
  ASSUME LockInv, Kind("shared")
  PROVE  /\ TypeOK /\ word \in Word /\ owner = NoThread /\ owner \notin Threads
         /\ ~Kind("plain") /\ ~Kind("recursive")
         /\ word.readers = Cardinality(Readers)
         /\ word.write_locked => Readers = {} /\ \E x \in Threads : Writers = {x}
         /\ ~word.write_locked => Writers = {}
         /\ word.readers = 0 <=> Readers = {}
         /\ MaxDepth \in Nat /\ MaxDepth >= 1
         /\ \A t \in Threads : /\ pc[t] \in SharedLabels
                               /\ depth[t] \in {0, 1} /\ (reading[t] => depth[t] = 1)
<1>1. TypeOK /\ word \in Word /\ owner = NoThread
  BY DEF LockInv, CountIsDepth, TypeOK, KindFits
<1>2. MaxDepth \in Nat /\ MaxDepth >= 1 /\ NoThread \notin Threads
  BY SpinlocksParameters
<1>3. ~Kind("plain") /\ ~Kind("recursive")
  BY DEF Kind
<1>4. /\ word.readers = Cardinality(Readers)
      /\ word.write_locked => Readers = {} /\ \E x \in Threads : Writers = {x}
      /\ ~word.write_locked => Writers = {}
  BY DEF LockInv, WordFits
<1>5. word.readers = 0 <=> Readers = {}
  BY <1>4, ReadersFinite
<1>6. ASSUME NEW t \in Threads
      PROVE  pc[t] \in SharedLabels /\ depth[t] \in {0, 1} /\ (reading[t] => depth[t] = 1)
  <2>1. pc[t] \in SharedLabels /\ depth[t] <= 1 /\ depth[t] \in 0 .. MaxDepth
    BY <1>1 DEF LockInv, KindFits, TypeOK
  <2>2. reading[t] => depth[t] = 1
    BY DEF LockInv, LocalsFit
  <2>3. QED
    BY <1>2, <2>1, <2>2
<1>7. QED
  BY <1>1, <1>2, <1>3, <1>4, <1>5, <1>6

\* What a step of the shared lock need not show again: the parts of the
\* invariant that are about the other locks, and the label it ends at.
LEMMA SharedStep ==
  ASSUME LockInv, Kind("shared"), UNCHANGED <<setup, owner, recursion_count, expected>>,
         NEW t \in Threads, NEW l \in {"ready", "drain"}, Goto(t, l),
         l = "drain" => depth'[t] = 0,
         word' \in Word, depth' \in [Threads -> {0, 1}], reading' \in [Threads -> BOOLEAN],
         \A u \in Threads : u # t => depth'[u] = depth[u] /\ reading'[u] = reading[u],
         reading'[t] => depth'[t] = 1,
         WordFits', PendingHasWriter'
  PROVE  LockInv'
<1>1. TypeOK /\ owner \notin Threads /\ owner = NoThread /\ MaxDepth \in Nat /\ MaxDepth >= 1
  BY SharedFacts
<1>2. {0, 1} \subseteq 0 .. MaxDepth
  BY <1>1
<1>3. TypeOK'
  <2>1. depth' \in [Threads -> 0 .. MaxDepth]
    BY <1>2
  <2>2. pc' \in [Threads -> Labels]
    BY <1>1 DEF TypeOK, Goto, Labels, WriterWaits
  <2>3. QED
    BY <1>1, <2>1, <2>2 DEF TypeOK
<1>4. Kind("shared")' /\ ~Kind("plain")' /\ ~Kind("recursive")'
  BY DEF Kind
<1>5. CountIsDepth' /\ OwnerIsInside'
  BY <1>3, <1>4 DEF CountIsDepth, OwnerIsInside
<1>6. KindFits'
  <2>1. \A u \in Threads : pc'[u] \in SharedLabels /\ depth'[u] <= 1
    BY <1>1, SharedFacts DEF TypeOK, Goto, SharedLabels, WriterWaits
  <2>2. QED
    BY <1>1, <1>4, <2>1 DEF KindFits
<1>7. LocalsFit'
  BY <1>1 DEF TypeOK, Goto, At, LockInv, LocalsFit, NoOwner, ReadersMayEnter, MayNest
<1>8. QED
  BY <1>5, <1>6, <1>7 DEF LockInv

\* A writer enters a lock that nobody owns.
LEMMA WriterEnters ==
  ASSUME LockInv, Kind("shared"), NEW t \in Threads, depth[t] = 0, NoOwner(word),
         word' = Seized(word), Opened(t),
         UNCHANGED <<setup, owner, recursion_count, expected, reading>>
  PROVE  LockInv'
<1>1. TypeOK /\ word \in Word /\ Readers = {} /\ Writers = {} /\ ~reading[t]
  BY SharedFacts DEF NoOwner
<1>2. /\ word' \in Word /\ word'.readers = 0 /\ word'.write_locked /\ ~word'.write_pending
  BY <1>1, WordOps DEF NoOwner
<1>3. depth' = [depth EXCEPT ![t] = 1] /\ Goto(t, "ready")
  BY <1>1 DEF Opened, TypeOK
<1>4. Readers' = {} /\ Writers' = {t}
  BY <1>1, <1>3 DEF Readers, Writers, TypeOK
<1>5. WordFits'
  BY <1>2, <1>4, FS_EmptySet DEF WordFits
<1>6. depth' \in [Threads -> {0, 1}] /\ reading' \in [Threads -> BOOLEAN]
  BY <1>1, <1>3, SharedFacts DEF TypeOK
<1>7. QED
  BY <1>1, <1>2, <1>3, <1>5, <1>6, SharedStep DEF PendingHasWriter, TypeOK

\* A reader enters a lock that no writer owns or waits for.
LEMMA ReaderEnters ==
  ASSUME LockInv, Kind("shared"), NEW t \in Threads, depth[t] = 0, ReadersMayEnter(word),
         word' = OneMoreReader(word), Opened(t), reading' = [reading EXCEPT ![t] = TRUE],
         UNCHANGED <<setup, owner, recursion_count, expected>>
  PROVE  LockInv'
<1>1. TypeOK /\ word \in Word /\ Writers = {} /\ word.readers = Cardinality(Readers)
  BY SharedFacts DEF ReadersMayEnter
<1>2. /\ word' \in Word /\ word'.readers = word.readers + 1
      /\ ~word'.write_locked /\ ~word'.write_pending
  BY <1>1, WordOps DEF ReadersMayEnter
<1>3. depth' = [depth EXCEPT ![t] = 1] /\ Goto(t, "ready")
  BY <1>1 DEF Opened, TypeOK
<1>4. Readers' = Readers \cup {t} /\ t \notin Readers /\ Writers' = {}
  BY <1>1, <1>3 DEF Readers, Writers, TypeOK
<1>5. Cardinality(Readers') = Cardinality(Readers) + 1
  BY <1>4, ReadersFinite, FS_AddElement
<1>6. WordFits'
  BY <1>1, <1>2, <1>4, <1>5 DEF WordFits
<1>7. depth' \in [Threads -> {0, 1}] /\ reading' \in [Threads -> BOOLEAN]
  BY <1>1, <1>3, SharedFacts DEF TypeOK
<1>8. QED
  BY <1>1, <1>2, <1>3, <1>6, <1>7, SharedStep DEF PendingHasWriter, TypeOK

\* The writer leaves: it was alone.
LEMMA WriterLeaves ==
  ASSUME LockInv, NEW t \in Threads, shared_unlock(t), setup' = setup
  PROVE  LockInv'
<1>0. /\ Kind("shared") /\ pc[t] = "ready" /\ depth[t] > 0 /\ ~reading[t]
      /\ word' = [word EXCEPT !.write_locked = FALSE] /\ Closed(t, "ready")
      /\ UNCHANGED <<owner, recursion_count, expected, reading>>
  BY DEF shared_unlock, At, ownerVars
<1>1. TypeOK /\ word \in Word /\ depth[t] = 1 /\ t \in Writers
  BY <1>0, SharedFacts DEF Writers
<1>2. Readers = {} /\ Writers = {t} /\ word.readers = 0
  BY <1>0, <1>1, SharedFacts
<1>3. /\ word' \in Word /\ word'.readers = 0 /\ ~word'.write_locked
      /\ word'.write_pending = word.write_pending
  BY <1>0, <1>1, <1>2, WordOps
<1>4. depth' = [depth EXCEPT ![t] = 0] /\ Goto(t, "ready")
  BY <1>0, <1>1 DEF Closed, TypeOK
<1>5. Readers' = {} /\ Writers' = {}
  BY <1>0, <1>1, <1>2, <1>4 DEF Readers, Writers, TypeOK
<1>6. WordFits'
  BY <1>3, <1>5, FS_EmptySet DEF WordFits
<1>7. PendingHasWriter'
  BY <1>0, <1>1, <1>3, <1>4 DEF LockInv, PendingHasWriter, Goto, TypeOK, WriterWaits
<1>8. depth' \in [Threads -> {0, 1}]
  BY <1>0, <1>1, <1>4, SharedFacts DEF TypeOK
<1>9. QED
  BY <1>0, <1>1, <1>3, <1>4, <1>6, <1>7, <1>8, SharedStep DEF TypeOK

\* A reader leaves: it was counted.
LEMMA ReaderLeaves ==
  ASSUME LockInv, NEW t \in Threads, unlock_shared(t), setup' = setup
  PROVE  LockInv'
<1>0. /\ Kind("shared") /\ pc[t] = "ready" /\ depth[t] > 0 /\ reading[t]
      /\ word' = [word EXCEPT !.readers = @ - 1] /\ Closed(t, "ready")
      /\ reading' = [reading EXCEPT ![t] = FALSE]
      /\ UNCHANGED <<owner, recursion_count, expected>>
  BY DEF unlock_shared, At, ownerVars
<1>1. TypeOK /\ word \in Word /\ depth[t] = 1 /\ t \in Readers
  BY <1>0, SharedFacts DEF Readers
<1>2. ~word.write_locked /\ Writers = {} /\ word.readers = Cardinality(Readers) /\ word.readers > 0
  BY <1>0, <1>1, SharedFacts, ReadersFinite
<1>3. /\ word' \in Word /\ word'.readers = word.readers - 1
      /\ ~word'.write_locked /\ word'.write_pending = word.write_pending
  BY <1>0, <1>1, <1>2, WordOps
<1>4. depth' = [depth EXCEPT ![t] = 0] /\ Goto(t, "ready")
  BY <1>0, <1>1 DEF Closed, TypeOK
<1>5. Readers' = Readers \ {t} /\ Writers' = {}
  BY <1>0, <1>1, <1>2, <1>4 DEF Readers, Writers, TypeOK
<1>6. Cardinality(Readers') = Cardinality(Readers) - 1
  BY <1>1, <1>5, ReadersFinite, FS_RemoveElement
<1>7. WordFits'
  BY <1>2, <1>3, <1>5, <1>6 DEF WordFits
<1>8. PendingHasWriter'
  BY <1>0, <1>1, <1>3, <1>4 DEF LockInv, PendingHasWriter, Goto, TypeOK, WriterWaits
<1>9. depth' \in [Threads -> {0, 1}] /\ reading' \in [Threads -> BOOLEAN]
  BY <1>0, <1>1, <1>4, SharedFacts DEF TypeOK
<1>10. QED
  BY <1>0, <1>1, <1>3, <1>4, <1>7, <1>8, <1>9, SharedStep DEF TypeOK

\* A writer announces itself and goes on waiting.
LEMMA WriterAnnounces ==
  ASSUME LockInv, Kind("shared"), NEW t \in Threads, announce(t), setup' = setup
  PROVE  LockInv'
<1>0. /\ pc[t] = "announce" /\ word' = [word EXCEPT !.write_pending = TRUE] /\ Goto(t, "drain")
      /\ UNCHANGED <<owner, recursion_count, expected, depth, reading>>
  BY DEF announce, At, ownerVars
<1>1. TypeOK /\ word \in Word
  BY SharedFacts
<1>2. word' \in Word /\ word'.readers = word.readers /\ word'.write_locked = word.write_locked
  BY <1>0, <1>1, WordOps
<1>3. Readers' = Readers /\ Writers' = Writers
  BY <1>0 DEF Readers, Writers
<1>4. WordFits'
  BY <1>2, <1>3 DEF LockInv, WordFits, Kind
<1>5. PendingHasWriter'
  BY <1>0, <1>1 DEF PendingHasWriter, Goto, TypeOK, WriterWaits
<1>6. depth' \in [Threads -> {0, 1}] /\ depth[t] = 0
  BY <1>0, <1>1, SharedFacts DEF TypeOK, LockInv, LocalsFit
<1>7. QED
  BY <1>0, <1>1, <1>2, <1>4, <1>5, <1>6, SharedStep, SharedFacts DEF TypeOK

-----------------------------------------------------------------------------
(* The plain and the recursive lock.                                       *)

\* What the steps below share.
LEMMA OwnerFacts ==
  ASSUME LockInv, ~Kind("shared")
  PROVE  /\ TypeOK /\ word = Free /\ Inside = {owner} \ {NoThread} /\ NoThread \notin Threads
         /\ MaxDepth \in Nat /\ MaxDepth >= 1
         /\ \A t \in Threads : /\ t \in Inside <=> owner = t
                               /\ depth[t] \in Nat /\ depth[t] <= MaxDepth
                               /\ ~reading[t]
<1>1. TypeOK /\ word = Free /\ Inside = {owner} \ {NoThread} /\ \A t \in Threads : ~reading[t]
  BY DEF LockInv, CountIsDepth, KindFits, OwnerIsInside
<1>2. MaxDepth \in Nat /\ MaxDepth >= 1 /\ NoThread \notin Threads
  BY SpinlocksParameters
<1>3. \A t \in Threads : depth[t] \in Nat /\ depth[t] <= MaxDepth
  BY <1>1, <1>2 DEF TypeOK
<1>4. QED
  BY <1>1, <1>2, <1>3

\* What a step of these locks need not show again.
LEMMA OwnerStep ==
  ASSUME LockInv, ~Kind("shared"), UNCHANGED <<setup, word, expected, reading>>,
         NEW t \in Threads, NEW l \in {"ready"} \cup Counting, Goto(t, l),
         l # "ready" => Kind("recursive"),
         owner' \in Threads \cup {NoThread}, recursion_count' \in 0 .. MaxDepth,
         depth' \in [Threads -> 0 .. MaxDepth],
         \A u \in Threads : u # t => depth'[u] = depth[u],
         Kind("plain") => depth'[t] <= 1,
         l \notin {"ready", "leave"} => depth'[t] = 0,
         l # "again",
         OwnerIsInside',
         Kind("recursive") => \A u \in Threads : owner' = u /\ pc'[u] # "first" =>
            recursion_count' = depth'[u] + (IF pc'[u] = "leave" THEN 1 ELSE 0)
  PROVE  LockInv'
<1>1. TypeOK /\ word = Free
  BY OwnerFacts
<1>2. TypeOK'
  <2>1. pc' \in [Threads -> Labels]
    BY <1>1 DEF TypeOK, Goto, Labels
  <2>2. QED
    BY <1>1, <2>1 DEF TypeOK
<1>3. CountIsDepth'
  BY <1>2 DEF CountIsDepth, Kind, At
<1>4. WordFits' /\ PendingHasWriter'
  BY <1>1, FreeWord DEF WordFits, PendingHasWriter, Kind
<1>5. KindFits'
  BY <1>1 DEF LockInv, KindFits, Kind, Goto, TypeOK, Counting
<1>6. LocalsFit'
  BY <1>1, OwnerFacts DEF LockInv, LocalsFit, At, Goto, TypeOK, NoOwner, ReadersMayEnter, MayNest,
                            Counting
<1>7. QED
  BY <1>3, <1>4, <1>5, <1>6 DEF LockInv

\* A thread takes the plain lock.
LEMMA PlainEnters ==
  ASSUME LockInv, Kind("plain"), NEW t \in Threads, owner = NoThread, owner' = t, Opened(t),
         UNCHANGED <<setup, recursion_count, word, expected, reading>>
  PROVE  LockInv'
<1>0. ~Kind("shared") /\ ~Kind("recursive")
  BY DEF Kind
<1>1. TypeOK /\ Inside = {} /\ depth[t] = 0 /\ MaxDepth \in Nat /\ MaxDepth >= 1
  BY <1>0, OwnerFacts DEF Inside
<1>2. depth' = [depth EXCEPT ![t] = 1] /\ Goto(t, "ready")
  BY <1>1 DEF Opened, TypeOK
<1>3. Inside' = {t}
  BY <1>1, <1>2 DEF Inside, Goto, TypeOK, Counting
<1>4. OwnerIsInside'
  BY <1>3, OwnerFacts, SpinlocksParameters DEF OwnerIsInside
<1>5. depth' \in [Threads -> 0 .. MaxDepth]
  BY <1>1, <1>2 DEF TypeOK
<1>6. QED
  BY <1>0, <1>1, <1>2, <1>4, <1>5, OwnerStep DEF TypeOK

\* The owner frees the plain lock.
LEMMA PlainLeaves ==
  ASSUME LockInv, NEW t \in Threads, plain_unlock(t), setup' = setup
  PROVE  LockInv'
<1>0. /\ Kind("plain") /\ ~Kind("shared") /\ ~Kind("recursive") /\ depth[t] > 0
      /\ owner' = NoThread /\ Closed(t, "ready")
      /\ UNCHANGED <<recursion_count, word, expected, reading>>
  BY DEF plain_unlock, Kind
<1>1. TypeOK /\ Inside = {t} /\ depth[t] = 1 /\ MaxDepth \in Nat
  <2>1. t \in Inside /\ depth[t] <= 1 /\ depth[t] \in Nat
    BY <1>0, OwnerFacts DEF Inside, LockInv, KindFits
  <2>2. QED
    BY <1>0, <2>1, OwnerFacts
<1>2. depth' = [depth EXCEPT ![t] = 0] /\ Goto(t, "ready")
  BY <1>0, <1>1 DEF Closed, TypeOK
<1>3. Inside' = {}
  BY <1>1, <1>2 DEF Inside, Goto, TypeOK, Counting
<1>4. OwnerIsInside'
  BY <1>0, <1>3 DEF OwnerIsInside
<1>5. depth' \in [Threads -> 0 .. MaxDepth]
  BY <1>1, <1>2 DEF TypeOK
<1>6. QED
  BY <1>0, <1>1, <1>2, <1>4, <1>5, OwnerStep DEF TypeOK

\* A thread becomes the owner of the recursive lock.
LEMMA OwnerEnters ==
  ASSUME LockInv, Kind("recursive"), NEW t \in Threads, owner = NoThread, owner' = t,
         Goto(t, "first"), UNCHANGED <<setup, recursion_count, word, expected, depth, reading>>
  PROVE  LockInv'
<1>0. ~Kind("shared") /\ ~Kind("plain")
  BY DEF Kind
<1>1. TypeOK /\ Inside = {} /\ depth[t] = 0
  BY <1>0, OwnerFacts DEF Inside
<1>2. Inside' = {t}
  BY <1>1 DEF Inside, Goto, TypeOK, Counting
<1>3. OwnerIsInside'
  BY <1>2, SpinlocksParameters DEF OwnerIsInside
<1>4. \A u \in Threads : owner' = u => pc'[u] = "first"
  BY <1>1 DEF Goto, TypeOK
<1>5. QED
  BY <1>0, <1>1, <1>3, <1>4, OwnerStep DEF TypeOK, Counting

\* The owner accesses the recursion count: it sets it, increments it,
\* decrements it or frees the lock.
LEMMA OwnerCounts ==
  ASSUME LockInv, NEW t \in Threads, setup' = setup,
         set_count(t) \/ increment(t) \/ recursive_unlock(t) \/ decrement(t) \/ free_owner(t)
  PROVE  LockInv'
<1>0. /\ Kind("recursive") /\ ~Kind("shared") /\ ~Kind("plain")
      /\ pc[t] \in Counting \/ depth[t] > 0
      /\ UNCHANGED <<word, expected, reading>>
  <2>1. Kind("recursive") \/ pc[t] \in Counting
    BY DEF set_count, increment, recursive_unlock, decrement, free_owner, At, Counting
  <2>2. Kind("recursive")
    <3>1. TypeOK
      BY DEF LockInv, CountIsDepth
    <3>2. QED
      BY <2>1, <3>1, SetupKinds
      DEF LockInv, KindFits, Counting, Spinning, SharedLabels, WriterWaits, ReaderWaits
  <2>3. QED
    BY <2>2 DEF set_count, increment, recursive_unlock, decrement, free_owner, At, Counting, Kind
<1>1. /\ TypeOK /\ Inside = {t} /\ owner = t /\ NoThread \notin Threads
      /\ MaxDepth \in Nat /\ MaxDepth >= 1 /\ depth[t] \in Nat /\ depth[t] <= MaxDepth
      /\ recursion_count \in 0 .. MaxDepth
  <2>1. t \in Inside
    BY <1>0 DEF Inside
  <2>2. QED
    BY <1>0, <2>1, OwnerFacts DEF TypeOK
<1>2. pc[t] # "first" => recursion_count = depth[t] + (IF pc[t] = "leave" THEN 1 ELSE 0)
  BY <1>0, <1>1 DEF LockInv, CountIsDepth, At
<1>3. ASSUME NEW d \in 0 .. MaxDepth, depth' = [depth EXCEPT ![t] = d],
             NEW l \in {"ready", "leave", "store"}, Goto(t, l),
             owner' = t, l = "ready" => d > 0, l = "store" => d = 0,
             l = "leave" => recursion_count' = d + 1, l # "leave" => recursion_count' = d,
             recursion_count' \in 0 .. MaxDepth
      PROVE  LockInv'
  <2>1. Inside' = {t}
    BY <1>1, <1>3 DEF Inside, Goto, TypeOK, Counting
  <2>2. OwnerIsInside'
    BY <1>1, <1>3, <2>1 DEF OwnerIsInside
  <2>3. depth' \in [Threads -> 0 .. MaxDepth] /\ depth'[t] = d /\ pc'[t] = l
    BY <1>1, <1>3 DEF TypeOK, Goto
  <2>4. \A u \in Threads : u # t => depth'[u] = depth[u]
    BY <1>1, <1>3 DEF TypeOK
  <2>5. l \in {"ready"} \cup Counting /\ l # "again" /\ l # "first"
    BY <1>3 DEF Counting
  <2>6. recursion_count' = d + (IF l = "leave" THEN 1 ELSE 0)
    BY <1>3
  <2>7. \A u \in Threads : owner' = u /\ pc'[u] # "first" =>
          recursion_count' = depth'[u] + (IF pc'[u] = "leave" THEN 1 ELSE 0)
    BY <1>3, <2>3, <2>6
  <2>8. QED
    BY <1>0, <1>1, <1>3, <2>2, <2>3, <2>4, <2>5, <2>7, OwnerStep
<1>4. CASE set_count(t)
  <2>1. pc[t] = "first" /\ recursion_count' = 1 /\ owner' = owner /\ Opened(t)
    BY <1>4 DEF set_count, At
  <2>2. depth[t] = 0
    BY <2>1 DEF LockInv, LocalsFit
  <2>3. depth' = [depth EXCEPT ![t] = 1] /\ Goto(t, "ready")
    BY <1>1, <2>1, <2>2 DEF Opened, TypeOK
  <2>4. owner' = t /\ 1 \in 0 .. MaxDepth /\ 1 > 0 /\ recursion_count' = 1
    BY <1>1, <2>1
  <2>5. QED
    BY <1>3, <2>3, <2>4
<1>5. CASE increment(t)
  <2>1. pc[t] = "again" /\ recursion_count' = recursion_count + 1 /\ owner' = owner /\ Opened(t)
    BY <1>5 DEF increment, At
  <2>2. depth[t] > 0 /\ depth[t] < MaxDepth /\ recursion_count = depth[t]
    BY <1>1, <1>2, <2>1 DEF LockInv, LocalsFit, At, MayNest
  <2>3. depth' = [depth EXCEPT ![t] = depth[t] + 1] /\ Goto(t, "ready")
    BY <1>1, <2>1 DEF Opened, TypeOK
  <2>4. /\ owner' = t /\ depth[t] + 1 \in 0 .. MaxDepth /\ depth[t] + 1 > 0
        /\ recursion_count' = depth[t] + 1
    BY <1>1, <2>1, <2>2
  <2>5. QED
    BY <1>3, <2>3, <2>4
<1>6. CASE recursive_unlock(t)
  <2>1. /\ pc[t] = "ready" /\ depth[t] > 0 /\ Closed(t, "leave")
        /\ UNCHANGED <<owner, recursion_count>>
    BY <1>6 DEF recursive_unlock, At
  <2>2. depth' = [depth EXCEPT ![t] = depth[t] - 1] /\ Goto(t, "leave")
    BY <1>1, <2>1 DEF Closed, TypeOK
  <2>3. /\ recursion_count' = (depth[t] - 1) + 1 /\ depth[t] - 1 \in 0 .. MaxDepth
        /\ recursion_count' \in 0 .. MaxDepth /\ owner' = t
    BY <1>1, <1>2, <2>1
  <2>4. QED
    BY <1>3, <2>2, <2>3
<1>7. CASE decrement(t)
  <2>1. /\ pc[t] = "leave" /\ recursion_count' = recursion_count - 1
        /\ Goto(t, IF recursion_count = 1 THEN "store" ELSE "ready")
        /\ UNCHANGED <<owner, depth>>
    BY <1>7 DEF decrement, At
  <2>2. recursion_count = depth[t] + 1
    BY <1>1, <1>2, <2>1
  <2>3. /\ depth' = [depth EXCEPT ![t] = depth[t]] /\ owner' = t
        /\ depth[t] \in 0 .. MaxDepth /\ recursion_count' = depth[t]
    BY <1>1, <2>1, <2>2 DEF TypeOK
  <2>4. CASE recursion_count = 1
    <3>1. depth[t] = 0 /\ Goto(t, "store")
      BY <1>1, <2>1, <2>2, <2>4
    <3>2. QED
      BY <1>3, <2>3, <3>1
  <2>5. CASE recursion_count # 1
    <3>1. depth[t] > 0 /\ Goto(t, "ready")
      BY <1>1, <2>1, <2>2, <2>5
    <3>2. QED
      BY <1>3, <2>3, <3>1
  <2>6. QED
    BY <2>4, <2>5
<1>8. CASE free_owner(t)
  <2>1. /\ pc[t] = "store" /\ owner' = NoThread /\ Goto(t, "ready")
        /\ UNCHANGED <<recursion_count, depth>>
    BY <1>8 DEF free_owner, At
  <2>2. depth[t] = 0
    BY <2>1 DEF LockInv, LocalsFit
  <2>3. Inside' = {}
    BY <1>1, <2>1, <2>2 DEF Inside, Goto, TypeOK, Counting
  <2>4. OwnerIsInside'
    BY <2>1, <2>3 DEF OwnerIsInside
  <2>5. QED
    BY <1>0, <1>1, <2>1, <2>2, <2>4, OwnerStep DEF TypeOK
<1>9. QED
  BY <1>4, <1>5, <1>6, <1>7, <1>8

-----------------------------------------------------------------------------
(* Every step of a lock.                                                   *)

\* The label a thread is at tells the kind of lock.
LEMMA LabelKind ==
  ASSUME LockInv, NEW t \in Threads
  PROVE  /\ TypeOK /\ pc[t] \in Labels
         /\ pc[t] \in Spinning => ~Kind("shared") /\ (Kind("plain") \/ Kind("recursive"))
         /\ pc[t] \in {"tryWrite", "tryRead"} \cup WriterWaits \cup ReaderWaits =>
              Kind("shared") /\ ~Kind("plain") /\ ~Kind("recursive")
         /\ pc[t] \notin {"ready", "again", "leave"} => depth[t] = 0
         /\ depth[t] \in Nat
         /\ ~(Kind("plain") /\ Kind("recursive"))
<1>1. TypeOK /\ pc[t] \in Labels /\ depth[t] \in 0 .. MaxDepth /\ MaxDepth \in Nat
  BY SpinlocksParameters DEF LockInv, CountIsDepth, TypeOK
<1>2. /\ Kind("plain") => pc[t] \in {"ready"} \cup Spinning
      /\ Kind("recursive") => pc[t] \in {"ready"} \cup Spinning \cup Counting
      /\ Kind("shared") => pc[t] \in SharedLabels
      /\ pc[t] \notin {"ready", "again", "leave"} => depth[t] = 0
  BY DEF LockInv, KindFits, LocalsFit
<1>3. /\ Spinning \cap SharedLabels = {}
      /\ ({"tryWrite", "tryRead"} \cup WriterWaits \cup ReaderWaits)
           \cap ({"ready"} \cup Spinning \cup Counting) = {}
  BY DEF Spinning, SharedLabels, WriterWaits, ReaderWaits, Counting
<1>4. QED
  BY <1>1, <1>2, <1>3, SetupKinds

\* The steps of the plain and of the recursive lock that only look and wait.
LEMMA SpinningQuiet ==
  ASSUME LockInv, NEW t \in Threads, setup' = setup,
         \/ plain_lock(t) \/ recursive_lock(t) \/ spin(t) \/ exchange_fails(t)
         \/ (plain_lock_slow(t) /\ owner # NoThread)
         \/ (recursive_try_lock(t) /\ owner = t)
  PROVE  LockInv'
<1>0. TypeOK /\ \A u \in Threads : expected'[u] = expected[u]
  BY LabelKind DEF plain_lock, recursive_lock, spin, exchange_fails, plain_lock_slow,
                   recursive_try_lock
<1>1. expected' \in [Threads -> Word]
  BY <1>0 DEF TypeOK, plain_lock, recursive_lock, spin, exchange_fails, plain_lock_slow,
              recursive_try_lock
<1>2. CASE \/ plain_lock(t) \/ recursive_lock(t) \/ exchange_fails(t)
           \/ (plain_lock_slow(t) /\ owner # NoThread)
  <2>1. /\ pc[t] \in {"ready", "exchange"} /\ Goto(t, "spin")
        /\ UNCHANGED <<owner, recursion_count, word, depth, reading>>
        /\ Kind("plain") \/ Kind("recursive")
    BY <1>2 DEF plain_lock, recursive_lock, exchange_fails, plain_lock_slow, At
  <2>2. ~Kind("shared")
    BY <2>1 DEF Kind
  <2>3. depth[t] = 0
    <3>1. CASE plain_lock(t) \/ pc[t] = "exchange"
      BY <3>1, LabelKind DEF plain_lock
    <3>2. CASE recursive_lock(t)
      <4>1. t \notin Inside
        BY <2>2, <3>2, OwnerFacts DEF recursive_lock
      <4>2. QED
        BY <4>1, LabelKind DEF Inside
    <3>3. QED
      BY <1>2, <2>1, <3>1, <3>2 DEF exchange_fails, plain_lock_slow, At
  <2>4. QED
    BY <1>0, <1>1, <2>1, <2>2, <2>3, QuietMove DEF Labels, Spinning, Counting, WriterWaits
<1>3. CASE spin(t)
  <2>1. /\ pc[t] = "spin" /\ Goto(t, "exchange")
        /\ UNCHANGED <<owner, recursion_count, word, depth, reading>>
    BY <1>3 DEF spin, At
  <2>2. ~Kind("shared") /\ depth[t] = 0
    BY <2>1, LabelKind DEF Spinning
  <2>3. QED
    BY <1>0, <1>1, <2>1, <2>2, QuietMove DEF Labels, Spinning, Counting, WriterWaits
<1>4. CASE recursive_try_lock(t) /\ owner = t
  <2>1. /\ Kind("recursive") /\ pc[t] = "ready" /\ depth[t] < MaxDepth /\ Goto(t, "again")
        /\ UNCHANGED <<owner, recursion_count, word, depth, reading>>
    BY <1>4, SpinlocksParameters DEF recursive_try_lock, At
  <2>2. ~Kind("shared") /\ ~Kind("plain")
    BY <2>1 DEF Kind
  <2>3. depth[t] > 0
    BY <1>4, <2>1, <2>2, OwnerFacts DEF Inside, Counting
  <2>4. "again" \in Labels /\ pc[t] \notin Counting /\ pc[t] \notin WriterWaits
    BY <2>1 DEF Labels, Counting, WriterWaits
  <2>5. MayNest(t)
    BY <2>1, <2>3 DEF MayNest
  <2>6. QED
    BY <1>0, <1>1, <2>1, <2>2, <2>4, <2>5, QuietMove
<1>5. QED
  BY <1>2, <1>3, <1>4

\* The steps of the plain and of the recursive lock that acquire.
LEMMA SpinningEnters ==
  ASSUME LockInv, NEW t \in Threads, setup' = setup,
         \/ plain_try_lock(t) \/ exchange(t)
         \/ (plain_lock_slow(t) /\ owner = NoThread)
         \/ (recursive_try_lock(t) /\ owner # t)
  PROVE  LockInv'
<1>1. CASE plain_try_lock(t) \/ (plain_lock_slow(t) /\ owner = NoThread)
  BY <1>1, PlainEnters DEF plain_try_lock, plain_lock_slow
<1>2. CASE exchange(t) \/ (recursive_try_lock(t) /\ owner # t)
  BY <1>2, OwnerEnters DEF exchange, recursive_try_lock
<1>3. QED
  BY <1>1, <1>2

\* The steps of the shared lock that leave the word alone: they read it,
\* fail, or start over.
LEMMA SharedQuiet ==
  ASSUME LockInv, NEW t \in Threads, setup' = setup,
         \/ (shared_lock(t) /\ word # Free)
         \/ look(t) \/ drain(t) \/ slow_retry(t) \/ shared_try_lock(t)
         \/ (try_lock_exchange(t) /\ word # expected[t])
         \/ lock_shared(t) \/ look_shared(t) \/ enter_retry(t) \/ try_lock_shared(t)
         \/ (try_lock_shared_exchange(t) /\ word # expected[t])
  PROVE  LockInv'
<1> USE DEF At, ownerVars, Outside
<1>0. TypeOK /\ word \in Word /\ expected \in [Threads -> Word]
  BY LabelKind DEF TypeOK
<1>1. Kind("shared") /\ ~Kind("plain") /\ ~Kind("recursive") /\ depth[t] = 0
  <2>1. Kind("shared") \/ pc[t] \in {"tryWrite", "tryRead"} \cup WriterWaits \cup ReaderWaits
    BY DEF shared_lock, look, drain, slow_retry, shared_try_lock, try_lock_exchange, lock_shared,
           look_shared, enter_retry, try_lock_shared, try_lock_shared_exchange,
           WriterWaits, ReaderWaits
  <2>2. Kind("shared") /\ ~Kind("plain") /\ ~Kind("recursive")
    BY <2>1, LabelKind DEF Kind
  <2>3. pc[t] \notin {"ready", "again", "leave"} \/ depth[t] = 0
    BY DEF shared_lock, look, drain, slow_retry, shared_try_lock, try_lock_exchange, lock_shared,
           look_shared, enter_retry, try_lock_shared, try_lock_shared_exchange
  <2>4. QED
    BY <2>2, <2>3, LabelKind
<1>2. ASSUME NEW l \in SharedLabels, Goto(t, l),
             UNCHANGED <<owner, recursion_count, word, depth, reading>>,
             pc[t] \notin Counting, pc[t] \in WriterWaits => l \in WriterWaits,
             \/ expected' = expected /\ l \notin {"seize", "tryWrite", "enter", "tryRead"}
             \/ /\ Read(t)
                /\ l \in {"seize", "tryWrite"} => NoOwner(word)
                /\ l \in {"enter", "tryRead"} => ReadersMayEnter(word)
      PROVE  LockInv'
  <2>1. l \in Labels /\ l \notin Counting /\ l # "again"
    BY <1>2 DEF SharedLabels, Labels, WriterWaits, ReaderWaits, Counting
  <2>2. /\ expected' \in [Threads -> Word]
        /\ \A u \in Threads : u # t => expected'[u] = expected[u]
        /\ l \in {"seize", "tryWrite"} => NoOwner(expected'[t])
        /\ l \in {"enter", "tryRead"} => ReadersMayEnter(expected'[t])
    BY <1>0, <1>2 DEF Read
  <2>3. QED
    BY <1>1, <1>2, <2>1, <2>2, QuietMove
<1>3. CASE shared_lock(t) /\ word # Free
  BY <1>2, <1>3 DEF shared_lock, SharedLabels, WriterWaits, ReaderWaits, Counting
<1>4. CASE look(t)
  <2>1. PICK l : l = IF word.readers = 0 THEN "seize"
                     ELSE IF word.write_pending THEN "drain" ELSE "announce"
    OBVIOUS
  <2>2. l \in {"seize", "drain", "announce"} /\ (l = "seize" => word.readers = 0)
    BY <2>1
  <2>3. /\ Goto(t, l) /\ ~word.write_locked /\ Read(t) /\ pc[t] = "look"
        /\ UNCHANGED <<owner, recursion_count, word, depth, reading>>
    BY <1>4, <2>1 DEF look
  <2>4. l = "seize" => NoOwner(word)
    BY <2>2, <2>3 DEF NoOwner
  <2>5. l \in SharedLabels /\ l \in WriterWaits /\ pc[t] \notin Counting
    BY <2>2, <2>3 DEF SharedLabels, WriterWaits, Counting
  <2>6. QED
    BY <1>2, <2>2, <2>3, <2>4, <2>5
<1>5. CASE drain(t)
  BY <1>2, <1>5 DEF drain, SharedLabels, WriterWaits, Counting
<1>6. CASE slow_retry(t)
  BY <1>2, <1>6 DEF slow_retry, SharedLabels, WriterWaits, Counting
<1>7. CASE shared_try_lock(t)
  BY <1>2, <1>7 DEF shared_try_lock, SharedLabels, WriterWaits, Counting
<1>8. CASE try_lock_exchange(t) /\ word # expected[t]
  BY <1>2, <1>8 DEF try_lock_exchange, SharedLabels, WriterWaits, Counting
<1>9. CASE lock_shared(t)
  BY <1>2, <1>9 DEF lock_shared, SharedLabels, WriterWaits, ReaderWaits, Counting
<1>10. CASE look_shared(t)
  BY <1>2, <1>10 DEF look_shared, SharedLabels, WriterWaits, ReaderWaits, Counting
<1>11. CASE enter_retry(t)
  BY <1>2, <1>11 DEF enter_retry, SharedLabels, WriterWaits, ReaderWaits, Counting
<1>12. CASE try_lock_shared(t)
  BY <1>2, <1>12 DEF try_lock_shared, SharedLabels, WriterWaits, Counting
<1>13. CASE try_lock_shared_exchange(t) /\ word # expected[t]
  BY <1>2, <1>13 DEF try_lock_shared_exchange, SharedLabels, WriterWaits, Counting
<1>14. QED
  BY <1>3, <1>4, <1>5, <1>6, <1>7, <1>8, <1>9, <1>10, <1>11, <1>12, <1>13

\* The steps of the shared lock that acquire it.
LEMMA SharedEnters ==
  ASSUME LockInv, NEW t \in Threads, setup' = setup,
         \/ (shared_lock(t) /\ word = Free)
         \/ seize(t) \/ (try_lock_exchange(t) /\ word = expected[t])
         \/ enter(t) \/ (try_lock_shared_exchange(t) /\ word = expected[t])
  PROVE  LockInv'
<1> USE DEF At, ownerVars, Outside
<1>1. CASE shared_lock(t) /\ word = Free
  BY <1>1, FreeWord, WriterEnters DEF shared_lock, NoOwner
<1>2. CASE seize(t) \/ (try_lock_exchange(t) /\ word = expected[t])
  <2>1. /\ pc[t] \in {"seize", "tryWrite"} /\ word = expected[t] /\ word' = Seized(word)
        /\ Opened(t) /\ UNCHANGED <<owner, recursion_count, expected, reading>>
    BY <1>2 DEF seize, try_lock_exchange
  <2>2. NoOwner(word)
    BY <2>1 DEF LockInv, LocalsFit
  <2>3. Kind("shared") /\ depth[t] = 0
    BY <2>1, LabelKind DEF WriterWaits
  <2>4. QED
    BY <2>1, <2>2, <2>3, WriterEnters
<1>3. CASE enter(t) \/ (try_lock_shared_exchange(t) /\ word = expected[t])
  <2>1. /\ pc[t] \in {"enter", "tryRead"} /\ word = expected[t] /\ word' = OneMoreReader(word)
        /\ reading' = [reading EXCEPT ![t] = TRUE]
        /\ Opened(t) /\ UNCHANGED <<owner, recursion_count, expected>>
    BY <1>3 DEF enter, try_lock_shared_exchange
  <2>2. ReadersMayEnter(word)
    BY <2>1 DEF LockInv, LocalsFit
  <2>3. Kind("shared") /\ depth[t] = 0
    BY <2>1, LabelKind DEF ReaderWaits
  <2>4. QED
    BY <2>1, <2>2, <2>3, ReaderEnters
<1>4. QED
  BY <1>1, <1>2, <1>3

\* Every step of every lock preserves the invariant.
LEMMA LockMoveKeeps ==
  ASSUME LockInv, NEW t \in Threads, setup' = setup, LockMove(t)
  PROVE  LockInv'
<1>1. CASE Lock(t) \/ TryLock(t)
  BY <1>1, SpinningQuiet, SpinningEnters, SharedQuiet, SharedEnters DEF Lock, TryLock
<1>2. CASE LockShared(t) \/ TryLockShared(t)
  BY <1>2, SharedQuiet DEF LockShared, TryLockShared
<1>3. CASE Unlock(t) \/ UnlockShared(t)
  BY <1>3, PlainLeaves, OwnerCounts, WriterLeaves, ReaderLeaves DEF Unlock, UnlockShared
<1>4. CASE Inner(t)
  <2>1. announce(t) => Kind("shared")
    BY LabelKind DEF announce, At, WriterWaits
  <2>2. QED
    BY <1>4, <2>1, SpinningQuiet, SpinningEnters, SharedQuiet, SharedEnters, OwnerCounts,
       WriterAnnounces DEF Inner
<1>5. CASE Exchange(t)
  BY <1>5, SpinningEnters, SharedEnters DEF Exchange
<1>6. CASE Retry(t)
  BY <1>6, SpinningQuiet, SharedQuiet DEF Retry
<1>7. QED
  BY <1>1, <1>2, <1>3, <1>4, <1>5, <1>6 DEF LockMove

-----------------------------------------------------------------------------
(* The locks under locked_object.                                          *)

\* A step of the object is a step of the lock on behalf of one thread, or
\* leaves the lock alone.
LEMMA ObjectStep ==
  ASSUME TypeOK, Next
  PROVE  \E t \in Threads : setup' = setup /\ (LockMove(t) \/ UNCHANGED lockVars)
<1>1. PICK t \in setup.threads :
        \/ Progress(t) \/ LockStep(t, Exchange(t) \/ Retry(t))
        \/ /\ \/ read_value(t)
              \/ \E s \in setup.slots :
                   \/ do_lock(t, s) \/ do_try_lock(t, s) \/ do_lock_shared(t, s)
                   \/ do_try_lock_shared(t, s)
                   \/ \E r \in setup.slots : move(t, s, r)
           /\ UNCHANGED setup
  BY DEF Next
<1>2. t \in Threads
  BY <1>1, SetupKinds
<1>3. CASE Progress(t)
  BY <1>2, <1>3 DEF Progress, LockStep, LockMove, returned, guard_unlock, unlocked, write_value,
                    destroy, Release
<1>4. CASE LockStep(t, Exchange(t) \/ Retry(t))
  BY <1>2, <1>4 DEF LockStep, LockMove
<1>5. CASE /\ \/ read_value(t)
              \/ \E s \in setup.slots :
                   \/ do_lock(t, s) \/ do_try_lock(t, s) \/ do_lock_shared(t, s)
                   \/ do_try_lock_shared(t, s)
                   \/ \E r \in setup.slots : move(t, s, r)
           /\ UNCHANGED setup
  BY <1>2, <1>5 DEF LockMove, read_value, do_lock, do_try_lock, do_lock_shared,
                    do_try_lock_shared, Call, move
<1>6. QED
  BY <1>1, <1>3, <1>4, <1>5

\* The locks stay correct whatever the guards do with them.
LEMMA ObjectKeepsLock == LockInv /\ [Next]_allVars => LockInv'
<1> SUFFICES ASSUME LockInv, [Next]_allVars PROVE LockInv'
  OBVIOUS
<1>1. CASE Next
  <2>1. TypeOK
    BY DEF LockInv, CountIsDepth
  <2>2. PICK t \in Threads : setup' = setup /\ (LockMove(t) \/ UNCHANGED lockVars)
    BY <1>1, <2>1, ObjectStep
  <2>3. CASE LockMove(t)
    BY <2>2, <2>3, LockMoveKeeps
  <2>4. CASE UNCHANGED lockVars
    BY <2>2, <2>4
    DEF LockInv, lockVars, CountIsDepth, OwnerIsInside, WordFits, PendingHasWriter, KindFits,
        LocalsFit, TypeOK, Kind, At, Inside, Readers, Writers, MayNest
  <2>5. QED
    BY <2>2, <2>3, <2>4
<1>2. CASE UNCHANGED allVars
  BY <1>2
  DEF LockInv, allVars, lockVars, CountIsDepth, OwnerIsInside, WordFits, PendingHasWriter, KindFits,
      LocalsFit, TypeOK, Kind, At, Inside, Readers, Writers, MayNest
<1>3. QED
  BY <1>1, <1>2

\* The invariant of the locks, for every number of threads, guards and
\* nested calls.
THEOREM LocksAreCorrect == Spec => []LockInv
<1>1. ObjectInit => LockInv
  BY InitLock DEF ObjectInit
<1>2. QED
  BY <1>1, ObjectKeepsLock, PTL DEF Spec

\* The word of the shared spinlock counts its readers and knows its writer,
\* who is alone: every exchange in spinlock_mutex compares the whole word.
THEOREM SharedWord == Spec => []WordIsExact
<1>1. LockInv => WordIsExact
  BY WordFitsIsExact DEF LockInv, CountIsDepth
<1>2. QED
  BY <1>1, LocksAreCorrect, PTL

\* The readers are never shut out by the write_pending of a writer that has
\* left lock_slow.
THEOREM PendingIsServed == Spec => []PendingHasWriter
<1>1. LockInv => PendingHasWriter
  BY DEF LockInv
<1>2. QED
  BY <1>1, LocksAreCorrect, PTL

\* At most one thread owns the plain or the recursive spinlock or accesses
\* its recursion_count_, which is not atomic.
THEOREM NoRaceOnCount == Spec => []OwnerIsInside
<1>1. LockInv => OwnerIsInside
  BY DEF LockInv
<1>2. QED
  BY <1>1, LocksAreCorrect, PTL

\* The recursion count is the owner's depth, so the outermost unlock frees
\* the lock; and the variables have their types.
THEOREM CountIsExact == Spec => []CountIsDepth
<1>1. LockInv => CountIsDepth
  BY DEF LockInv
<1>2. QED
  BY <1>1, LocksAreCorrect, PTL

-----------------------------------------------------------------------------
(* The guards.  A thread's guards, and what kind of lock it has: while the *)
(* lock is not recursive there is one of it.                               *)
Held(t) == {s \in Slots : guard[t][s] # "null"}
Mode(t) == IF reading[t] THEN "shared" ELSE "lock"
ReaderLabels == ReaderWaits \cup {"tryRead"}

(* What a thread has in each stage of an operation: as many open lock      *)
(* calls as guards, but for the call whose guard is not made yet and the   *)
(* unlock whose guard still has its pointer.                               *)
StageNone(t) ==
  /\ frame[t].do = "none" /\ pc[t] = "ready"
  /\ depth[t] = Cardinality(Held(t)) /\ \A s \in Held(t) : guard[t][s] = Mode(t)

StageAcquire(t) ==
  /\ frame[t].do = "acquire" /\ frame[t].to \in Slots /\ frame[t].from = NoSlot
  /\ frame[t].was = Cardinality(Held(t)) /\ frame[t].new # "null"
  /\ Kind("recursive") \/ Held(t) = {}
  /\ \/ /\ depth[t] = frame[t].was /\ pc[t] \notin {"leave", "store"}
        /\ pc[t] # "ready" => (frame[t].new = "shared" <=> pc[t] \in ReaderLabels)
     \/ depth[t] = frame[t].was + 1 /\ pc[t] = "ready" /\ frame[t].new = Mode(t)

StageAssign(t) ==
  /\ frame[t].do = "assign" /\ pc[t] = "ready" /\ Kind("recursive")
  /\ frame[t].to \in Held(t) /\ frame[t].new = "lock"
  /\ \/ frame[t].from = NoSlot /\ depth[t] = Cardinality(Held(t)) + 1
     \/ /\ frame[t].from \in Held(t) \ {frame[t].to}
        /\ depth[t] = Cardinality(Held(t))

StageDestroy(t) ==
  /\ frame[t].do = "destroy" /\ pc[t] = "ready"
  /\ frame[t].to \in Held(t) /\ frame[t].from = NoSlot /\ frame[t].new = "null"
  /\ depth[t] = Cardinality(Held(t)) /\ \A s \in Held(t) : guard[t][s] = Mode(t)

StageUnlocked(t) ==
  /\ frame[t].do = "unlocked" /\ pc[t] \in {"ready", "leave", "store"}
  /\ frame[t].to \in Held(t)
  /\ Kind("recursive") \/ (Held(t) = {frame[t].to} /\ frame[t].new = "null")
  /\ \/ /\ frame[t].new = "null" /\ frame[t].from = NoSlot
        /\ depth[t] + 1 = Cardinality(Held(t))
     \/ /\ frame[t].new = "lock" /\ frame[t].from = NoSlot
        /\ depth[t] = Cardinality(Held(t))
     \/ /\ frame[t].new = "lock" /\ frame[t].from \in Held(t) \ {frame[t].to}
        /\ depth[t] + 1 = Cardinality(Held(t))

Stage(t) ==
  \/ StageNone(t) \/ StageAcquire(t) \/ StageAssign(t) \/ StageDestroy(t) \/ StageUnlocked(t)

(* Only the shared lock has shared guards, and a thread between reading    *)
(* and writing the value has a guard and is in no operation.               *)
GuardFits(t) ==
  /\ Stage(t)
  /\ ~Kind("shared") => frame[t].new # "shared" /\ \A s \in Held(t) : guard[t][s] = "lock"
  /\ copy[t] # -1 => frame[t].do = "none" /\ Held(t) # {}

Frames ==
  [do : {"none", "acquire", "assign", "destroy", "unlocked"},
   to : Slots \cup {NoSlot}, from : Slots \cup {NoSlot},
   new : {"null", "lock", "shared"}, was : Nat]

GuardTypes ==
  /\ guard \in [Threads -> [Slots -> {"null", "lock", "shared"}]]
  /\ frame \in [Threads -> Frames]
  /\ value \in Nat /\ copy \in [Threads -> Int]

GuardInv == LockInv /\ GuardTypes /\ NoLostUpdate /\ \A t \in Threads : GuardFits(t)

USE DEF Frames

\* The guards of a thread are a finite set.
LEMMA HeldFinite ==
  ASSUME NEW t \in Threads
  PROVE  /\ IsFiniteSet(Held(t)) /\ Cardinality(Held(t)) \in Nat
         /\ Cardinality(Held(t)) = 0 <=> Held(t) = {}
<1>1. Held(t) \subseteq Slots /\ IsFiniteSet(Slots)
  BY ObjectParameters DEF Held
<1>2. QED
  BY <1>1, FS_Subset, FS_CardinalityType, FS_EmptySet

\* A step of the lock by one thread changes nothing of the others.
LEMMA OthersStay ==
  ASSUME TypeOK, NEW t \in Threads, LockMove(t) \/ UNCHANGED lockVars, NEW u \in Threads, u # t
  PROVE  pc'[u] = pc[u] /\ depth'[u] = depth[u] /\ reading'[u] = reading[u]
<1> USE DEF Goto, Opened, Closed, TypeOK
<1>1. CASE UNCHANGED lockVars
  BY <1>1 DEF lockVars
<1>2. CASE Lock(t) \/ TryLock(t)
  BY <1>2 DEF Lock, TryLock, plain_lock, plain_try_lock, recursive_lock, recursive_try_lock,
              shared_lock, shared_try_lock
<1>3. CASE LockShared(t) \/ TryLockShared(t) \/ Unlock(t) \/ UnlockShared(t)
  BY <1>3 DEF LockShared, TryLockShared, Unlock, UnlockShared, lock_shared, try_lock_shared,
              plain_unlock, recursive_unlock, shared_unlock, unlock_shared
<1>4. CASE Inner(t)
  BY <1>4 DEF Inner, plain_lock_slow, set_count, increment, spin, decrement, free_owner, look,
              announce, drain, look_shared, try_lock_exchange, try_lock_shared_exchange
<1>5. CASE Exchange(t) \/ Retry(t)
  BY <1>5 DEF Exchange, Retry, exchange, seize, enter, exchange_fails, slow_retry, enter_retry
<1>6. QED
  BY <1>1, <1>2, <1>3, <1>4, <1>5 DEF LockMove

\* How a call of lock or try_lock can begin: it acquires at once, or goes on
\* inside the lock.
LEMMA CallOutcome ==
  ASSUME LockInv, NEW t \in Threads, Lock(t) \/ TryLock(t)
  PROVE  \/ depth'[t] = depth[t] + 1 /\ pc'[t] = "ready" /\ ~reading'[t]
         \/ /\ depth'[t] = depth[t] /\ pc'[t] \notin {"ready", "leave", "store"} \cup ReaderLabels
            /\ reading'[t] = reading[t]
<1>1. TypeOK /\ (depth[t] = 0 => ~reading[t])
  BY LabelKind DEF LockInv, LocalsFit
<1> USE DEF Goto, Opened, TypeOK, ReaderLabels, ReaderWaits, Outside
<1>2. CASE plain_try_lock(t)
  BY <1>1, <1>2 DEF plain_try_lock
<1>3. CASE plain_lock(t) \/ recursive_lock(t) \/ recursive_try_lock(t) \/ shared_try_lock(t)
  BY <1>1, <1>3 DEF plain_lock, recursive_lock, recursive_try_lock, shared_try_lock
<1>4. CASE shared_lock(t)
  <2>1. CASE word = Free
    BY <1>1, <1>4, <2>1 DEF shared_lock
  <2>2. CASE word # Free
    BY <1>1, <1>4, <2>2 DEF shared_lock
  <2>3. QED
    BY <2>1, <2>2
<1>5. QED
  BY <1>2, <1>3, <1>4 DEF Lock, TryLock

\* How a call of lock_shared or try_lock_shared begins.
LEMMA SharedCallOutcome ==
  ASSUME TypeOK, NEW t \in Threads, LockShared(t) \/ TryLockShared(t)
  PROVE  /\ Kind("shared") /\ depth'[t] = depth[t] /\ reading'[t] = reading[t]
         /\ pc'[t] \in ReaderLabels /\ pc'[t] \notin {"ready", "leave", "store"}
  BY DEF LockShared, TryLockShared, lock_shared, try_lock_shared, Outside, Goto, TypeOK,
         ReaderLabels, ReaderWaits

\* How a step inside the lock ends: a call fails, acquires in the way it was
\* made for, or goes on; an unlock comes to its end.
LEMMA MiddleOutcome ==
  ASSUME LockInv, NEW t \in Threads, Inner(t) \/ Exchange(t) \/ Retry(t)
  PROVE  \/ /\ pc[t] \in {"leave", "store"} /\ pc'[t] \in {"ready", "store"}
            /\ depth'[t] = depth[t] /\ reading'[t] = reading[t]
         \/ /\ pc[t] \notin {"ready", "leave", "store"}
            /\ depth'[t] = depth[t] /\ reading'[t] = reading[t] /\ pc'[t] \notin {"leave", "store"}
            /\ pc'[t] # "ready" => (pc'[t] \in ReaderLabels <=> pc[t] \in ReaderLabels)
         \/ /\ pc[t] \notin {"ready", "leave", "store"}
            /\ depth'[t] = depth[t] + 1 /\ pc'[t] = "ready"
            /\ reading'[t] <=> pc[t] \in ReaderLabels
<1>1. TypeOK /\ (depth[t] = 0 => ~reading[t]) /\ (pc[t] \in Counting => ~reading[t])
  <2>1. pc[t] \in Counting => ~Kind("shared")
    BY DEF LockInv, KindFits, SharedLabels, Counting, WriterWaits, ReaderWaits
  <2>2. QED
    BY <2>1, LabelKind DEF LockInv, LocalsFit, KindFits
<1>2. pc[t] \notin {"ready", "again", "leave"} => depth[t] = 0
  BY LabelKind
<1> USE DEF Goto, Opened, TypeOK, ReaderLabels, ReaderWaits, At
<1>3. CASE plain_lock_slow(t)
  <2>1. CASE owner = NoThread
    BY <1>1, <1>2, <1>3, <2>1 DEF plain_lock_slow
  <2>2. CASE owner # NoThread
    BY <1>1, <1>2, <1>3, <2>2 DEF plain_lock_slow
  <2>3. QED
    BY <2>1, <2>2
<1>4. CASE set_count(t) \/ increment(t)
  BY <1>1, <1>4 DEF set_count, increment, Counting
<1>5. CASE spin(t) \/ drain(t) \/ look_shared(t) \/ announce(t) \/ Retry(t) \/ exchange(t)
  BY <1>1, <1>5 DEF spin, drain, look_shared, announce, Retry, exchange_fails, slow_retry,
                    enter_retry, exchange
<1>6. CASE decrement(t)
  BY <1>1, <1>6 DEF decrement
<1>7. CASE free_owner(t)
  BY <1>1, <1>7 DEF free_owner
<1>8. CASE look(t)
  BY <1>1, <1>8 DEF look
<1>9. CASE try_lock_exchange(t)
  <2>1. CASE word = expected[t]
    BY <1>1, <1>2, <1>9, <2>1 DEF try_lock_exchange
  <2>2. CASE word # expected[t]
    BY <1>1, <1>9, <2>2 DEF try_lock_exchange
  <2>3. QED
    BY <2>1, <2>2
<1>10. CASE try_lock_shared_exchange(t)
  <2>1. CASE word = expected[t]
    BY <1>1, <1>2, <1>10, <2>1 DEF try_lock_shared_exchange
  <2>2. CASE word # expected[t]
    BY <1>1, <1>10, <2>2 DEF try_lock_shared_exchange
  <2>3. QED
    BY <2>1, <2>2
<1>11. CASE seize(t) \/ enter(t)
  BY <1>1, <1>2, <1>11 DEF seize, enter
<1>12. QED
  BY <1>3, <1>4, <1>5, <1>6, <1>7, <1>8, <1>9, <1>10, <1>11 DEF Inner, Exchange

\* An unlock closes one call.
LEMMA UnlockOutcome ==
  ASSUME TypeOK, NEW t \in Threads, Unlock(t) \/ UnlockShared(t)
  PROVE  depth'[t] = depth[t] - 1 /\ depth[t] > 0 /\ pc'[t] \in {"ready", "leave"}
  BY DEF Unlock, UnlockShared, plain_unlock, recursive_unlock, shared_unlock, unlock_shared,
         Closed, Goto, TypeOK

\* A step of one thread that leaves the value alone has to show its own
\* stage only.
LEMMA OneThread ==
  ASSUME GuardInv, LockInv', NEW t \in Threads, setup' = setup,
         LockMove(t) \/ UNCHANGED lockVars, UNCHANGED dataVars, GuardTypes',
         \A u \in Threads : u # t => guard'[u] = guard[u] /\ frame'[u] = frame[u],
         GuardFits(t)'
  PROVE  GuardInv'
<1>1. TypeOK
  BY DEF GuardInv, LockInv, CountIsDepth
<1>2. ASSUME NEW u \in Threads, u # t PROVE GuardFits(u)'
  <2>1. GuardFits(u)
    BY <1>2 DEF GuardInv
  <2>2. pc'[u] = pc[u] /\ depth'[u] = depth[u] /\ reading'[u] = reading[u]
    BY <1>1, <1>2, OthersStay
  <2>3. guard'[u] = guard[u] /\ frame'[u] = frame[u] /\ copy'[u] = copy[u]
    BY <1>2 DEF dataVars
  <2>4. Held(u)' = Held(u) /\ Mode(u)' = Mode(u)
    BY <2>2, <2>3 DEF Held, Mode
  <2>5. (Kind("recursive"))' = Kind("recursive") /\ (Kind("shared"))' = Kind("shared")
    BY DEF Kind
  <2>6. Stage(u)'
    <3>1. StageNone(u) => StageNone(u)'
      BY <2>2, <2>3, <2>4 DEF StageNone
    <3>2. StageAcquire(u) => StageAcquire(u)'
      BY <2>2, <2>3, <2>4, <2>5 DEF StageAcquire
    <3>3. StageAssign(u) => StageAssign(u)'
      BY <2>2, <2>3, <2>4, <2>5 DEF StageAssign
    <3>4. StageDestroy(u) => StageDestroy(u)'
      BY <2>2, <2>3, <2>4 DEF StageDestroy
    <3>5. StageUnlocked(u) => StageUnlocked(u)'
      BY <2>2, <2>3, <2>4, <2>5 DEF StageUnlocked
    <3>6. QED
      BY <2>1, <3>1, <3>2, <3>3, <3>4, <3>5 DEF GuardFits, Stage
  <2>7. QED
    BY <2>1, <2>3, <2>4, <2>5, <2>6 DEF GuardFits
<1>3. \A u \in Threads : GuardFits(u)'
  BY <1>2
<1>4. NoLostUpdate'
  BY DEF GuardInv, NoLostUpdate, dataVars
<1>5. QED
  BY <1>3, <1>4 DEF GuardInv

\* Facts every lemma below begins with.
LEMMA GuardFacts ==
  ASSUME GuardInv, NEW t \in Threads
  PROVE  /\ TypeOK /\ LockInv /\ GuardTypes /\ GuardFits(t) /\ Stage(t)
         /\ guard[t] \in [Slots -> {"null", "lock", "shared"}]
         /\ frame[t] \in Frames
         /\ depth[t] \in Nat /\ NoSlot \notin Slots
         /\ ~Kind("shared") => ~reading[t]
         /\ ~Kind("recursive") => depth[t] <= 1
         /\ depth[t] = 0 => ~reading[t]
<1>1. TypeOK /\ LockInv /\ GuardTypes /\ GuardFits(t) /\ Stage(t)
  BY DEF GuardInv, LockInv, CountIsDepth, GuardFits
<1>2. /\ guard[t] \in [Slots -> {"null", "lock", "shared"}]
      /\ frame[t] \in Frames
  BY <1>1 DEF GuardTypes
<1>3. depth[t] \in Nat /\ (depth[t] = 0 => ~reading[t])
  BY <1>1, LabelKind DEF LockInv, LocalsFit
<1>4. (~Kind("shared") => ~reading[t]) /\ (~Kind("recursive") => depth[t] <= 1)
  BY <1>1, SetupKinds DEF LockInv, KindFits
<1>5. QED
  BY <1>1, <1>2, <1>3, <1>4, ObjectParameters DEF NoSlot

\* A step inside a call: on the way to a guard, or after an unlock.
LEMMA MiddleKeeps ==
  ASSUME GuardInv, LockInv', NEW t \in Threads, LockStep(t, Inner(t) \/ Exchange(t) \/ Retry(t))
  PROVE  GuardInv'
<1>1. /\ setup' = setup /\ guard' = guard /\ frame' = frame /\ UNCHANGED dataVars
      /\ Inner(t) \/ Exchange(t) \/ Retry(t)
  BY DEF LockStep
<1>2. /\ Held(t)' = Held(t) /\ frame'[t] = frame[t] /\ guard'[t] = guard[t] /\ copy'[t] = copy[t]
      /\ (Kind("recursive"))' = Kind("recursive") /\ (Kind("shared"))' = Kind("shared")
  BY <1>1 DEF Held, dataVars, Kind
<1>3. Stage(t)'
  <2>1. CASE StageAcquire(t)
    <3>1. pc[t] \notin {"leave", "store"}
      BY <2>1 DEF StageAcquire
    <3>2. pc[t] # "ready" /\ depth[t] = frame[t].was /\ (frame[t].new = "shared" <=> pc[t] \in ReaderLabels)
      BY <1>1, <2>1, <3>1, MiddleOutcome, GuardFacts DEF StageAcquire
    <3>3. CASE depth'[t] = depth[t] + 1 /\ pc'[t] = "ready" /\ (reading'[t] <=> pc[t] \in ReaderLabels)
      <4>1. frame[t].new \in {"lock", "shared"}
        BY <2>1, GuardFacts DEF StageAcquire
      <4>2. frame'[t].new = Mode(t)'
        BY <1>2, <3>2, <3>3, <4>1 DEF Mode
      <4>3. StageAcquire(t)'
        BY <1>2, <2>1, <3>2, <3>3, <4>2 DEF StageAcquire
      <4>4. QED
        BY <4>3 DEF Stage
    <3>4. CASE /\ depth'[t] = depth[t] /\ pc'[t] \notin {"leave", "store"}
               /\ pc'[t] # "ready" => (pc'[t] \in ReaderLabels <=> pc[t] \in ReaderLabels)
      <4>1. StageAcquire(t)'
        BY <1>2, <2>1, <3>2, <3>4 DEF StageAcquire
      <4>2. QED
        BY <4>1 DEF Stage
    <3>5. QED
      BY <1>1, <3>1, <3>3, <3>4, MiddleOutcome, GuardFacts
  <2>2. CASE StageUnlocked(t)
    <3>1. pc[t] \in {"ready", "leave", "store"}
      BY <2>2 DEF StageUnlocked
    <3>2. pc'[t] \in {"ready", "store"} /\ depth'[t] = depth[t]
      BY <1>1, <3>1, MiddleOutcome, GuardFacts
    <3>3. StageUnlocked(t)'
      BY <1>2, <2>2, <3>2 DEF StageUnlocked
    <3>4. QED
      BY <3>3 DEF Stage
  <2>3. CASE StageNone(t) \/ StageAssign(t) \/ StageDestroy(t)
    <3>1. pc[t] = "ready"
      BY <2>3 DEF StageNone, StageAssign, StageDestroy
    <3>2. QED
      BY <1>1, <3>1, MiddleOutcome, GuardFacts
  <2>4. QED
    BY <2>1, <2>2, <2>3, GuardFacts DEF Stage
<1>4. GuardFits(t)'
  BY <1>2, <1>3, GuardFacts DEF GuardFits
<1>5. GuardTypes' /\ LockMove(t)
  BY <1>1, GuardFacts DEF GuardTypes, dataVars, LockMove
<1>6. QED
  BY <1>1, <1>4, <1>5, OneThread

\* The operation a thread is in tells its stage.
LEMMA StageOf ==
  ASSUME GuardInv, NEW t \in Threads
  PROVE  /\ frame[t].do = "none" => StageNone(t)
         /\ frame[t].do = "acquire" => StageAcquire(t)
         /\ frame[t].do = "assign" => StageAssign(t)
         /\ frame[t].do = "destroy" => StageDestroy(t)
         /\ frame[t].do = "unlocked" => StageUnlocked(t)
  BY GuardFacts DEF Stage, StageNone, StageAcquire, StageAssign, StageDestroy, StageUnlocked

\* What replacing the frame of a thread does to the types.
LEMMA NewFrame ==
  ASSUME GuardInv, NEW t \in Threads,
         NEW f \in Frames, SetFrame(t, f)
  PROVE  /\ frame' \in [Threads -> Frames]
         /\ frame'[t] = f /\ \A u \in Threads : u # t => frame'[u] = frame[u]
  BY GuardFacts DEF GuardTypes, SetFrame

\* A call of the object begins: the frame remembers what the thread has.
LEMMA CallKeeps ==
  ASSUME GuardInv, LockInv', NEW t \in Threads, NEW s \in Slots, setup' = setup,
         do_lock(t, s) \/ do_try_lock(t, s) \/ do_lock_shared(t, s) \/ do_try_lock_shared(t, s)
  PROVE  GuardInv'
<1>1. PICK new \in {"lock", "shared"} :
        /\ frame[t].do = "none" /\ pc[t] = "ready" /\ (Kind("recursive") \/ NoGuard(t))
        /\ copy[t] = -1 /\ UNCHANGED <<guard, dataVars>>
        /\ SetFrame(t, Frame("acquire", s, NoSlot, new, depth[t]))
        /\ \/ new = "lock" /\ (Lock(t) \/ TryLock(t))
           \/ new = "shared" /\ (LockShared(t) \/ TryLockShared(t))
  BY DEF do_lock, do_try_lock, do_lock_shared, do_try_lock_shared, Call, Is, At
<1>2. StageNone(t) /\ TypeOK /\ LockInv /\ GuardTypes /\ depth[t] \in Nat
  BY <1>1, StageOf, GuardFacts
<1>3. PICK f : f = Frame("acquire", s, NoSlot, new, depth[t])
  OBVIOUS
<1>4. /\ f.do = "acquire" /\ f.to = s /\ f.from = NoSlot /\ f.new = new /\ f.was = depth[t]
      /\ f \in Frames
  BY <1>2, <1>3 DEF Frame
<1>5. GuardTypes' /\ frame'[t] = f /\ \A u \in Threads : u # t => frame'[u] = frame[u]
  BY <1>1, <1>2, <1>3, <1>4, NewFrame DEF GuardTypes, dataVars
<1>6. /\ Held(t)' = Held(t) /\ guard'[t] = guard[t] /\ copy'[t] = -1
      /\ (Kind("recursive"))' = Kind("recursive") /\ (Kind("shared"))' = Kind("shared")
  BY <1>1 DEF Held, dataVars, Kind
<1>7. Kind("recursive") \/ Held(t) = {}
  BY <1>1 DEF NoGuard, Held
<1>8. \/ /\ depth'[t] = depth[t] /\ pc'[t] \notin {"ready", "leave", "store"}
         /\ (new = "shared" <=> pc'[t] \in ReaderLabels)
      \/ depth'[t] = depth[t] + 1 /\ pc'[t] = "ready" /\ new = Mode(t)'
  <2>1. CASE Lock(t) \/ TryLock(t)
    BY <1>2, <2>1, <1>1, CallOutcome, SharedCallOutcome DEF Mode
  <2>2. CASE LockShared(t) \/ TryLockShared(t)
    <3>1. new = "shared" \/ Lock(t) \/ TryLock(t)
      BY <1>1
    <3>2. QED
      BY <1>2, <2>1, <2>2, <3>1, SharedCallOutcome
  <2>3. QED
    BY <1>1, <2>1, <2>2
<1>9. StageAcquire(t)'
  BY <1>2, <1>4, <1>5, <1>6, <1>7, <1>8 DEF StageAcquire, StageNone
<1>10. ~Kind("shared") => new # "shared"
  BY <1>1, <1>2, SharedCallOutcome
<1>11. GuardFits(t)'
  BY <1>4, <1>5, <1>6, <1>9, <1>10, GuardFacts DEF GuardFits, Stage
<1>12. LockMove(t)
  BY <1>1 DEF LockMove
<1>13. QED
  BY <1>1, <1>5, <1>11, <1>12, OneThread

\* The call has returned: no lock, a new guard, or one that is assigned over
\* a guard that has to unlock first.
LEMMA ReturnedKeeps ==
  ASSUME GuardInv, LockInv', NEW t \in Threads, setup' = setup, returned(t)
  PROVE  GuardInv'
<1>0. /\ frame[t].do = "acquire" /\ pc[t] = "ready" /\ UNCHANGED lockVars /\ UNCHANGED dataVars
      /\ LET f == frame[t] IN
           IF depth[t] = f.was THEN SetFrame(t, None) /\ UNCHANGED guard
           ELSE IF guard[t][f.to] = "null"
           THEN guard' = [guard EXCEPT ![t][f.to] = f.new] /\ SetFrame(t, None)
           ELSE SetFrame(t, [f EXCEPT !.do = "assign"]) /\ UNCHANGED guard
  BY DEF returned, Is, At
<1>1. /\ StageAcquire(t) /\ TypeOK /\ LockInv /\ GuardTypes /\ depth[t] \in Nat /\ copy[t] = -1
      /\ IsFiniteSet(Held(t)) /\ Cardinality(Held(t)) \in Nat
  BY <1>0, StageOf, GuardFacts, HeldFinite DEF GuardFits
<1>2. /\ pc'[t] = pc[t] /\ depth'[t] = depth[t] /\ Mode(t)' = Mode(t) /\ copy'[t] = -1
      /\ (Kind("recursive"))' = Kind("recursive") /\ (Kind("shared"))' = Kind("shared")
  BY <1>0, <1>1 DEF lockVars, dataVars, Kind, Mode
<1>3. /\ None \in Frames
      /\ None.do = "none" /\ None.new = "null"
  BY DEF None
<1>4. ~Kind("shared") => Mode(t) = "lock"
  BY GuardFacts DEF Mode
<1>5. CASE depth[t] = frame[t].was
  <2>1. SetFrame(t, None) /\ guard' = guard
    BY <1>0, <1>5
  <2>2. GuardTypes' /\ frame'[t] = None /\ \A u \in Threads : u # t => frame'[u] = frame[u]
    BY <1>0, <1>1, <1>3, <2>1, NewFrame DEF GuardTypes, dataVars
  <2>3. Held(t)' = Held(t) /\ guard'[t] = guard[t]
    BY <2>1 DEF Held
  <2>4. \A s \in Held(t) : guard[t][s] = Mode(t)
    <3>1. CASE Held(t) = {}
      BY <3>1
    <3>2. CASE Kind("recursive")
      BY <1>4, <3>2, GuardFacts DEF GuardFits, Kind
    <3>3. QED
      BY <1>1, <3>1, <3>2 DEF StageAcquire
  <2>5. StageNone(t)'
    BY <1>0, <1>1, <1>2, <1>3, <1>5, <2>2, <2>3, <2>4 DEF StageNone, StageAcquire
  <2>6. GuardFits(t)'
    BY <1>2, <1>3, <2>2, <2>3, <2>5, GuardFacts DEF GuardFits, Stage
  <2>7. QED
    BY <1>0, <2>1, <2>2, <2>6, OneThread
<1>6. CASE depth[t] # frame[t].was
  <2>1. depth[t] = frame[t].was + 1 /\ frame[t].new = Mode(t)
    BY <1>1, <1>6 DEF StageAcquire
  <2>2. PICK s \in Slots : s = frame[t].to
    BY <1>1 DEF StageAcquire
  <2>3. CASE guard[t][s] = "null"
    <3>1. guard' = [guard EXCEPT ![t][s] = frame[t].new] /\ SetFrame(t, None)
      BY <1>0, <1>6, <2>2, <2>3
    <3>2. /\ guard' \in [Threads -> [Slots -> {"null", "lock", "shared"}]]
          /\ guard'[t] = [guard[t] EXCEPT ![s] = frame[t].new]
          /\ \A u \in Threads : u # t => guard'[u] = guard[u]
      BY <1>1, <3>1, GuardFacts DEF GuardTypes
    <3>3. GuardTypes' /\ frame'[t] = None /\ \A u \in Threads : u # t => frame'[u] = frame[u]
      BY <1>0, <1>1, <1>3, <3>1, <3>2, NewFrame DEF GuardTypes, dataVars
    <3>4. Mode(t) # "null"
      BY DEF Mode
    <3>5. Held(t)' = Held(t) \cup {s} /\ s \notin Held(t)
      BY <2>1, <2>3, <3>2, <3>4, GuardFacts DEF Held
    <3>6. Cardinality(Held(t)') = Cardinality(Held(t)) + 1
      BY <1>1, <3>5, FS_AddElement
    <3>7. \A r \in Held(t)' : guard'[t][r] = Mode(t)
      <4>1. \A r \in Held(t) : guard[t][r] = Mode(t)
        <5>1. CASE Held(t) = {}
          BY <5>1
        <5>2. CASE Kind("recursive")
          BY <1>4, <5>2, GuardFacts DEF GuardFits, Kind
        <5>3. QED
          BY <1>1, <5>1, <5>2 DEF StageAcquire
      <4>2. QED
        BY <2>1, <3>2, <3>5, <4>1, GuardFacts DEF Held
    <3>8. StageNone(t)'
      BY <1>0, <1>1, <1>2, <1>3, <2>1, <3>3, <3>6, <3>7 DEF StageNone, StageAcquire
    <3>9. GuardFits(t)'
      BY <1>2, <1>3, <1>4, <3>3, <3>7, <3>8 DEF GuardFits, Stage
    <3>10. QED
      BY <1>0, <3>2, <3>3, <3>9, OneThread
  <2>4. CASE guard[t][s] # "null"
    <3>1. PICK f : f = [frame[t] EXCEPT !.do = "assign"]
      OBVIOUS
    <3>2. SetFrame(t, f) /\ guard' = guard
      BY <1>0, <1>6, <2>2, <2>4, <3>1
    <3>3. /\ f.do = "assign" /\ f.to = s /\ f.from = NoSlot /\ f.new = frame[t].new
          /\ f \in Frames
      BY <1>1, <2>2, <3>1, GuardFacts DEF StageAcquire
    <3>4. GuardTypes' /\ frame'[t] = f /\ \A u \in Threads : u # t => frame'[u] = frame[u]
      BY <1>0, <1>1, <3>2, <3>3, NewFrame DEF GuardTypes, dataVars
    <3>5. Held(t)' = Held(t) /\ guard'[t] = guard[t] /\ s \in Held(t)
      BY <2>4, <3>2 DEF Held
    <3>6. Kind("recursive") /\ ~Kind("shared")
      BY <1>1, <3>5 DEF StageAcquire, Kind
    <3>7. StageAssign(t)'
      BY <1>0, <1>1, <1>2, <1>4, <2>1, <3>3, <3>4, <3>5, <3>6 DEF StageAssign, StageAcquire
    <3>8. GuardFits(t)'
      BY <1>2, <3>3, <3>4, <3>5, <3>6, <3>7, GuardFacts DEF GuardFits, Stage
    <3>9. QED
      BY <1>0, <3>2, <3>4, <3>8, OneThread
  <2>5. QED
    BY <2>3, <2>4
<1>7. QED
  BY <1>5, <1>6

\* A set with one element more than another.
LEMMA OneLess ==
  ASSUME NEW S, IsFiniteSet(S), NEW x \in S
  PROVE  /\ IsFiniteSet(S \ {x}) /\ Cardinality(S) \in Nat /\ Cardinality(S \ {x}) \in Nat
         /\ Cardinality(S) = Cardinality(S \ {x}) + 1
         /\ Cardinality(S) <= 1 => S = {x}
<1>1. /\ IsFiniteSet(S \ {x}) /\ Cardinality(S \ {x}) = Cardinality(S) - 1
      /\ Cardinality(S) \in Nat /\ Cardinality(S \ {x}) \in Nat
  BY FS_RemoveElement, FS_CardinalityType
<1>2. Cardinality(S \ {x}) = 0 => S \ {x} = {}
  BY <1>1, FS_EmptySet
<1>3. QED
  BY <1>1, <1>2

\* A guard is moved into an empty variable, or is about to be assigned over
\* another one: that takes two guards, so the lock is recursive.
LEMMA MoveKeeps ==
  ASSUME GuardInv, LockInv', NEW t \in Threads, NEW s \in Slots, NEW r \in Slots,
         setup' = setup, move(t, s, r)
  PROVE  GuardInv'
<1>0. /\ frame[t].do = "none" /\ pc[t] = "ready" /\ copy[t] = -1 /\ s # r /\ guard[t][r] # "null"
      /\ IF guard[t][s] = "null"
         THEN guard' = [guard EXCEPT ![t][s] = guard[t][r], ![t][r] = "null"] /\ UNCHANGED frame
         ELSE SetFrame(t, Frame("assign", s, r, guard[t][r], 0)) /\ UNCHANGED guard
      /\ UNCHANGED lockVars /\ UNCHANGED dataVars
  BY DEF move, Is, At
<1>1. /\ StageNone(t) /\ TypeOK /\ LockInv /\ GuardTypes /\ depth[t] \in Nat
      /\ IsFiniteSet(Held(t)) /\ r \in Held(t)
  BY <1>0, StageOf, GuardFacts, HeldFinite DEF Held
<1>2. /\ pc'[t] = pc[t] /\ depth'[t] = depth[t] /\ Mode(t)' = Mode(t) /\ copy'[t] = -1
      /\ (Kind("recursive"))' = Kind("recursive") /\ (Kind("shared"))' = Kind("shared")
  BY <1>0 DEF lockVars, dataVars, Kind, Mode
<1>3. guard[t][r] = Mode(t) /\ (~Kind("shared") => Mode(t) = "lock")
  BY <1>1, GuardFacts DEF StageNone, Mode
<1>4. CASE guard[t][s] = "null"
  <2>1. frame' = frame /\ guard' = [guard EXCEPT ![t][s] = guard[t][r], ![t][r] = "null"]
    BY <1>0, <1>4
  <2>2. /\ guard' \in [Threads -> [Slots -> {"null", "lock", "shared"}]]
        /\ guard'[t] = [[guard[t] EXCEPT ![s] = guard[t][r]] EXCEPT ![r] = "null"]
        /\ \A u \in Threads : u # t => guard'[u] = guard[u]
    BY <1>1, <2>1, GuardFacts DEF GuardTypes
  <2>3. /\ guard'[t][s] = guard[t][r] /\ guard'[t][r] = "null"
        /\ \A x \in Slots \ {s, r} : guard'[t][x] = guard[t][x]
    BY <1>0, <2>2, GuardFacts
  <2>4. Held(t)' = (Held(t) \ {r}) \cup {s} /\ s \notin Held(t) \ {r}
    BY <1>0, <1>4, <2>3 DEF Held
  <2>5. Cardinality(Held(t)') = Cardinality(Held(t))
    <3>1. /\ Cardinality(Held(t)) = Cardinality(Held(t) \ {r}) + 1
          /\ IsFiniteSet(Held(t) \ {r})
      BY <1>1, OneLess
    <3>2. QED
      BY <2>4, <3>1, FS_AddElement
  <2>6. \A x \in Held(t)' : guard'[t][x] = Mode(t)
    BY <1>1, <1>3, <2>3, <2>4 DEF StageNone, Held
  <2>7. StageNone(t)'
    BY <1>1, <1>2, <2>1, <2>5, <2>6 DEF StageNone
  <2>8. GuardFits(t)'
    BY <1>2, <1>3, <2>1, <2>6, <2>7, GuardFacts DEF GuardFits, Stage
  <2>9. GuardTypes'
    BY <1>0, <1>1, <2>1, <2>2 DEF GuardTypes, dataVars
  <2>10. QED
    BY <1>0, <2>1, <2>2, <2>8, <2>9, OneThread
<1>5. CASE guard[t][s] # "null"
  <2>1. PICK f : f = Frame("assign", s, r, guard[t][r], 0)
    OBVIOUS
  <2>2. /\ f.do = "assign" /\ f.to = s /\ f.from = r /\ f.new = guard[t][r] /\ f \in Frames
    BY <2>1, GuardFacts DEF Frame
  <2>3. SetFrame(t, f) /\ guard' = guard
    BY <1>0, <1>5, <2>1
  <2>4. GuardTypes' /\ frame'[t] = f /\ \A u \in Threads : u # t => frame'[u] = frame[u]
    BY <1>0, <1>1, <2>2, <2>3, NewFrame DEF GuardTypes, dataVars
  <2>5. Held(t)' = Held(t) /\ guard'[t] = guard[t] /\ s \in Held(t)
    BY <1>5, <2>3 DEF Held
  <2>6. Kind("recursive") /\ ~Kind("shared")
    <3>1. ~(Cardinality(Held(t)) <= 1)
      BY <1>0, <1>1, <2>5, OneLess
    <3>2. Kind("recursive")
      BY <1>1, <3>1, GuardFacts DEF StageNone
    <3>3. QED
      BY <3>2 DEF Kind
  <2>7. StageAssign(t)'
    BY <1>0, <1>1, <1>2, <1>3, <2>2, <2>4, <2>5, <2>6 DEF StageAssign, StageNone
  <2>8. GuardFits(t)'
    BY <1>2, <1>3, <2>2, <2>4, <2>5, <2>6, <2>7, GuardFacts DEF GuardFits, Stage
  <2>9. QED
    BY <1>0, <2>3, <2>4, <2>8, OneThread
<1>6. QED
  BY <1>4, <1>5

\* The destruction of a guard begins.
LEMMA DestroyKeeps ==
  ASSUME GuardInv, LockInv', NEW t \in Threads, NEW s \in Slots, setup' = setup, destroy(t, s)
  PROVE  GuardInv'
<1>0. /\ frame[t].do = "none" /\ pc[t] = "ready" /\ copy[t] = -1 /\ guard[t][s] # "null"
      /\ SetFrame(t, Frame("destroy", s, NoSlot, "null", 0))
      /\ UNCHANGED lockVars /\ UNCHANGED dataVars /\ guard' = guard
  BY DEF destroy, Is, At
<1>1. StageNone(t) /\ GuardTypes /\ s \in Held(t)
  BY <1>0, StageOf, GuardFacts DEF Held
<1>2. /\ pc'[t] = pc[t] /\ depth'[t] = depth[t] /\ Mode(t)' = Mode(t) /\ copy'[t] = -1
      /\ (Kind("shared"))' = Kind("shared") /\ Held(t)' = Held(t) /\ guard'[t] = guard[t]
  BY <1>0 DEF lockVars, dataVars, Kind, Mode, Held
<1>3. PICK f : f = Frame("destroy", s, NoSlot, "null", 0)
  OBVIOUS
<1>4. f.do = "destroy" /\ f.to = s /\ f.from = NoSlot /\ f.new = "null" /\ f \in Frames
  BY <1>3 DEF Frame
<1>5. GuardTypes' /\ frame'[t] = f /\ \A u \in Threads : u # t => frame'[u] = frame[u]
  BY <1>0, <1>1, <1>3, <1>4, NewFrame DEF GuardTypes, dataVars
<1>6. StageDestroy(t)'
  BY <1>1, <1>2, <1>4, <1>5 DEF StageDestroy, StageNone
<1>7. GuardFits(t)'
  BY <1>2, <1>4, <1>5, <1>6, GuardFacts DEF GuardFits, Stage
<1>8. QED
  BY <1>0, <1>5, <1>7, OneThread

\* The guard that is assigned over or destroyed unlocks.
LEMMA GuardUnlockKeeps ==
  ASSUME GuardInv, LockInv', NEW t \in Threads, setup' = setup, guard_unlock(t)
  PROVE  GuardInv'
<1>0. /\ frame[t].do \in {"assign", "destroy"} /\ (Unlock(t) \/ UnlockShared(t))
      /\ SetFrame(t, [frame[t] EXCEPT !.do = "unlocked"])
      /\ UNCHANGED dataVars /\ guard' = guard
  BY DEF guard_unlock, Is, Release
<1>1. /\ StageAssign(t) \/ StageDestroy(t)
      /\ GuardTypes /\ TypeOK /\ depth[t] \in Nat /\ copy[t] = -1
      /\ IsFiniteSet(Held(t)) /\ Cardinality(Held(t)) \in Nat
  BY <1>0, StageOf, GuardFacts, HeldFinite DEF GuardFits
<1>2. depth'[t] \in Nat /\ depth'[t] + 1 = depth[t] /\ pc'[t] \in {"ready", "leave"}
  BY <1>0, <1>1, UnlockOutcome
<1>3. /\ (Kind("recursive"))' = Kind("recursive") /\ (Kind("shared"))' = Kind("shared")
      /\ Held(t)' = Held(t) /\ guard'[t] = guard[t] /\ copy'[t] = -1
  BY <1>0, <1>1 DEF dataVars, Kind, Held
<1>4. PICK f : f = [frame[t] EXCEPT !.do = "unlocked"]
  OBVIOUS
<1>5. /\ f.do = "unlocked" /\ f.to = frame[t].to /\ f.from = frame[t].from
      /\ f.new = frame[t].new /\ f \in Frames
  BY <1>4, GuardFacts
<1>6. GuardTypes' /\ frame'[t] = f /\ \A u \in Threads : u # t => frame'[u] = frame[u]
  BY <1>0, <1>1, <1>4, <1>5, NewFrame DEF GuardTypes, dataVars
<1>7. StageUnlocked(t)'
  <2>1. CASE StageAssign(t)
    <3>1. /\ Kind("recursive") /\ f.to \in Held(t) /\ f.new = "lock"
          /\ \/ f.from = NoSlot /\ depth'[t] = Cardinality(Held(t))
             \/ f.from \in Held(t) \ {f.to} /\ depth'[t] + 1 = Cardinality(Held(t))
      BY <1>1, <1>2, <1>5, <2>1 DEF StageAssign
    <3>2. QED
      BY <1>2, <1>3, <1>5, <1>6, <3>1 DEF StageUnlocked
  <2>2. CASE StageDestroy(t)
    <3>1. ~Kind("recursive") => Held(t) = {frame[t].to}
      <4>1. frame[t].to \in Held(t) /\ depth[t] = Cardinality(Held(t))
        BY <2>2 DEF StageDestroy
      <4>2. ~Kind("recursive") => Cardinality(Held(t)) <= 1
        BY <4>1, GuardFacts
      <4>3. QED
        BY <1>1, <4>1, <4>2, OneLess
    <3>2. QED
      BY <1>1, <1>2, <1>3, <1>5, <1>6, <2>2, <3>1 DEF StageDestroy, StageUnlocked
  <2>3. QED
    BY <1>1, <2>1, <2>2
<1>8. GuardFits(t)'
  BY <1>3, <1>5, <1>6, <1>7, GuardFacts DEF GuardFits, Stage
<1>9. LockMove(t)
  BY <1>0 DEF LockMove
<1>10. QED
  BY <1>0, <1>6, <1>8, <1>9, OneThread

\* After the unlock the pointers change: the thread has a guard for each of
\* its open calls again.
LEMMA UnlockedKeeps ==
  ASSUME GuardInv, LockInv', NEW t \in Threads, setup' = setup, unlocked(t)
  PROVE  GuardInv'
<1>1. /\ frame[t].do = "unlocked" /\ pc[t] = "ready" /\ SetFrame(t, None)
      /\ UNCHANGED lockVars /\ UNCHANGED dataVars
  BY DEF unlocked, Is, At
<1>2. /\ StageUnlocked(t) /\ GuardTypes /\ TypeOK /\ depth[t] \in Nat /\ copy[t] = -1
      /\ IsFiniteSet(Held(t)) /\ NoSlot \notin Slots
  BY <1>1, StageOf, GuardFacts, HeldFinite DEF GuardFits
<1>3. PICK f \in Frames : f = frame[t]
  BY GuardFacts
<1>4. guard' = [guard EXCEPT ![t] = [s \in Slots |-> IF s = f.to THEN f.new
                                     ELSE IF s = f.from THEN "null" ELSE guard[t][s]]]
  BY <1>2, <1>3 DEF unlocked, GuardTypes
<1>5. /\ guard' \in [Threads -> [Slots -> {"null", "lock", "shared"}]]
      /\ \A u \in Threads : u # t => guard'[u] = guard[u]
      /\ \A s \in Slots : guard'[t][s] = IF s = f.to THEN f.new
                                         ELSE IF s = f.from THEN "null" ELSE guard[t][s]
  BY <1>2, <1>4, GuardFacts DEF GuardTypes
<1>6. None \in Frames /\ None.do = "none" /\ None.new = "null"
  BY DEF None
<1>7. GuardTypes' /\ frame'[t] = None /\ \A u \in Threads : u # t => frame'[u] = frame[u]
  BY <1>1, <1>2, <1>5, <1>6, NewFrame DEF GuardTypes, dataVars
<1>8. /\ pc'[t] = "ready" /\ depth'[t] = depth[t] /\ Mode(t)' = Mode(t) /\ copy'[t] = -1
      /\ (Kind("recursive"))' = Kind("recursive") /\ (Kind("shared"))' = Kind("shared")
  BY <1>1, <1>2 DEF lockVars, dataVars, Kind, Mode
<1>9. f.to \in Held(t) /\ f.to \in Slots /\ f.new \in {"null", "lock"}
  BY <1>2, <1>3 DEF StageUnlocked, Held
<1>10. depth[t] = Cardinality(Held(t)')
  <2>1. CASE f.new = "null"
    <3>1. Held(t)' = Held(t) \ {f.to}
      BY <1>2, <1>3, <1>5, <1>9, <2>1 DEF Held, StageUnlocked
    <3>2. depth[t] + 1 = Cardinality(Held(t))
      BY <1>2, <1>3, <2>1 DEF StageUnlocked
    <3>3. QED
      BY <1>2, <1>9, <3>1, <3>2, OneLess
  <2>2. CASE f.new = "lock" /\ f.from = NoSlot
    <3>1. Held(t)' = Held(t)
      BY <1>2, <1>3, <1>5, <1>9, <2>2 DEF Held
    <3>2. QED
      BY <1>2, <1>3, <2>2, <3>1 DEF StageUnlocked, Held
  <2>3. CASE f.new = "lock" /\ f.from # NoSlot
    <3>1. f.from \in Held(t) \ {f.to} /\ depth[t] + 1 = Cardinality(Held(t))
      BY <1>2, <1>3, <2>3 DEF StageUnlocked
    <3>2. Held(t)' = Held(t) \ {f.from}
      <4>1. f.from \in Slots /\ f.from # f.to
        BY <3>1 DEF Held
      <4>2. guard'[t][f.to] = "lock" /\ guard'[t][f.from] = "null"
        BY <1>5, <1>9, <2>3, <4>1
      <4>3. \A s \in Slots \ {f.to, f.from} : guard'[t][s] = guard[t][s]
        BY <1>5
      <4>4. QED
        BY <1>9, <3>1, <4>1, <4>2, <4>3 DEF Held
    <3>3. /\ Cardinality(Held(t)) = Cardinality(Held(t) \ {f.from}) + 1
          /\ Cardinality(Held(t) \ {f.from}) \in Nat
      <4>1. f.from \in Held(t)
        BY <3>1
      <4>2. QED
        BY <1>2, <4>1, OneLess
    <3>4. QED
      BY <1>2, <3>1, <3>2, <3>3
  <2>4. QED
    BY <1>9, <2>1, <2>2, <2>3
<1>11. \A s \in Held(t)' : guard'[t][s] = "lock" /\ Kind("recursive")
  <2>1. CASE Kind("recursive")
    <3>1. \A s \in Held(t) : guard[t][s] = "lock"
      BY <2>1, GuardFacts DEF GuardFits, Kind
    <3>2. QED
      BY <1>5, <1>9, <2>1, <3>1 DEF Held
  <2>2. CASE Held(t) = {f.to} /\ f.new = "null"
    BY <1>5, <1>9, <2>2 DEF Held
  <2>3. QED
    BY <1>2, <1>3, <2>1, <2>2 DEF StageUnlocked
<1>12. \A s \in Held(t)' : guard'[t][s] = Mode(t)
  BY <1>11, GuardFacts DEF Mode, Kind
<1>13. StageNone(t)'
  BY <1>6, <1>7, <1>8, <1>10, <1>12 DEF StageNone
<1>14. GuardFits(t)'
  BY <1>6, <1>7, <1>8, <1>11, <1>13 DEF GuardFits, Stage
<1>15. QED
  BY <1>1, <1>5, <1>7, <1>14, OneThread

\* Two threads with guards in no operation: neither has an exclusive one.
LEMMA WriterIsAlone ==
  ASSUME GuardInv, NEW t \in Threads, NEW u \in Threads, frame[t].do = "none",
         frame[u].do = "none", Held(u) # {}, NEW s \in Slots, guard[t][s] = "lock"
  PROVE  t = u
<1>1. /\ StageNone(t) /\ StageNone(u) /\ LockInv /\ depth[t] \in Nat /\ depth[u] \in Nat
  BY StageOf, GuardFacts
<1>2. s \in Held(t)
  BY DEF Held
<1>3. depth[t] > 0 /\ depth[u] > 0 /\ ~reading[t]
  <2>1. depth[t] = Cardinality(Held(t)) /\ depth[u] = Cardinality(Held(u)) /\ guard[t][s] = Mode(t)
    BY <1>1, <1>2 DEF StageNone
  <2>2. depth[t] # 0 /\ depth[u] # 0
    BY <1>2, <2>1, HeldFinite
  <2>3. QED
    BY <1>1, <2>1, <2>2 DEF Mode
<1>4. CASE Kind("shared")
  <2>1. t \in Writers /\ (u \in Writers \/ u \in Readers)
    BY <1>3 DEF Writers, Readers
  <2>2. QED
    BY <1>1, <1>4, <2>1, SharedFacts
<1>5. CASE ~Kind("shared")
  <2>1. t \in Inside /\ u \in Inside
    BY <1>3 DEF Inside
  <2>2. QED
    BY <1>1, <1>5, <2>1, OwnerFacts
<1>6. QED
  BY <1>4, <1>5

\* The value is read or written through a guard.
LEMMA AccessKeeps ==
  ASSUME GuardInv, LockInv', NEW t \in Threads, setup' = setup, read_value(t) \/ write_value(t)
  PROVE  GuardInv'
<1>1. UNCHANGED <<lockVars, guard, frame>> /\ GuardTypes /\ TypeOK /\ NoLostUpdate
  BY GuardFacts DEF read_value, write_value, GuardInv
<1>2. \A u \in Threads : Stage(u)'
  <2> SUFFICES ASSUME NEW u \in Threads PROVE Stage(u)'
    OBVIOUS
  <2>1. /\ pc' = pc /\ depth' = depth /\ reading' = reading /\ guard' = guard /\ frame' = frame
        /\ Held(u)' = Held(u) /\ Mode(u)' = Mode(u)
        /\ (Kind("recursive"))' = Kind("recursive")
    BY <1>1 DEF lockVars, Held, Mode, Kind
  <2>2. Stage(u)
    BY GuardFacts
  <2>3. QED
    BY <2>1, <2>2
    DEF Stage, StageNone, StageAcquire, StageAssign, StageDestroy, StageUnlocked
<1>3. ASSUME NEW u \in Threads, copy'[u] # -1 => frame[u].do = "none" /\ Held(u) # {}
      PROVE  GuardFits(u)'
  <2>1. /\ frame' = frame /\ Held(u)' = Held(u) /\ guard' = guard
        /\ (Kind("shared"))' = Kind("shared")
    BY <1>1 DEF Held, Kind
  <2>2. QED
    BY <1>2, <1>3, <2>1, GuardFacts DEF GuardFits
<1>4. \A u \in Threads : copy[u] # -1 => frame[u].do = "none" /\ Held(u) # {}
  BY GuardFacts DEF GuardFits
<1>5. CASE read_value(t)
  <2>1. /\ copy' = [copy EXCEPT ![t] = value] /\ value' = value /\ writes' = writes
        /\ frame[t].do = "none" /\ Held(t) # {}
    BY <1>5 DEF read_value, Is, NoGuard, Held
  <2>2. \A u \in Threads : GuardFits(u)'
    BY <1>1, <1>3, <1>4, <2>1 DEF GuardTypes
  <2>3. GuardTypes' /\ NoLostUpdate'
    BY <1>1, <2>1 DEF GuardTypes, NoLostUpdate
  <2>4. QED
    BY <2>2, <2>3 DEF GuardInv
<1>6. CASE write_value(t)
  <2>1. /\ copy[t] # -1 /\ copy' = [copy EXCEPT ![t] = -1]
        /\ \/ value' = value /\ writes' = writes
           \/ /\ \E s \in Slots : guard[t][s] = "lock"
              /\ value' = copy[t] + 1 /\ writes' = writes + 1
    BY <1>6 DEF write_value
  <2>2. \A u \in Threads : GuardFits(u)'
    BY <1>1, <1>3, <1>4, <2>1 DEF GuardTypes
  <2>3. copy[t] = value /\ value = writes /\ value \in Nat
    BY <1>1, <2>1 DEF NoLostUpdate, GuardTypes
  <2>4. GuardTypes'
    BY <1>1, <2>1, <2>3 DEF GuardTypes
  <2>5. ASSUME NEW u \in Threads, copy'[u] # -1 PROVE copy'[u] = value'
    <3>1. u # t /\ copy'[u] = copy[u] /\ copy[u] = value
      BY <1>1, <2>1, <2>5 DEF GuardTypes, NoLostUpdate
    <3>2. ~\E s \in Slots : guard[t][s] = "lock"
      BY <1>4, <2>1, <2>5, <3>1, WriterIsAlone
    <3>3. QED
      BY <2>1, <3>1, <3>2
  <2>6. value' = writes'
    BY <2>1, <2>3
  <2>7. NoLostUpdate'
    BY <2>5, <2>6 DEF NoLostUpdate
  <2>8. QED
    BY <2>2, <2>4, <2>7 DEF GuardInv
<1>7. QED
  BY <1>5, <1>6

\* Guards and locks agree throughout every sequence of operations.
THEOREM GuardsAreCorrect == Spec => []GuardInv
<1>1. ObjectInit => GuardInv
  <2> SUFFICES ASSUME ObjectInit PROVE GuardInv
    OBVIOUS
  <2>1. LockInv /\ None \in Frames /\ None.do = "none" /\ None.new = "null"
    BY InitLock DEF ObjectInit, None
  <2>2. GuardTypes /\ NoLostUpdate
    BY <2>1 DEF ObjectInit, GuardTypes, NoLostUpdate
  <2>3. ASSUME NEW t \in Threads PROVE GuardFits(t)
    <3>1. Held(t) = {} /\ Cardinality(Held(t)) = 0
      BY FS_EmptySet DEF Held, ObjectInit
    <3>2. StageNone(t)
      BY <2>1, <3>1 DEF StageNone, ObjectInit, Init
    <3>3. QED
      BY <2>1, <3>1, <3>2 DEF GuardFits, Stage, ObjectInit
  <2>4. QED
    BY <2>1, <2>2, <2>3 DEF GuardInv
<1>2. GuardInv /\ [Next]_allVars => GuardInv'
  <2> SUFFICES ASSUME GuardInv, [Next]_allVars PROVE GuardInv'
    OBVIOUS
  <2>0. LockInv' /\ TypeOK
    BY ObjectKeepsLock DEF GuardInv, LockInv, CountIsDepth
  <2>1. CASE Next
    <3>1. PICK t \in setup.threads :
            \/ Progress(t) \/ LockStep(t, Exchange(t) \/ Retry(t))
            \/ /\ \/ read_value(t)
                  \/ \E s \in setup.slots :
                       \/ do_lock(t, s) \/ do_try_lock(t, s) \/ do_lock_shared(t, s)
                       \/ do_try_lock_shared(t, s)
                       \/ \E r \in setup.slots : move(t, s, r)
               /\ UNCHANGED setup
      BY <2>1 DEF Next
    <3>2. t \in Threads /\ setup.slots \subseteq Slots
      BY <2>0, <3>1, SetupKinds, ObjectParameters
    <3>3. CASE Progress(t)
      <4>1. CASE LockStep(t, Inner(t))
        BY <2>0, <3>2, <4>1, MiddleKeeps DEF LockStep
      <4>2. CASE UNCHANGED setup /\ (returned(t) \/ guard_unlock(t) \/ unlocked(t) \/ write_value(t))
        BY <2>0, <3>2, <4>2, ReturnedKeeps, GuardUnlockKeeps, UnlockedKeeps, AccessKeeps
      <4>3. CASE UNCHANGED setup /\ \E s \in Slots : destroy(t, s)
        BY <2>0, <3>2, <4>3, DestroyKeeps
      <4>4. QED
        BY <3>3, <4>1, <4>2, <4>3 DEF Progress
    <3>4. CASE LockStep(t, Exchange(t) \/ Retry(t))
      BY <2>0, <3>2, <3>4, MiddleKeeps DEF LockStep
    <3>5. CASE read_value(t) /\ UNCHANGED setup
      BY <2>0, <3>2, <3>5, AccessKeeps
    <3>6. CASE /\ \E s \in setup.slots : \/ do_lock(t, s) \/ do_try_lock(t, s)
                                         \/ do_lock_shared(t, s) \/ do_try_lock_shared(t, s)
               /\ UNCHANGED setup
      BY <2>0, <3>2, <3>6, CallKeeps
    <3>7. CASE UNCHANGED setup /\ \E s \in setup.slots, r \in setup.slots : move(t, s, r)
      BY <2>0, <3>2, <3>7, MoveKeeps
    <3>8. QED
      BY <3>1, <3>3, <3>4, <3>5, <3>6, <3>7
  <2>2. CASE UNCHANGED allVars
    <3>1. UNCHANGED lockVars /\ UNCHANGED dataVars /\ guard' = guard /\ frame' = frame /\ setup' = setup
      BY <2>2 DEF allVars, dataVars
    <3>2. GuardTypes' /\ NoLostUpdate'
      BY <3>1 DEF GuardInv, GuardTypes, NoLostUpdate, dataVars
    <3>3. ASSUME NEW t \in Threads PROVE GuardFits(t)'
      <4>1. GuardFits(t)
        BY DEF GuardInv
      <4>2. QED
        BY <3>1, <4>1
        DEF GuardFits, Stage, StageNone, StageAcquire, StageAssign, StageDestroy, StageUnlocked,
            Held, Mode, Kind, lockVars, dataVars
    <3>4. QED
      BY <2>0, <3>2, <3>3 DEF GuardInv
  <2>3. QED
    BY <2>1, <2>2
<1>3. QED
  BY <1>1, <1>2, PTL DEF Spec

\* Between two operations a thread has as many open lock calls as guards:
\* no guard unlocks what another one has unlocked, and none is forgotten.
THEOREM GuardsUnlockOnce == Spec => []GuardsMatchLocks
<1>1. GuardInv => GuardsMatchLocks
  <2> SUFFICES ASSUME GuardInv, NEW t \in Threads, Is(t, "none")
               PROVE  /\ depth[t] = Guards(t, "lock") + Guards(t, "shared")
                      /\ Guards(t, "shared") = (IF reading[t] THEN 1 ELSE 0)
    BY DEF GuardsMatchLocks
  <2>1. StageNone(t) /\ LockInv /\ guard[t] \in [Slots -> {"null", "lock", "shared"}]
    BY StageOf, GuardFacts DEF Is
  <2>2. depth[t] = Cardinality(Held(t)) /\ Cardinality(Held(t)) \in Nat
    BY <2>1, HeldFinite DEF StageNone
  <2>3. CASE reading[t]
    <3>1. depth[t] = 1
      BY <2>1, <2>3 DEF LockInv, LocalsFit
    <3>2. /\ {s \in Slots : guard[t][s] = "shared"} = Held(t)
          /\ {s \in Slots : guard[t][s] = "lock"} = {}
      <4>1. \A s \in Slots : guard[t][s] # "null" => guard[t][s] = "shared"
        BY <2>1, <2>3 DEF StageNone, Held, Mode
      <4>2. QED
        BY <4>1 DEF Held
    <3>3. Guards(t, "shared") = depth[t] /\ Guards(t, "lock") = 0
      BY <2>2, <3>2, FS_EmptySet DEF Guards
    <3>4. QED
      BY <2>3, <3>1, <3>3
  <2>4. CASE ~reading[t]
    <3>1. /\ {s \in Slots : guard[t][s] = "lock"} = Held(t)
          /\ {s \in Slots : guard[t][s] = "shared"} = {}
      <4>1. \A s \in Slots : guard[t][s] # "null" => guard[t][s] = "lock"
        BY <2>1, <2>4 DEF StageNone, Held, Mode
      <4>2. QED
        BY <4>1 DEF Held
    <3>2. Guards(t, "lock") = depth[t] /\ Guards(t, "shared") = 0
      BY <2>2, <3>1, FS_EmptySet DEF Guards
    <3>3. depth[t] \in Nat
      BY <2>2
    <3>4. QED
      BY <2>4, <3>2, <3>3
  <2>5. QED
    BY <2>3, <2>4
<1>2. QED
  BY <1>1, GuardsAreCorrect, PTL

\* The value of a locked_object is what its writers made it one after the
\* other, and no reader sees it change.
THEOREM NoUpdateIsLost == Spec => []NoLostUpdate
<1>1. GuardInv => NoLostUpdate
  BY DEF GuardInv
<1>2. QED
  BY <1>1, GuardsAreCorrect, PTL

================================================================================
