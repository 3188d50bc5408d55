------------------------------ MODULE Spinlocks ------------------------------
(***************************************************************************)
(* spinlock_mutex<...>: the plain spinlock (one flag), the recursive one   *)
(* (an atomic owner id and a recursion count that is an ordinary variable) *)
(* and the shared one (a 32-bit word: bit 31 "write_locked", bit 30        *)
(* "write_pending", the rest the number of readers).                       *)
(*                                                                         *)
(* One action per atomic operation that can change the lock or decide      *)
(* where the thread goes, and per access to the recursion count: whether   *)
(* two threads can touch it together is part of the question.  A load that *)
(* only makes a thread pause and look again is no step, which is also all  *)
(* that policy with_backoff adds.                                          *)
(***************************************************************************)
EXTENDS Integers, FiniteSets

CONSTANTS
  Threads,
  NoThread,    \* std::thread::id {}
  MaxDepth,    \* bound on the nesting of lock calls of the recursive lock
  Setups       \* records: the kind of lock, who uses it

ASSUME SpinlocksParameters ==
  /\ IsFiniteSet(Threads) /\ NoThread \notin Threads /\ MaxDepth \in Nat \ {0}
  /\ \A u \in Setups : u.kind \in {"plain", "recursive", "shared"} /\ u.threads \subseteq Threads

VARIABLES
  setup,             \* the member of Setups in force, fixed
  owner,             \* owner_; for the plain lock, locked_ and who set it
  recursion_count,   \* recursion_count_
  word,              \* state_ of the shared lock
  expected,          \* per thread: its local `expected`
  depth,             \* per thread: its open lock and lock_shared calls
  reading,           \* per thread: whether those are lock_shared
  pc

lockVars == <<owner, recursion_count, word, expected, depth, reading, pc>>

Kind(k) == setup.kind = k

(* The three fields of the word; an exchange compares all of them.         *)
Word == [readers : Nat, write_pending : BOOLEAN, write_locked : BOOLEAN]
Free == [readers |-> 0, write_pending |-> FALSE, write_locked |-> FALSE]

(* "ready": outside the library, owning the lock or not.  Recursive and    *)
(* plain: "spin": lock_slow, before a load; "exchange": before its         *)
(* exchange; "first": became the owner, before the store of 1; "again":    *)
(* found itself the owner, before the increment; "leave": before the       *)
(* decrement; "store": before the store that frees the owner.  Shared:     *)
(* "tryWrite", "tryRead": before the exchange of try_lock(_shared);        *)
(* "look": lock_slow, before its load; "announce": before the exchange     *)
(* that sets write_pending; "drain": waiting for the readers to leave;     *)
(* "seize": before the exchange that takes the lock; "lookShared",         *)
(* "enter": the load and the exchange of lock_shared.                      *)
Spinning == {"spin", "exchange"}
WriterWaits == {"look", "announce", "drain", "seize"}
ReaderWaits == {"lookShared", "enter"}
Counting == {"first", "again", "leave", "store"}
Labels == {"ready", "tryWrite", "tryRead"} \cup Spinning \cup WriterWaits \cup ReaderWaits \cup Counting

At(t, label) == pc[t] = label
Goto(t, label) == pc' = [pc EXCEPT ![t] = label]
Read(t) == expected' = [expected EXCEPT ![t] = word]
Opened(t) == depth' = [depth EXCEPT ![t] = @ + 1] /\ Goto(t, "ready")
Closed(t, label) == depth' = [depth EXCEPT ![t] = @ - 1] /\ Goto(t, label)

Init ==
  /\ setup \in Setups
  /\ owner = NoThread /\ recursion_count = 0 /\ word = Free
  /\ expected = [t \in Threads |-> Free]
  /\ depth = [t \in Threads |-> 0]
  /\ reading = [t \in Threads |-> FALSE]
  /\ pc = [t \in Threads |-> "ready"]

-----------------------------------------------------------------------------
(* The plain lock.                                                         *)
plain_try_lock(t) ==
  /\ Kind("plain") /\ At(t, "ready") /\ depth[t] = 0
  /\ owner = NoThread /\ owner' = t
  /\ Opened(t)
  /\ UNCHANGED <<recursion_count, word, expected, reading>>

plain_lock(t) ==
  /\ Kind("plain") /\ At(t, "ready") /\ depth[t] = 0
  /\ owner # NoThread
  /\ Goto(t, "spin")
  /\ UNCHANGED <<owner, recursion_count, word, expected, depth, reading>>

plain_lock_slow(t) ==
  /\ Kind("plain") /\ At(t, "exchange")
  /\ IF owner = NoThread THEN owner' = t /\ Opened(t)
                         ELSE Goto(t, "spin") /\ UNCHANGED <<owner, depth>>
  /\ UNCHANGED <<recursion_count, word, expected, reading>>

plain_unlock(t) ==
  /\ Kind("plain") /\ At(t, "ready") /\ depth[t] > 0
  /\ owner' = NoThread
  /\ Closed(t, "ready")
  /\ UNCHANGED <<recursion_count, word, expected, reading>>

-----------------------------------------------------------------------------
(* The recursive lock.  lock and try_lock: one exchange decides between    *)
(* the first acquisition, a nested one, and waiting or failing.            *)
recursive_try_lock(t) ==
  /\ Kind("recursive") /\ At(t, "ready") /\ depth[t] < MaxDepth
  /\ \/ owner = NoThread /\ owner' = t /\ Goto(t, "first")
     \/ owner = t /\ Goto(t, "again") /\ UNCHANGED owner
  /\ UNCHANGED <<recursion_count, word, expected, depth, reading>>

recursive_lock(t) ==
  /\ Kind("recursive") /\ At(t, "ready")
  /\ owner \notin {t, NoThread}
  /\ Goto(t, "spin")
  /\ UNCHANGED <<owner, recursion_count, word, expected, depth, reading>>

set_count_missing(t) ==   \* mutant: the first acquisition does not set the count
  /\ At(t, "first")
  /\ Opened(t)
  /\ UNCHANGED <<owner, recursion_count, word, expected, reading>>

set_count(t) ==
  /\ At(t, "first")
  /\ recursion_count' = 1
  /\ Opened(t)
  /\ UNCHANGED <<owner, word, expected, reading>>

increment(t) ==
  /\ At(t, "again")
  /\ recursion_count' = recursion_count + 1
  /\ Opened(t)
  /\ UNCHANGED <<owner, word, expected, reading>>

(* lock_slow: wait until there is no owner, then exchange.                 *)
spin(t) ==
  /\ At(t, "spin")
  /\ owner = NoThread
  /\ Goto(t, "exchange")
  /\ UNCHANGED <<owner, recursion_count, word, expected, depth, reading>>

exchange_blind(t) ==   \* mutant: an owner that came meanwhile is overwritten
  /\ Kind("recursive") /\ At(t, "exchange")
  /\ owner' = t
  /\ Goto(t, "first")
  /\ UNCHANGED <<recursion_count, word, expected, depth, reading>>

exchange(t) ==
  /\ Kind("recursive") /\ At(t, "exchange")
  /\ owner = NoThread
  /\ owner' = t
  /\ Goto(t, "first")
  /\ UNCHANGED <<recursion_count, word, expected, depth, reading>>

exchange_fails(t) ==
  /\ Kind("recursive") /\ At(t, "exchange")
  /\ Goto(t, "spin")
  /\ UNCHANGED <<owner, recursion_count, word, expected, depth, reading>>

(* unlock: decrement, and free the owner when the count has reached 0.     *)
recursive_unlock(t) ==
  /\ Kind("recursive") /\ At(t, "ready") /\ depth[t] > 0
  /\ Closed(t, "leave")
  /\ UNCHANGED <<owner, recursion_count, word, expected, reading>>

decrement(t) ==
  /\ At(t, "leave")
  /\ recursion_count' = recursion_count - 1
  /\ Goto(t, IF recursion_count = 1 THEN "store" ELSE "ready")
  /\ UNCHANGED <<owner, word, expected, depth, reading>>

free_owner(t) ==
  /\ At(t, "store")
  /\ owner' = NoThread
  /\ Goto(t, "ready")
  /\ UNCHANGED <<recursion_count, word, expected, depth, reading>>

-----------------------------------------------------------------------------
(* The shared lock.                                                        *)
ownerVars == <<owner, recursion_count>>
NoOwner(w) == w.readers = 0 /\ ~w.write_locked
ReadersMayEnter(w) == ~w.write_locked /\ ~w.write_pending
OneMoreReader(w) == [w EXCEPT !.readers = @ + 1]
Outside(t) == Kind("shared") /\ At(t, "ready") /\ depth[t] = 0

Seized_still_pending(w) ==   \* mutant: write_pending is not cleared
  [w EXCEPT !.write_locked = TRUE]

(* ( expected & ~write_pending ) | write_locked                            *)
Seized(w) == [w EXCEPT !.write_pending = FALSE, !.write_locked = TRUE]

(* lock: take a word that is 0, otherwise go to lock_slow.                 *)
shared_lock(t) ==
  /\ Outside(t)
  /\ IF word = Free THEN word' = Seized(Free) /\ Opened(t)
                    ELSE Goto(t, "look") /\ UNCHANGED <<word, depth>>
  /\ UNCHANGED <<ownerVars, expected, reading>>

(* lock_slow: look at a word that is not write-locked; without readers try *)
(* to take it, with readers set write_pending first unless it is set.      *)
look(t) ==
  /\ At(t, "look")
  /\ ~word.write_locked
  /\ Read(t)
  /\ Goto(t, IF word.readers = 0 THEN "seize"
             ELSE IF word.write_pending THEN "drain" ELSE "announce")
  /\ UNCHANGED <<ownerVars, word, depth, reading>>

announce(t) ==
  /\ At(t, "announce")
  /\ word = expected[t]
  /\ word' = [word EXCEPT !.write_pending = TRUE]
  /\ Goto(t, "drain")
  /\ UNCHANGED <<ownerVars, expected, depth, reading>>

drain_writers_only(t) ==   \* mutant: does not wait for the readers
  /\ At(t, "drain")
  /\ ~word.write_locked
  /\ Read(t)
  /\ Goto(t, "seize")
  /\ UNCHANGED <<ownerVars, word, depth, reading>>

drain(t) ==
  /\ At(t, "drain")
  /\ NoOwner(word)
  /\ Read(t)
  /\ Goto(t, "seize")
  /\ UNCHANGED <<ownerVars, word, depth, reading>>

seize(t) ==
  /\ At(t, "seize")
  /\ word = expected[t]
  /\ word' = Seized(word)
  /\ Opened(t)
  /\ UNCHANGED <<ownerVars, expected, reading>>

(* Either weak exchange of lock_slow fails: start over.                    *)
slow_retry(t) ==
  /\ At(t, "announce") \/ At(t, "seize")
  /\ Goto(t, "look")
  /\ UNCHANGED <<ownerVars, word, expected, depth, reading>>

(* try_lock: one load and one strong exchange.                             *)
shared_try_lock(t) ==
  /\ Outside(t)
  /\ NoOwner(word)
  /\ Read(t)
  /\ Goto(t, "tryWrite")
  /\ UNCHANGED <<ownerVars, word, depth, reading>>

try_lock_exchange(t) ==
  /\ At(t, "tryWrite")
  /\ IF word = expected[t] THEN word' = Seized(word) /\ Opened(t)
                           ELSE Goto(t, "ready") /\ UNCHANGED <<word, depth>>
  /\ UNCHANGED <<ownerVars, expected, reading>>

(* unlock: clear write_locked and nothing else.                            *)
shared_unlock(t) ==
  /\ Kind("shared") /\ At(t, "ready") /\ depth[t] > 0 /\ ~reading[t]
  /\ word' = [word EXCEPT !.write_locked = FALSE]
  /\ Closed(t, "ready")
  /\ UNCHANGED <<ownerVars, expected, reading>>

(* lock_shared and lock_shared_slow: wait for a word without both writer   *)
(* bits and add one reader.                                                *)
lock_shared(t) ==
  /\ Outside(t)
  /\ Goto(t, "lookShared")
  /\ UNCHANGED <<ownerVars, word, expected, depth, reading>>

look_shared(t) ==
  /\ At(t, "lookShared")
  /\ ReadersMayEnter(word)
  /\ Read(t)
  /\ Goto(t, "enter")
  /\ UNCHANGED <<ownerVars, word, depth, reading>>

enter_store(t) ==   \* mutant: a store instead of an exchange
  /\ At(t, "enter")
  /\ word' = OneMoreReader(expected[t])
  /\ reading' = [reading EXCEPT ![t] = TRUE]
  /\ Opened(t)
  /\ UNCHANGED <<ownerVars, expected>>

enter(t) ==
  /\ At(t, "enter")
  /\ word = expected[t]
  /\ word' = OneMoreReader(word)
  /\ reading' = [reading EXCEPT ![t] = TRUE]
  /\ Opened(t)
  /\ UNCHANGED <<ownerVars, expected>>

enter_retry(t) ==
  /\ At(t, "enter")
  /\ Goto(t, "lookShared")
  /\ UNCHANGED <<ownerVars, word, expected, depth, reading>>

try_lock_shared(t) ==
  /\ Outside(t)
  /\ ReadersMayEnter(word)
  /\ Read(t)
  /\ Goto(t, "tryRead")
  /\ UNCHANGED <<ownerVars, word, depth, reading>>

try_lock_shared_exchange(t) ==
  /\ At(t, "tryRead")
  /\ IF word = expected[t]
     THEN word' = OneMoreReader(word) /\ reading' = [reading EXCEPT ![t] = TRUE] /\ Opened(t)
     ELSE Goto(t, "ready") /\ UNCHANGED <<word, reading, depth>>
  /\ UNCHANGED <<ownerVars, expected>>

unlock_shared(t) ==
  /\ Kind("shared") /\ At(t, "ready") /\ depth[t] > 0 /\ reading[t]
  /\ word' = [word EXCEPT !.readers = @ - 1]
  /\ reading' = [reading EXCEPT ![t] = FALSE]
  /\ Closed(t, "ready")
  /\ UNCHANGED <<ownerVars, expected>>

-----------------------------------------------------------------------------
(* The calls a client makes, and the steps inside them.                    *)
Lock(t) == plain_lock(t) \/ plain_try_lock(t) \/ recursive_lock(t) \/ recursive_try_lock(t) \/ shared_lock(t)
TryLock(t) == plain_try_lock(t) \/ recursive_try_lock(t) \/ shared_try_lock(t)
LockShared(t) == lock_shared(t)
TryLockShared(t) == try_lock_shared(t)
Unlock(t) == plain_unlock(t) \/ recursive_unlock(t) \/ shared_unlock(t)
UnlockShared(t) == unlock_shared(t)

Inner(t) ==
  \/ plain_lock_slow(t) \/ set_count(t) \/ increment(t) \/ spin(t) \/ decrement(t) \/ free_owner(t)
  \/ look(t) \/ announce(t) \/ drain(t) \/ look_shared(t)
  \/ try_lock_exchange(t) \/ try_lock_shared_exchange(t)
Exchange(t) == exchange(t) \/ seize(t) \/ enter(t)
Retry(t) == exchange_fails(t) \/ slow_retry(t) \/ enter_retry(t)
RetryDue(t) == Retry(t) /\ IF Kind("recursive") THEN owner # NoThread ELSE word # expected[t]

-----------------------------------------------------------------------------
TypeOK ==
  /\ setup \in Setups
  /\ owner \in Threads \cup {NoThread} /\ recursion_count \in 0 .. MaxDepth
  /\ word \in Word /\ expected \in [Threads -> Word]
  /\ depth \in [Threads -> 0 .. MaxDepth] /\ reading \in [Threads -> BOOLEAN]
  /\ pc \in [Threads -> Labels]

Writers == {t \in Threads : depth[t] > 0 /\ ~reading[t]}
Readers == {t \in Threads : depth[t] > 0 /\ reading[t]}

(* The shared lock is exact: the reader count and write_locked describe    *)
(* the threads inside, and a writer is alone.                              *)
WordIsExact == Kind("shared") =>
  /\ word.readers = Cardinality(Readers)
  /\ Cardinality(Writers) = (IF word.write_locked THEN 1 ELSE 0)
  /\ Writers # {} => Readers = {}

(* write_pending shuts the readers out, so it is never left behind: while  *)
(* it is set some writer is still in lock_slow and will clear it.          *)
PendingHasWriter ==
  word.write_pending => \E t \in Threads : pc[t] \in WriterWaits

(* The threads that own the lock or are about to touch the count.          *)
Inside == {t \in Threads : depth[t] > 0 \/ pc[t] \in Counting}

(* One thread at a time owns the lock or accesses recursion_count_, which  *)
(* is not atomic: no data race.  The owner word names that thread, and     *)
(* names nobody once the last unlock is done.                              *)
OwnerIsInside == ~Kind("shared") => Inside = {owner} \ {NoThread}

(* The count is the owner's open lock calls, so the outermost unlock, and  *)
(* no other, frees the lock.                                               *)
CountIsDepth ==
  /\ TypeOK
  /\ \A t \in Threads : Kind("recursive") /\ owner = t /\ pc[t] # "first" =>
       recursion_count = depth[t] + (IF At(t, "leave") THEN 1 ELSE 0)

(* A lock that nobody owns is eventually taken while threads spin for it:  *)
(* readers shut out by write_pending and writers draining the readers do   *)
(* not wait for each other.                                                *)
FreeLockIsTaken ==
  []<>(\/ owner # NoThread \/ Writers # {} \/ Readers # {}
       \/ \A t \in Threads : pc[t] \notin Spinning \cup WriterWaits \cup ReaderWaits)

==============================================================================
