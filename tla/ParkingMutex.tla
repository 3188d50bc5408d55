----------------------------- MODULE ParkingMutex -----------------------------
(***************************************************************************)
(* parking_mutex<Policies...>: one 32-bit word `state_` (bit 0: locked,    *)
(* bits 1-31: number of registered waiters) and the futex wait queue of    *)
(* its address.  One action per atomic operation on the word, so every     *)
(* interleaving of the atomics is explored.  The four classes behind the   *)
(* template differ only in two policies, the constants HasBackoff and      *)
(* HasTimed.                                                               *)
(*                                                                         *)
(* atomic_wait(state_, e) is modelled by what it does to its caller: it    *)
(* returns once it has seen the word differ from e, and the thread is put  *)
(* to sleep by the kernel only if the word equals e at that instant (its   *)
(* spinning phases, EAGAIN and EINTR all come back to the same             *)
(* comparison).  compare_exchange_weak may fail although the word matches. *)
(***************************************************************************)
EXTENDS Integers, FiniteSets

CONSTANTS
  Threads,      \* the threads that use the mutex
  HasBackoff,   \* policy with_backoff: spin before registering as a waiter
  HasTimed      \* policy timed: try_lock_for / try_lock_until exist

ASSUME ThreadsFinite == IsFiniteSet(Threads)
ASSUME PoliciesBoolean == HasBackoff \in BOOLEAN /\ HasTimed \in BOOLEAN

VARIABLES
  state,        \* the word state_
  expected,     \* per thread: its local `expected`
  timed,        \* per thread: inside lock_slow_until rather than lock_slow
  pc            \* per thread: the atomic operation it is about to perform

vars == <<state, expected, timed, pc>>

(* Program points.  "idle": outside; "spin": the backoff functor;          *)
(* "register": before fetch_add(2); "load": before the load of state_;     *)
(* "loop": at the head of the loop, inside atomic_wait when expected is    *)
(* odd; "asleep": in the kernel's wait queue; "expired": the futex call    *)
(* returned ETIMEDOUT; "undoLoad", "undo": the retreat after a timeout;    *)
(* "cs": owns the lock; "notify": unlocked, about to call                  *)
(* atomic_notify_one.                                                      *)
Registered == {"load", "loop", "asleep", "expired", "undoLoad", "undo"}
Acquiring == {"spin", "register"} \cup Registered
Labels == {"idle", "cs", "notify"} \cup Acquiring

Locked(word) == word % 2 = 1

At(t, label) == pc[t] = label
Goto(t, label) == pc' = [pc EXCEPT ![t] = label]

Init ==
  /\ state = 0
  /\ expected = [t \in Threads |-> 0]
  /\ timed = [t \in Threads |-> FALSE]
  /\ pc = [t \in Threads |-> "idle"]

-----------------------------------------------------------------------------
(* A compare-exchange that fails stores the word it read in `expected`.    *)
CASFails(t) ==
  /\ expected' = [expected EXCEPT ![t] = state]
  /\ UNCHANGED <<state, timed, pc>>

(* try_lock, and the first attempt of lock and of try_lock_until.          *)
try_lock(t) ==
  /\ At(t, "idle")
  /\ state = 0
  /\ state' = 1
  /\ Goto(t, "cs")
  /\ UNCHANGED <<expected, timed>>

(* lock: the weak exchange fails (possibly on a free word) and the slow    *)
(* path of the policy is entered.                                          *)
lock(t) ==
  /\ At(t, "idle")
  /\ expected' = [expected EXCEPT ![t] = state]
  /\ timed' = [timed EXCEPT ![t] = FALSE]
  /\ Goto(t, IF HasBackoff THEN "spin" ELSE "register")
  /\ UNCHANGED state

(* try_lock_until: its try_lock fails, it goes on in lock_slow_until.      *)
try_lock_until(t) ==
  /\ HasTimed
  /\ At(t, "idle")
  /\ state # 0
  /\ timed' = [timed EXCEPT ![t] = TRUE]
  /\ Goto(t, "register")
  /\ UNCHANGED <<state, expected>>

(* The functor run under exponential backoff.  On a word without the lock  *)
(* bit it exchanges expected for expected | 1, keeping the waiter count,   *)
(* and repeats without backing off when that fails.  On a locked word it   *)
(* backs off WITHOUT reading the word again, so it can only run out of     *)
(* spins.                                                                  *)
spin_acquire(t) ==
  /\ At(t, "spin")
  /\ ~Locked(expected[t])
  /\ state = expected[t]
  /\ state' = expected[t] + 1
  /\ Goto(t, "cs")
  /\ UNCHANGED <<expected, timed>>

spin_retry(t) ==
  /\ At(t, "spin")
  /\ ~Locked(expected[t])
  /\ CASFails(t)

spin_exhausted(t) ==
  /\ At(t, "spin")
  /\ Locked(expected[t])
  /\ Goto(t, "register")
  /\ UNCHANGED <<state, expected, timed>>

(* lock_slow and lock_slow_until: add 2 to register as a waiter, ...       *)
register_waiter(t) ==
  /\ At(t, "register")
  /\ state' = state + 2
  /\ Goto(t, "load")
  /\ UNCHANGED <<expected, timed>>

(* ... read the word, ...                                                  *)
load_state(t) ==
  /\ At(t, "load")
  /\ expected' = [expected EXCEPT ![t] = state]
  /\ Goto(t, "loop")
  /\ UNCHANGED <<state, timed>>

(* ... on a free word take the lock and drop the registration at once,     *)
(* (expected - 2) | 1, ...                                                 *)
acquire_registered_unchecked(t) ==   \* mutant: the lock bit is not tested
  /\ At(t, "loop") \/ At(t, "undo")
  /\ state = expected[t]
  /\ state' = IF Locked(state) THEN state - 2 ELSE state - 1
  /\ Goto(t, "cs")
  /\ UNCHANGED <<expected, timed>>

acquire_registered(t) ==
  /\ At(t, "loop") \/ At(t, "undo")
  /\ ~Locked(expected[t])
  /\ state = expected[t]
  /\ state' = (expected[t] - 2) + 1
  /\ Goto(t, "cs")
  /\ UNCHANGED <<expected, timed>>

acquire_retry(t) ==
  /\ At(t, "loop") \/ At(t, "undo")
  /\ ~Locked(expected[t])
  /\ CASFails(t)

(* ... on a locked word call atomic_wait: sleep while the word is          *)
(* unchanged, ...                                                          *)
futex_sleep_blindly(t) ==   \* mutant: sleeps without comparing the word
  /\ At(t, "loop")
  /\ Locked(expected[t])
  /\ Goto(t, "asleep")
  /\ UNCHANGED <<state, expected, timed>>

futex_sleep(t) ==
  /\ At(t, "loop")
  /\ Locked(expected[t])
  /\ state = expected[t]
  /\ Goto(t, "asleep")
  /\ UNCHANGED <<state, expected, timed>>

(* ... return as soon as it has changed.                                   *)
wait_returns(t) ==
  /\ At(t, "loop")
  /\ Locked(expected[t])
  /\ state # expected[t]
  /\ Goto(t, "load")
  /\ UNCHANGED <<state, expected, timed>>

(* The kernel may wake a sleeper for no reason (EINTR); it compares again. *)
spurious_wakeup(t) ==
  /\ At(t, "asleep")
  /\ Goto(t, "loop")
  /\ UNCHANGED <<state, expected, timed>>

(* The deadline of a timed waiter passes, asleep or on entry to the futex  *)
(* call; from then on no notify can be spent on it.                        *)
deadline_passes(t) ==
  /\ timed[t]
  /\ \/ At(t, "asleep")
     \/ At(t, "loop") /\ Locked(expected[t]) /\ state = expected[t]
  /\ Goto(t, "expired")
  /\ UNCHANGED <<state, expected, timed>>

(* atomic_wait_until: after ETIMEDOUT the result is still "changed" if the *)
(* word differs now, and "timed out" otherwise.                            *)
wait_until_returns(t) ==
  /\ At(t, "expired")
  /\ Goto(t, IF state # expected[t] THEN "load" ELSE "undoLoad")
  /\ UNCHANGED <<state, expected, timed>>

(* lock_slow_until after a timeout: read the word, take the lock if it is  *)
(* free after all (acquire_registered), otherwise unregister and fail.     *)
undo_load(t) ==
  /\ At(t, "undoLoad")
  /\ expected' = [expected EXCEPT ![t] = state]
  /\ Goto(t, "undo")
  /\ UNCHANGED <<state, timed>>

undo_registration_forgotten(t) ==   \* mutant: returns false still registered
  /\ At(t, "undo")
  /\ Locked(expected[t])
  /\ Goto(t, "idle")
  /\ UNCHANGED <<state, expected, timed>>

undo_registration(t) ==
  /\ At(t, "undo")
  /\ Locked(expected[t])
  /\ state = expected[t]
  /\ state' = expected[t] - 2
  /\ Goto(t, "idle")
  /\ UNCHANGED <<expected, timed>>

undo_retry(t) ==
  /\ At(t, "undo")
  /\ Locked(expected[t])
  /\ CASFails(t)

(* unlock: fetch_and(~1), and a notify when waiters were registered.       *)
unlock_off_by_one(t) ==   \* mutant: one registered waiter is overlooked
  /\ At(t, "cs")
  /\ state' = state - (state % 2)
  /\ Goto(t, IF state > 3 THEN "notify" ELSE "idle")
  /\ UNCHANGED <<expected, timed>>

unlock(t) ==
  /\ At(t, "cs")
  /\ state' = state - (state % 2)
  /\ Goto(t, IF state > 1 THEN "notify" ELSE "idle")
  /\ UNCHANGED <<expected, timed>>

(* atomic_notify_one: FUTEX_WAKE of one sleeper, if there is one.          *)
Sleepers == {t \in Threads : At(t, "asleep")}

notify_one(t) ==
  /\ At(t, "notify")
  /\ IF Sleepers = {}
     THEN Goto(t, "idle")
     ELSE \E w \in Sleepers : pc' = [pc EXCEPT ![t] = "idle", ![w] = "loop"]
  /\ UNCHANGED <<state, expected, timed>>

-----------------------------------------------------------------------------
lock_slow(t) ==
  \/ spin_acquire(t) \/ spin_retry(t) \/ spin_exhausted(t)
  \/ register_waiter(t) \/ load_state(t)
  \/ acquire_registered(t) \/ acquire_retry(t)
  \/ futex_sleep(t) \/ wait_returns(t) \/ spurious_wakeup(t)

lock_slow_until(t) ==
  \/ deadline_passes(t) \/ wait_until_returns(t)
  \/ undo_load(t) \/ undo_registration(t) \/ undo_retry(t)

Next == \E t \in Threads :
  \/ lock(t) \/ try_lock(t) \/ try_lock_until(t)
  \/ lock_slow(t) \/ lock_slow_until(t)
  \/ unlock(t) \/ notify_one(t)

Spec == Init /\ [][Next]_vars

(* Scheduling: a thread that can run inside the library does run, and the  *)
(* owner of the lock unlocks it.  Nothing obliges a thread to call lock,   *)
(* a deadline to pass, or a weak exchange to fail; a weak exchange whose   *)
(* word keeps matching eventually succeeds.                                *)
Progress(t) ==
  \/ spin_exhausted(t) \/ spin_acquire(t) \/ register_waiter(t)
  \/ load_state(t) \/ acquire_registered(t) \/ wait_returns(t)
  \/ futex_sleep(t) \/ wait_until_returns(t) \/ undo_load(t)
  \/ undo_registration(t) \/ unlock(t) \/ notify_one(t)

(* The failing branch of an exchange on a word that has really changed.    *)
StaleRetry(t) ==
  /\ state # expected[t]
  /\ spin_retry(t) \/ acquire_retry(t) \/ undo_retry(t)

Fairness == \A t \in Threads : WF_vars(Progress(t)) /\ WF_vars(StaleRetry(t))

FairSpec == Spec /\ Fairness

-----------------------------------------------------------------------------
TypeOK ==
  /\ state \in Nat
  /\ expected \in [Threads -> Nat]
  /\ timed \in [Threads -> BOOLEAN]
  /\ pc \in [Threads -> Labels]

Holders == {t \in Threads : At(t, "cs")}
Waiters == {t \in Threads : pc[t] \in Registered}

(* Two threads never own the mutex together, whatever mix of lock,         *)
(* try_lock and timed acquisitions, stealing spinners and expired waiters  *)
(* got them there.                                                         *)
MutualExclusion == \A t, u \in Holders : t = u

(* The word is exact: bit 0 is set iff some thread owns the mutex and the  *)
(* upper bits count precisely the threads between their fetch_add(2) and   *)
(* the exchange that drops them.  In particular no path, timeouts and lost *)
(* races included, leaks a registration or subtracts one twice.            *)
WordIsExact ==
  /\ TypeOK
  /\ state = 2 * Cardinality(Waiters) + (IF Holders = {} THEN 0 ELSE 1)

(* No lost wakeup: if the lock is free while a thread sleeps in the        *)
(* kernel, then a notify is still to be sent, or a registered thread is    *)
(* awake and will look at the word before it may sleep.                    *)
NoLostWakeup ==
  (Sleepers # {} /\ ~Locked(state)) =>
     \E t \in Threads : pc[t] \in {"notify"} \cup (Registered \ {"asleep"})

(* The clients' view: the threads inside a blocking acquisition wait for a *)
(* lock with one owner.                                                    *)
Contenders == {t \in Threads : pc[t] \in Acquiring}

Abstract == INSTANCE AbstractMutex WITH holders <- Holders, waiting <- Contenders

(* Every behaviour of the word and of the wait queue is a behaviour of     *)
(* that lock: each atomic operation either is invisible to the clients or  *)
(* is one request, acquisition, failure or release.                        *)
ImplementsMutex == Abstract!AbstractSpec

(* Under the scheduling of FairSpec a lock that is free while threads wait *)
(* for it is eventually taken: no combination of timeouts, spurious        *)
(* wakeups and barging leaves the sleepers behind.                         *)
FreeLockIsTaken == Abstract!AFairness

=============================================================================
