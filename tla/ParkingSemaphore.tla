--------------------------- MODULE ParkingSemaphore ---------------------------
(***************************************************************************)
(* parking_semaphore<Policies...> and timed_semaphore<Policies...>: one    *)
(* signed word `count_`, the tokens minus the threads waiting for one, and *)
(* the futex wait queue of its address.  The two classes differ in         *)
(* try_acquire_until only.  One action per atomic operation on the word.   *)
(*                                                                         *)
(* A behaviour has one `usage` out of Usages: which threads call the       *)
(* blocking acquisitions, and the class and policy of the semaphore.       *)
(*                                                                         *)
(* Two history variables, `released` and `acquired`, count the tokens ever *)
(* put in and the acquisitions that ever succeeded.  MaxReleased bounds    *)
(* the first; the code has no such bound.                                  *)
(***************************************************************************)
EXTENDS Integers, FiniteSets

CONSTANTS
  Threads,
  InitialTokens,   \* the constructor's argument
  ReleaseSizes,    \* the arguments of release
  MaxReleased,     \* bound on the tokens ever released
  Usages           \* see below

ASSUME SemaphoreThreads == IsFiniteSet(Threads)
ASSUME SemaphoreTokens ==
  InitialTokens \in Nat /\ MaxReleased \in Nat /\ ReleaseSizes \subseteq Nat
ASSUME SemaphoreUsages ==
  Usages \subseteq [acquirers : SUBSET Threads,   \* callers of acquire(_until)
                    backoff : BOOLEAN,            \* policy with_backoff
                    timed : BOOLEAN]              \* timed_semaphore

VARIABLES
  usage,
  count,       \* the word count_
  c,           \* per thread: its local `c`
  timed,       \* per thread: inside try_acquire_until
  released, acquired,
  pc

vars == <<usage, count, c, timed, released, acquired, pc>>

(* "spin": the backoff functor; "try": try_acquire before its exchange;    *)
(* "subtract": before fetch_sub; "load": registered, before the load of    *)
(* count_; "wait", "asleep", "expired": in atomic_wait(_until), before,    *)
(* inside and after the kernel; "restore": timed out, before fetch_add;    *)
(* "retake": before the fetch_sub that takes a token found then; "wakeOne",*)
(* "wakeAll": in release, before the notify.                               *)
Registered == {"load", "wait", "asleep", "expired", "restore"}
Blocking == {"spin", "subtract"} \cup Registered
Labels == {"idle", "try", "retake", "wakeOne", "wakeAll"} \cup Blocking

At(t, label) == pc[t] = label
Goto(t, label) == pc' = [pc EXCEPT ![t] = label]

(* The call of t returns with a token.                                     *)
Succeed(t) == acquired' = acquired + 1 /\ Goto(t, "idle")

Init ==
  /\ usage \in Usages
  /\ count = InitialTokens
  /\ c = [t \in Threads |-> 0]
  /\ timed = [t \in Threads |-> FALSE]
  /\ released = InitialTokens
  /\ acquired = 0
  /\ pc = [t \in Threads |-> "idle"]

-----------------------------------------------------------------------------
(* release: add n tokens; if there were waiters, wake one or all of them   *)
(* (all of them for n = 0, which is allowed too).                          *)
ToWake(n) == IF n < -count THEN n ELSE -count

release_if_positive(t, n) ==   \* mutant: wakes only when tokens are left over
  /\ At(t, "idle")
  /\ released + n <= MaxReleased
  /\ count' = count + n
  /\ released' = released + n
  /\ Goto(t, IF count + n <= 0 THEN "idle"
             ELSE IF ToWake(n) = 1 THEN "wakeOne" ELSE "wakeAll")
  /\ UNCHANGED <<usage, c, timed, acquired>>

release(t, n) ==
  /\ At(t, "idle")
  /\ released + n <= MaxReleased
  /\ count' = count + n
  /\ released' = released + n
  /\ Goto(t, IF count >= 0 THEN "idle"
             ELSE IF ToWake(n) = 1 THEN "wakeOne" ELSE "wakeAll")
  /\ UNCHANGED <<usage, c, timed, acquired>>

Sleepers == {t \in Threads : At(t, "asleep")}

notify_one(t) ==
  /\ At(t, "wakeOne")
  /\ IF Sleepers = {}
     THEN Goto(t, "idle")
     ELSE \E w \in Sleepers : pc' = [pc EXCEPT ![t] = "idle", ![w] = "wait"]
  /\ UNCHANGED <<usage, count, c, timed, released, acquired>>

notify_all(t) ==
  /\ At(t, "wakeAll")
  /\ pc' = [u \in Threads |-> IF u = t THEN "idle"
                              ELSE IF u \in Sleepers THEN "wait" ELSE pc[u]]
  /\ UNCHANGED <<usage, count, c, timed, released, acquired>>

(* acquire: with the backoff policy, exchange while the value read once is *)
(* positive; it is read again only by an exchange that fails.              *)
acquire(t) ==
  /\ At(t, "idle") /\ t \in usage.acquirers
  /\ timed' = [timed EXCEPT ![t] = FALSE]
  /\ IF usage.backoff
     THEN c' = [c EXCEPT ![t] = count] /\ Goto(t, "spin")
     ELSE UNCHANGED c /\ Goto(t, "subtract")
  /\ UNCHANGED <<usage, count, released, acquired>>

spin_take(t) ==
  /\ At(t, "spin")
  /\ c[t] > 0 /\ count = c[t]
  /\ count' = c[t] - 1
  /\ Succeed(t)
  /\ UNCHANGED <<usage, c, timed, released>>

spin_retry(t) ==
  /\ At(t, "spin")
  /\ c[t] > 0
  /\ c' = [c EXCEPT ![t] = count]
  /\ UNCHANGED <<usage, count, timed, released, acquired, pc>>

spin_exhausted(t) ==
  /\ At(t, "spin")
  /\ c[t] <= 0
  /\ Goto(t, "subtract")
  /\ UNCHANGED <<usage, count, c, timed, released, acquired>>

(* try_acquire, also the first step of try_acquire_until.  Finding no      *)
(* token, the former returns false and the latter goes on to subtract.     *)
NoToken(t) == Goto(t, IF timed'[t] THEN "subtract" ELSE "idle")

try_acquire(t) ==
  /\ At(t, "idle")
  /\ \E until \in {FALSE, usage.timed /\ t \in usage.acquirers} : timed' = [timed EXCEPT ![t] = until]
  /\ c' = [c EXCEPT ![t] = count]
  /\ IF count > 0 THEN Goto(t, "try") ELSE NoToken(t)
  /\ UNCHANGED <<usage, count, released, acquired>>

try_take(t) ==
  /\ At(t, "try")
  /\ count = c[t]
  /\ count' = c[t] - 1
  /\ Succeed(t)
  /\ UNCHANGED <<usage, c, timed, released>>

try_retry(t) ==
  /\ At(t, "try")
  /\ count # c[t]
  /\ c' = [c EXCEPT ![t] = count]
  /\ UNCHANGED timed
  /\ IF count > 0 THEN UNCHANGED pc ELSE NoToken(t)
  /\ UNCHANGED <<usage, count, released, acquired>>

(* Subtract one: a token if the word was positive, otherwise the thread is *)
(* now counted as a waiter, ...                                            *)
subtract_off_by_one(t) ==   \* mutant: takes a token from an empty word
  /\ At(t, "subtract")
  /\ count' = count - 1
  /\ IF count >= 0 THEN Succeed(t) ELSE Goto(t, "load") /\ UNCHANGED acquired
  /\ UNCHANGED <<usage, c, timed, released>>

subtract(t) ==
  /\ At(t, "subtract")
  /\ count' = count - 1
  /\ IF count > 0 THEN Succeed(t) ELSE Goto(t, "load") /\ UNCHANGED acquired
  /\ UNCHANGED <<usage, c, timed, released>>

(* ... and returns when it reads a word that is not negative.              *)
load_count(t) ==
  /\ At(t, "load")
  /\ c' = [c EXCEPT ![t] = count]
  /\ IF count >= 0 THEN Succeed(t) ELSE Goto(t, "wait") /\ UNCHANGED acquired
  /\ UNCHANGED <<usage, count, timed, released>>

futex_sleep_blindly(t) ==   \* mutant: sleeps without comparing the word
  /\ At(t, "wait")
  /\ Goto(t, "asleep")
  /\ UNCHANGED <<usage, count, c, timed, released, acquired>>

futex_sleep(t) ==
  /\ At(t, "wait")
  /\ count = c[t]
  /\ Goto(t, "asleep")
  /\ UNCHANGED <<usage, count, c, timed, released, acquired>>

wait_returns(t) ==
  /\ At(t, "wait")
  /\ count # c[t]
  /\ Goto(t, "load")
  /\ UNCHANGED <<usage, count, c, timed, released, acquired>>

spurious_wakeup(t) ==
  /\ At(t, "asleep")
  /\ Goto(t, "wait")
  /\ UNCHANGED <<usage, count, c, timed, released, acquired>>

deadline_passes(t) ==
  /\ timed[t]
  /\ At(t, "asleep") \/ (At(t, "wait") /\ count = c[t])
  /\ Goto(t, "expired")
  /\ UNCHANGED <<usage, count, c, timed, released, acquired>>

wait_until_gives_up(t) ==   \* mutant: a timeout does not undo the registration
  /\ At(t, "expired")
  /\ Goto(t, IF count # c[t] THEN "load" ELSE "idle")
  /\ UNCHANGED <<usage, count, c, timed, released, acquired>>

wait_until_returns(t) ==
  /\ At(t, "expired")
  /\ Goto(t, IF count # c[t] THEN "load" ELSE "restore")
  /\ UNCHANGED <<usage, count, c, timed, released, acquired>>

(* try_acquire_until after a timeout: add the subtracted one again; if the *)
(* word was not negative by then, subtract it once more and succeed.       *)
restore(t) ==
  /\ At(t, "restore")
  /\ count' = count + 1
  /\ Goto(t, IF count >= 0 THEN "retake" ELSE "idle")
  /\ UNCHANGED <<usage, c, timed, released, acquired>>

retake(t) ==
  /\ At(t, "retake")
  /\ count' = count - 1
  /\ Succeed(t)
  /\ UNCHANGED <<usage, c, timed, released>>

-----------------------------------------------------------------------------
Progress(t) ==
  \/ notify_one(t) \/ notify_all(t)
  \/ spin_take(t) \/ spin_exhausted(t) \/ try_take(t) \/ try_retry(t)
  \/ subtract(t) \/ load_count(t) \/ futex_sleep(t) \/ wait_returns(t)
  \/ wait_until_returns(t) \/ restore(t) \/ retake(t)

Next == \E t \in Threads :
  \/ \E n \in ReleaseSizes : release(t, n)
  \/ acquire(t) \/ try_acquire(t) \/ spin_retry(t)
  \/ spurious_wakeup(t) \/ deadline_passes(t)
  \/ Progress(t)

Spec == Init /\ [][Next]_vars

(* A thread inside the library runs; nothing obliges a thread to call it,  *)
(* a deadline to pass or a weak exchange to fail on a matching word.       *)
FairSpec ==
  /\ Spec
  /\ \A t \in Threads :
       /\ WF_vars(Progress(t))
       /\ WF_vars(count # c[t] /\ spin_retry(t))

-----------------------------------------------------------------------------
TypeOK ==
  /\ usage \in Usages
  /\ count \in Int /\ count <= released
  /\ c \in [Threads -> Int]
  /\ timed \in [Threads -> BOOLEAN]
  /\ released \in Nat /\ acquired \in Nat
  /\ pc \in [Threads -> Labels]

Waiters == {t \in Threads : pc[t] \in Registered}
Available == released - acquired

(* The word is exact: the tokens that are left minus the registered        *)
(* waiters, through timeouts that undo a registration too.                 *)
CountIsExact == TypeOK /\ count = Available - Cardinality(Waiters)

(* A thread asleep although the word has a token for every waiter will be  *)
(* woken: a notify or a registered thread that is awake is still there.    *)
(* Stated for a single blocking acquirer: with two, both wakeups of two    *)
(* releases may reach the same thread.                                     *)
NoStrandedSleeper ==
  (Cardinality(usage.acquirers) = 1 /\ Sleepers # {} /\ count >= 0) =>
     \E t \in Threads : pc[t] \in {"wakeOne", "wakeAll"} \cup (Registered \ {"asleep"})

(* The clients' view.                                                      *)
Abstract == INSTANCE AbstractSemaphore
  WITH tokens <- Available, waiting <- {t \in Threads : pc[t] \in Blocking}

(* Every behaviour of the word is a behaviour of a counting semaphore: no  *)
(* token is consumed twice, however acquire, try_acquire and release       *)
(* interleave.  Stated for parking_semaphore: the timeout of a             *)
(* timed_semaphore adds one to the word before it takes it again, which    *)
(* lets another thread through in between.                                 *)
ImplementsSemaphore ==
  Abstract!SInit /\ [][~usage.timed => Abstract!SNext]_(Abstract!svars)

(* "Blocks until a token is available, then consumes one": a token does    *)
(* not stay unused for ever while a thread is blocked in acquire.          *)
TokenIsTaken == Abstract!SFairness

(* The same where a single thread uses the blocking acquisitions, among    *)
(* any number of threads that release and try_acquire.                     *)
TokenIsTakenByOne ==
  (Cardinality(usage.acquirers) = 1 /\ ~usage.timed) => TokenIsTaken

=============================================================================
