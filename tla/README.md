# TLA+ models of nova_sync

nova_sync is a C++ library of mutexes, semaphores and events. Most of its own
logic is a handful of short protocols on one or two atomic words, a futex, an
eventfd or a kqueue, and the same objects can be waited for from the event loops
of Boost.Asio, Qt and libdispatch. The code is short and the interleavings are
many, which makes it a good subject for a model checker: every module here lets
the threads interleave at each atomic access and lets deadlines pass at any
moment. Weak compare-exchanges fail spuriously and futex waits return spuriously;
a signal interrupts a `kevent` where the code ignores that (elsewhere it repeats
the call).

Paths below are relative to `include/nova/sync/` or `source/nova/sync/`.

## 1. The system

| Component | State | Operations | What makes it hard |
|---|---|---|---|
| `mutex/parking_mutex` | one word: lock bit + number of registered waiters | `lock`, `try_lock`, `try_lock_for/until`, `unlock` | registration races with `unlock`; a timeout undoes a registration that an unlock counts on |
| `mutex/ticket_mutex` | next ticket, ticket served | `lock`, `try_lock`, `try_lock_for/until`, `unlock` | words wrap around; timed callers hold no ticket |
| `semaphore/parking_semaphore` (also `timed_semaphore`) | one signed word: tokens minus waiters | `release(n)`, `acquire`, `try_acquire`, `try_acquire_for/until` | one word tells how many may go, not who |
| `event/parking_auto_reset_event` | one signed word | `signal`, `wait`, `try_wait`, `try_wait_for/until` | each waiter compares the word with the slot it saw on entry |
| `event/parking_manual_reset_event` | one flag | `signal`, `reset`, `wait`, `try_wait`, `try_wait_for/until` | only the signal that changes the flag notifies |
| `mutex/spinlock_mutex` | flag; owner + plain count; reader count + writer bits | `lock`, `try_lock`, `unlock`, shared forms | an unprotected recursion count; `write_pending` has no owner |
| `mutex/eventfd_mutex`, `mutex/kqueue_mutex`, simple variants | the descriptor alone: a token in it is the free lock | the same | the kqueue also carries timers |
| `mutex/eventfd_mutex`, `mutex/kqueue_mutex`, fast variants | word as in `parking_mutex`, and a descriptor that wakes | the same, `add/remove_async_waiter`, `consume_lock`, `native_handle` | a thread may read the token another one was woken for; kqueue triggers coalesce |
| `mutex/support/*`, `async_waiter_guard` | operation object, cancel flag, registration | `async_acquire` (callback, future), `async_acquire_cancellable`, `cancel`, in Asio, Qt and libdispatch forms | callbacks, cancellation from another thread, state moved into closures |
| `event/native_auto_reset_event`, `event/native_manual_reset_event` | one kernel object; on Apple a token and a waiter count | as the parking ones | check-then-write on descriptors, delete-and-add of a user event |
| `semaphore/*` native (eventfd, kqueue, POSIX, Mach, libdispatch, Win32) | one kernel object; kqueue: a signed count and a trigger | as the parking ones | one trigger stands for several tokens |
| `event/support/*`, `semaphore/support/*` | operation objects, cancel states | `async_wait`, `async_acquire`, cancellable and future forms | the same as for mutexes, without registration |
| `thread_safety/locked_object` | a mutex and a value | `lock`, `try_lock`, shared and `*_and` forms; guards moved, assigned, destroyed | nothing may be unlocked twice or never |
| `futex/atomic_wait` | kernel queue or bucket table | wait, timed waits, notify one/all | compare-and-sleep; shared buckets in the portable branch |
| `detail/backoff`, `detail/syscall`, `detail/timed_wait` | none | bounded spinning, EINTR loops, clock conversions | timeouts after interruption |
| pthread, Win32, Apple wrappers | operating system object | forwarded | none of its own |
| `thread_safety/annotations`, policies, concepts | none | compile time | none |

The components are layered: the parking primitives call `atomic_wait` and
`atomic_notify_*`; the descriptor based ones expose `native_handle()`; the
support headers wait for that handle in an event loop and call back into the
primitive through `try_lock` or through `async_waiter_guard`.

## 2. Modules

| Module | Models | State in the model |
|---|---|---|
| `AbstractMutex` | what a mutex promises | owners, contenders |
| `AbstractFifoMutex` | what a fair mutex promises | queue of waiting threads |
| `AbstractSemaphore` | what a semaphore promises | number of tokens, waiters |
| `ParkingMutex` | `parking_mutex.hpp/.cpp` and the futex under it | `state`, per thread label and `expected` |
| `TicketMutex` | `ticket_mutex.hpp/.cpp` | the two words modulo `Modulus`, per thread label and ticket |
| `ParkingSemaphore` | `parking_semaphore.hpp` | `count`, per thread label, `c`, history of tokens |
| `ParkingAutoResetEvent` | `parking_auto_reset_event.hpp` | `state`, per thread label, `cur`, `my_slot`, history of tokens |
| `ParkingManualResetEvent` | `parking_manual_reset_event.hpp` | `state`, per thread label, spin rounds |
| `Spinlocks` | the plain, recursive and shared `spinlock_mutex` | owner, plain count, reader count and writer bits, per thread label, `expected` and depth |
| `LockedObject` | `locked_object` and its guards; extends `Spinlocks` | guards in the slots of each thread, the operation in progress, the value |
| `NativeMutex` | `eventfd_mutex` and `kqueue_mutex`, both variants of each | `state`, the descriptor, the timer in the kqueue, per thread label and call |
| `AsyncOps` | what every asynchronous operation has: its position, its handle, its promise, who told the handler | one record per operation |
| `AsyncAcquire` | Asio, Qt and libdispatch support for mutexes, `async_waiter_guard`; extends `NativeMutex` and `AsyncOps` | the state of both |
| `NativeTokens` | the native events and the six native semaphores | counts, the descriptor, tokens owed (history), per thread label and call |
| `AsyncWait` | Asio, Qt and libdispatch support for events and semaphores; extends `NativeTokens` and `AsyncOps` | the state of both |
| `ParkingMutexProofs`, `TicketMutexProofs`, `ParkingSemaphoreProofs`, `ParkingAutoResetEventProofs`, `ParkingManualResetEventProofs` | theorems about these modules | |
| `LockedObjectProofs` | theorems about `Spinlocks` and `LockedObject` | |
| `AsyncAcquireProofs` | theorems about `NativeMutex` and `AsyncAcquire` | |
| `AsyncWaitProofs` | theorems about `NativeTokens` and `AsyncWait` | |
| `MC*` | threads, operations and setups for TLC; no symmetry, since the runs check liveness | |

**How code becomes actions.** A thread has a label (`pc`) saying where it is in
the code and copies of its local variables. One action is one atomic access
together with the local computation up to the next one. A compare-exchange has
an action for success and one for failure; for `compare_exchange_weak` the
failure action is enabled also when the word is the expected one. In
`NativeMutex` and `NativeTokens` a loop that only repeats a weak exchange until
it succeeds, or until the word forbids it, is one action: every failed round
leaves all state as it was. The futex wait is two actions: `futex_sleep` compares
and sleeps in one step, as the kernel does under its queue lock, and falls
through when the word has changed; `spurious_wakeup`, `deadline_passes` and the
notifications wake the thread. `notify_one` is one step after the store it
follows, so that other threads may come in between. Every system call on a
descriptor is an action of its own.

**Composition.** The modules of the second half have a variable `setup` that is
chosen in the initial state and never changes: the kind of object and who uses it
by which calls. One module thus serves the variants that share code, and the
steps of threads and of operations interleave freely. In `LockedObject` every step of the
mutex is a step of the guard operation that called it, so threads reach the
spinlock only through guards. In `AsyncAcquire` and `AsyncWait` an operation is a
further actor that calls the same steps of the object as the threads do; its
callback, its cancellation from any thread and the delivery to the user are
separate actions. Each operation runs on its own, since event loops may have
several threads; where the event loop does exclude two callbacks (the context
thread of Qt, a source of libdispatch), `AsyncOps` says so.

**Memory model.** Every atomic word has a single modification order and the
models interleave accesses to it; reads see the latest write. The primitives
with one word decide only from that word, so relaxed orderings on it add stale
reads only where the code loads without a following read-modify-write or futex
compare; such loads are separate actions, and what they read may be outdated by
the time it is used.

**Abstractions.** Time is left out: a deadline may pass whenever a thread waits
with one. The number of backoff rounds is a choice (in `ParkingManualResetEvent`,
where it matters, a counter up to `SpinLimit`). `*_for` functions are their
`*_until` forms, except where the code differs (the native mutexes and
semaphores). An eventfd is a counter, a kqueue user event with `EV_CLEAR` a flag
that a successful `kevent` takes; a semaphore of the operating system is a
counter that one call changes.

## 3. Runs

| Run | Instance | Shows |
|---|---|---|
| `parking_mutex` | 3 threads, backoff and deadlines | one owner; the word counts the registered threads exactly; nobody sleeps on a free lock unless somebody is about to wake or look; implements `AbstractMutex`; a free lock with contenders is taken |
| `ticket_mutex` | 3 threads, words modulo 4 | across the wrap of the words every ticket between the words is held once; nobody sleeps on an outdated word; implements the FIFO mutex; no `lock()` starves |
| `parking_semaphore` | `release(0..2)`, up to 3 tokens; three usages: 3 acquirers, 2 acquirers with deadlines, 1 acquirer among 3 threads | exact word through timeouts; without deadlines it implements `AbstractSemaphore`; a single acquirer is not left asleep and takes every available token |
| `auto_reset_event` | 3 signals; two usages: 3 waiters without deadlines, 1 waiter with | exact word; tokens delivered and consumed one by one; no waiter that may go sleeps on; a single waiter gets every token |
| `manual_reset_event` | 3 threads, both policies | an event that stays set releases every waiter, although only the signal that changes the flag notifies |
| `locked_object` | plain, recursive and shared spinlock, each with 2 threads, 2 guards and 2 writes, and with 3 threads and 1 guard; depth 3 | the word is exact; `write_pending` has a writer behind it; the plain recursion count is the owner's depth; guards unlock what they locked, once; no update of the value is lost; a free lock is taken |
| `async_acquire` | 4 mutexes with 3 threads and deadlines; 8 mixtures of 1 thread and 2 operations of the nine forms; signals for all but the `kqueue_mutex` without backoff | the word counts owners and registrations of threads and operations exactly; no wakeup is lost to stolen or coalesced tokens; each handler at most once, and not at all only for the operations `Excused` names; a cancelled operation is answered; implements `AbstractMutex`; a free lock is taken |
| `async_wait` | native events with 3 threads, semaphores with 2; each asynchronous object with 1 thread and 5 pairs of operations | no sleeper stranded while a token is there; a signal that no reset overlapped is seen; tokens are used while threads wait without a deadline and, but by `kqueue_semaphore`, not handed out twice; waiting operations are served, but for those `Excused` names; cancelled ones answered, once |

`TypeOK` is a conjunct of `WordIsExact` (in `ParkingMutex`), `TicketsAreDistinct`,
`CountIsExact`, `StateIsExact`, `CountIsDepth`, `LockIsExact` and
`NoStrandedSleeper` (in `AsyncWait`).

All of them use the fair specification. Four more runs find the code in
disagreement with its documentation (findings in `PROJECT.json`):

| Run | What happens |
|---|---|
| `parking_semaphore_blocked` | with two waiters, one released token is consumed by nobody: the word is still negative for both |
| `auto_reset_event_phantom` | the add of a waiter giving up looks like a signal to another waiter, which succeeds without one |
| `asio_handler_lost` | an unlock between `try_lock` and the registration leaves the operation without a wakeup |
| `kqueue_mutex_two_owners` | a signal interrupts the `kevent` of `kqueue_mutex::lock` without backoff, which ignores the result and returns beside the owner; the timer that `try_lock_until` puts into the same kqueue for a deadline of the system clock does the same (the setup without signals) |

The passing semaphore and event runs are stated for the usages these do not
touch, which delimits the problem: the word arithmetic is right, the decision of
a waiter from the bare word is not. In the same way `async_acquire` leaves signals
and system-clock deadlines out for the `kqueue_mutex` without backoff, and
`async_wait` excuses the future that lost its promise, with the tokens it took,
and leaves `kqueue_semaphore` out of `NoOvergrant` (both below).

**Usages.** `ParkingSemaphore` and `ParkingAutoResetEvent` fix a `usage` in the
initial state (who blocks, with deadlines or not, which policy), because the two
classes keep different promises to different clients; a property that needs a
restriction names it.

**Also seen while modelling, without a property.** These follow from the actions
at the lines given; most are listed as hazards:

- `ticket_mutex::try_lock_until` loads the serving word again after its failed
  `try_lock` (hpp:102). If the owner unlocks in between, the caller sleeps on a
  free mutex until its deadline or the next unlock.
- `timed_semaphore::try_acquire_until` adds one and subtracts it again when a
  token came with the timeout (hpp:205-208). Another thread may take the token in
  between, and both calls succeed. `ImplementsSemaphore` excludes this class.
- Two `release(1)` calls may wake the same acquirer twice and leave another
  asleep at word 0; `NoStrandedSleeper` is stated for one acquirer.
- With deadlines the auto-reset event may store two tokens: a signal for a waiter
  about to give up, another signal, then the slot given back (hpp:125).
- `parking_manual_reset_event<with_backoff>::wait` never parks: its functor
  returns `retry_without_backoff` (hpp:74). It still returns once the event is set.
- The future form of Asio's `async_acquire` for mutexes moves its promise into the
  handler of the first wait in both of its branches, the one for
  `std::move_only_function` and the one for `std::function`; after one wakeup that
  does not get the lock (label `throws`) there is nothing to fulfil. The exception
  gives the lock back; the second branch goes through a null pointer instead,
  which the model does not follow. The headers for events and semaphores lose
  the promise in the first branch only and share it in the second (`move_only` in
  the setup); the semaphore has then taken a token that nobody gets (label
  `leaked`). For events hpp:349 says "The returned future becomes ready": after a
  wait that found the event reset (hpp:376, set_value at 389) it does not.
  `WaiterIsServed` and `HandlerOnce` name these cases in `Excused`.
- `kqueue_semaphore::acquire` returns on any trigger (cpp:74). After `release(1)`
  an `acquire()` that takes the token from the count leaves the trigger behind,
  and the next `acquire()` lowers the count to -1 and returns on it, with no token
  left (hpp:36: "Blocks until a token is available, then consumes one"). The model
  has this behaviour: `owed` becomes negative, which `NoOvergrant` rules out for
  all the others.
- `cancel()` of an Asio operation between the check of the flag and the next wait
  cancels nothing.
- `try_lock_until` of the fast kqueue mutex waits for ident 1 while `unlock`
  triggers ident 2 (hpp:182), so with the system clock it finds the lock only by
  looking when its own timer or deadline ends the wait.
- `native_auto_reset_event::signal` on Linux probes the counter and then writes
  (cpp:89); two signals may both write and store two tokens (cf. hpp:21).
- The timed calls of `kqueue_semaphore` take a trigger and send none on, which
  may leave another acquirer asleep; the promises about wakeups say `Dependable`.
- If `dup` fails, the Qt support drops the operation without telling anybody
  (labels `dropped`, `unarmed`).
- The libdispatch handle reads its source on the caller's thread while the cancel
  handler clears it on the queue (hpp:209).
- Move assignment of the Asio handles of events and semaphores is defaulted and
  does not cancel the old operation. `guard = obj.lock()` over a guard that holds
  the same lock waits for itself unless the lock is recursive.
- `syscall.hpp:87` subtracts the time since the start again after every
  interruption, and `try_lock_for` of the simple eventfd mutex waits for the full
  duration again after every failed read; both are outside models without time.

**Bounds.** Three threads are the smallest number with an owner or releaser, a
waiter and an interferer. `Modulus` and `MaxWindow` make the ticket words wrap
around several times and are larger than the number of outstanding tickets, as
2^32 is; `MaxWindow` also leaves out a full turn of the words between the load and
the exchange of one `try_lock`, which takes 2^32 acquisitions. `MaxReleased` and `MaxSignals` bound the histories, not the words the
code keeps; when they are used up, threads may remain blocked for good reason, so
those runs do not check deadlock. Neither does `async_wait`: every thread may sit
in `acquire` with nobody left to release. `MaxDepth` allows two nested calls, and
two `Slots` are what move and assignment of guards need. `MaxTokens` bounds the
counter of the mutexes, whose own limit is 2^64 - 2; a write at the limit is the
failure the code ignores. `MaxOwed` bounds the tokens outstanding in
`NativeTokens`; `ReleaseSizes` has a size above one because the loop in `release`
is where two tokens meet one trigger, and zero because `release(0)` of the kqueue
semaphore still triggers. One thread with two operations is
the smallest mixture with an owner, a waiter and a competitor for the token.

**Fairness.** The scheduler runs every thread that is inside a call and not
blocked: weak fairness of its steps. Sleeping threads are not woken by fairness:
spurious wakeups and deadlines are never assumed. A weak compare-exchange on an
outdated word fails and is retried (weak fairness); it does not fail spuriously
for ever, which for the spinlocks, whose loop goes back to loading, is strong
fairness of the successful exchange. Where an owner has to leave, unlocking is
one of the fair steps, as a mutex needs it from its users; with `locked_object`
the guards are destroyed. Somebody runs the event loops, so callbacks that are
queued are run and readable descriptors are reported, and a `cancel()` that has
begun ends. Nobody is obliged to call, to signal or to cancel.

## 4. Proofs

Every invariant and every refinement that a passing run checks is also a
theorem, proved by TLAPS for all values of the constants: any finite set of
threads, any number of tokens, guards and operations. Each proof module has an
inductive invariant (`Inv`, or `LockInv` and `GuardInv`), which says more than the
properties: what the local variables of a thread tell, and where the code counts
on it.

| Module | Theorems (properties of the runs) |
|---|---|
| `ParkingMutexProofs` | `TypeCorrect`, `Exclusion`, `ExactWord`, `WakeupKept`, `Refinement` |
| `TicketMutexProofs` | `DistinctTickets`, `WakeupKept`, `Refinement`; `MutualExclusion` |
| `ParkingSemaphoreProofs` | `ExactCount`, `SleeperIsWoken`, `Refinement` |
| `ParkingAutoResetEventProofs` | `ExactState`, `WakeupKept`, `Refinement`; `NoPhantoms` |
| `ParkingManualResetEventProofs` | `TypeCorrect`, `WakeupKept` |
| `LockedObjectProofs` | `SharedWord`, `PendingIsServed`, `NoRaceOnCount`, `CountIsExact`, `GuardsUnlockOnce`, `NoUpdateIsLost` |
| `AsyncAcquireProofs` | `ExactLock`, `CalledOnce`, `WakeupKept`, `Refinement`; `SingleOwner` |
| `AsyncWaitProofs` | `SleeperIsWoken`, `SignalIsSeen`, `CalledOnce`, `NoTokenTwice` |

**`ParkingMutex`.** The invariant is the conjunction of the type and the three
invariants of the run, and none is inductive alone: exclusion needs the exact word (an acquirer
sees only that the lock bit is clear), the exact word needs exclusion (unlock
clears the bit on behalf of the only owner), and the wakeup argument needs the
exact count (unlock wakes somebody only if the count says so).

**`TicketMutex`.** Tickets are compared by `Dist`, the steps from one value of a
word to another. `WindowIsShort` is what makes the exchange of `try_lock` safe:
between its load and its exchange fewer tickets are drawn than a word has values,
so a word that looks unchanged is unchanged. That is the assumption
`TicketBounds`: `MaxWindow` tickets at most in that window, and fewer threads than
values. For the refinement `QueueIsExact` orders the waiting threads by ticket.

**`ParkingSemaphore`.** `LocalsFit` adds what each thread has read. From the exact
word a thread that sees a positive word knows of a token, and so does a registered
one that sees a word that is not negative. `NoStrandedSleeper` (one acquirer) has a
stronger inductive form, `WakeIsDue`.

**`ParkingAutoResetEvent`.** The exact word holds for every usage. The other three
theorems have the hypothesis `LoneDeadlines` (deadlines only where a single thread
waits), because without it they are false: `auto_reset_event_phantom` shows it.
With it, `SlotsServed` is invariant: for every value from the word up to zero
there are enough waiters with slots at or above it, so a waiter whose slot is
below the word is not one of those the word stands for, and has a token.
`NoPhantoms` states the property of that run for these usages.

**`LockedObject`.** `LockInv` is inductive for the steps of the three spinlocks by
whatever call; it adds the labels each kind of lock uses, that a thread inside a
lock call has no other one open unless the lock is recursive, and what the word
looked like before an exchange. `GuardInv` adds, for a thread in the middle of an
operation on guards, what it holds now and what it will hold (`Stage`), so that
move assignment, which unlocks one guard and takes over another, accounts for each
open lock call once.

**`AsyncAcquire`.** Every step of a thread or an operation has one of five effects
on the lock: none, it registers, unregisters, acquires or releases. The exact word
(`LockFits`) and the refinement follow from the effect alone, so each of the
callbacks needs only its effect shown. `OpFits` says in which phases of an
operation `handler_invoked_` is set, how often the handler was called, and that
an operation which ends untold is one of those `Excused` names: Qt's without a
handle, and the future of Asio that was cancelled or lost its promise.
`WakeFits` is the wakeup argument for threads and operations together. The
hypothesis `Undisturbed` is about the `kqueue_mutex` without backoff alone: no
signals, no deadlines of the system clock. With either its `lock` returns without
the lock, and the run `kqueue_mutex_two_owners` refutes `OneOwner`; with the
hypothesis `SingleOwner` proves it. The other three
mutexes are proved with signals, and with any clock.

**`AsyncWait`.** `ObjectInv` says where the tokens of each kind of object are
(`TokensFit`): in the counter of an eventfd; in the counter of the system or among
the iterations that the loops in `release` still have to do; in `token_count_`,
with somebody awake who will trigger whenever tokens are left and a thread is in
`kevent`; for the kqueue semaphore, with somebody in `release` or about to pass the
trigger on; for the manual event, a signal in force means a readable descriptor and
no reset running. The chain of triggers of the Apple auto-reset event rests on
`wait_count_` being the number of threads in the loop (`CountersFit`): a thread that
leaves with tokens left sees the other sleeper counted. The operations reach the
object only by taking tokens, so `OpFits` is proved on its own, and `OpsFit` says
that only objects with a descriptor have operations. `CalledOnce` includes who may
end untold (`Excused`), and that a token is taken for nobody by the future of Asio
without its promise alone. `NoTokenTwice` states
`NoOvergrant`, which leaves out `kqueue_semaphore`.

**Assumptions.** The named `ASSUME`s of the modules, which TLC evaluates on every
run: the sets of threads (and of operations that count as registered, and of guard
variables) are finite, bounds are natural numbers, a setup names existing kinds,
threads and forms of operations, threads and operations are different things, no
asynchronous operation shares a `kqueue_mutex` without backoff with deadlines of
the system clock, and `TicketBounds`. The two hypotheses above are part of the theorems that need them.

**Only model-checked.** The liveness properties (`FreeLockIsTaken`, `NoStarvation`,
`TokenIsTaken`, `TokenIsTakenByOne`, `SetEventReleasesAll`, `WaiterIsServed`,
`CancelIsAnswered`), which need fairness and are outside the installed provers.
The violations are shown by their runs.

## 5. Not modelled

Wrappers that forward to one operating system call, compile-time parts, tests,
benchmarks and tools have no protocol to model. Further:

- the portable branch of `atomic_wait`, where two words may share a bucket and
  `notify_one` may wake a waiter of the other word (cpp:614); it is compiled only
  where no futex exists;
- the Windows and the pipe branches of the native events;
- the arithmetic of clocks and deadlines. In the models a deadline passes at any
  moment, which covers one that passes too early, but says nothing about one that
  passes too late;
- the counters at 2^31 waiters or 2^30 readers, which need as many threads;
- auto-reset events under the asynchronous support headers, which go through the
  same code as manual-reset ones.
