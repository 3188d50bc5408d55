----------------------------- MODULE AsyncAcquire -----------------------------
(***************************************************************************)
(* Asynchronous acquisition of the native mutexes with Boost.Asio, Qt and  *)
(* libdispatch, while threads use the mutex.  An operation tries the lock, *)
(* registers as a waiter (async_waiter_guard, which does nothing for the   *)
(* mutexes without backoff) and lets the event loop watch the descriptor;  *)
(* the callback takes the lock and hands it to the user, or waits again.   *)
(*                                                                         *)
(* Every operation runs on its own: event loops may have any number of     *)
(* threads, contexts and queues.                                           *)
(***************************************************************************)
EXTENDS NativeMutex, AsyncOps

ASSUME AsyncParameters ==
  /\ IsFiniteSet(Ops) /\ Threads \cap Ops = {}
  /\ \A u \in Setups : \A o \in DOMAIN u.ops :
       u.ops[o] \in Classes /\ ~(u.kind = "simple_kqueue" /\ u.kind \in SystemClock)

allVars == <<setup, state, event, timer, call, pc, op>>

(* (The promise is moved with and without std::move_only_function.)        *)
AsyncInit == Init /\ OpInit(setup.ops, "closure")

(* A try_lock of an operation.                                             *)
TryLock(o, free, locked) ==
  IF Free THEN Take /\ free ELSE UNCHANGED wordVars /\ locked

-----------------------------------------------------------------------------
(* Starting: the caller's try_lock.  A lock taken here is posted to the    *)
(* event loop; a future has it at once.                                    *)
asio_async_acquire(o) ==
  /\ Is(o, {"asio"}, "new")
  /\ TryLock(o, OpGoto(o, "deliver"), OpGoto(o, "construct"))

asio_async_acquire_cancellable(o) ==
  /\ Is(o, {"asio_cancellable"}, "new")
  /\ TryLock(o, OpGoto(o, "deliver"), OpGoto(o, "construct"))

asio_async_acquire_future(o) ==
  /\ Is(o, {"asio_future"}, "new")
  /\ TryLock(o, Invoke(o, "got"), OpGoto(o, "construct"))

(* A future of Qt starts again on the thread of the context.               *)
qt_start(o) ==
  /\ Is(o, {"qt"}, "new") \/ Is(o, {"qt_future"}, "hop")
  /\ TryLock(o, OpGoto(o, "deliver"), OpGoto(o, "construct"))

qt_cancellable_start(o) ==
  /\ Is(o, {"qt_cancellable"}, "new")
  /\ TryLock(o, Mark(o, "deliver", "leaked"), OpGoto(o, "construct"))

qt_future_start(o) ==
  /\ Is(o, {"qt_future"}, "new")
  /\ TryLock(o, Invoke(o, "got"), OpGoto(o, "hop"))

dispatch_start(o) ==
  /\ Is(o, {"dispatch"}, "new")
  /\ TryLock(o, OpGoto(o, "deliver"), OpGoto(o, "construct"))

dispatch_cancellable_start(o) ==
  /\ Is(o, {"dispatch_cancellable"}, "new")
  /\ TryLock(o, Mark(o, "deliver", "leaked"), OpGoto(o, "construct"))

dispatch_future_start(o) ==
  /\ Is(o, {"dispatch_future"}, "new")
  /\ TryLock(o, Invoke(o, "got"), OpGoto(o, "construct"))

(* The guard's constructor registers and drops the word it is given.       *)
register(o) ==
  /\ op[o].at = "construct"
  /\ state' = IF Fast THEN state + 2 ELSE state
  /\ op' = [op EXCEPT ![o].at = "arm", ![o].late = Fast /\ Free]
  /\ UNCHANGED event

asio_start_wait(o) == start_wait(o) /\ UNCHANGED wordVars

qt_create_and_arm_notifier(o) ==
  /\ Is(o, Qt, "arm")
  /\ Started(o, "armed")
  /\ UNCHANGED wordVars

dispatch_resume(o) ==
  /\ Is(o, Dispatch, "arm")
  /\ Started(o, "armed")
  /\ UNCHANGED wordVars

fd_readable(o) ==
  /\ op[o].at = "armed" /\ Fires(o)
  /\ event > 0
  /\ OpGoto(o, "ready")
  /\ UNCHANGED wordVars

(* The timer of a thread's deadline makes the kqueue readable, too, and    *)
(* the kevent of consume_lock may take it.                                 *)
timer_readable(o) ==
  /\ op[o].at = "armed" /\ Fires(o)
  /\ timer
  /\ OpGoto(o, "ready")
  /\ UNCHANGED wordVars

consume_timer(o) ==
  /\ op[o].at = "consume"
  /\ timer /\ timer' = FALSE
  /\ OpGoto(o, "unregister")
  /\ UNCHANGED wordVars

-----------------------------------------------------------------------------
(* The callback: fail if cancelled, otherwise try_acquire.  A future of    *)
(* Asio knows of a cancel only by the error code, and nobody is told.      *)
asio_complete(o) ==
  /\ \/ Is(o, {"asio", "asio_cancellable"}, "ready")
     \/ Is(o, {"asio_cancellable"}, "aborted")
  /\ OpGoto(o, IF Flagged(o) THEN "release" ELSE "try")
  /\ UNCHANGED wordVars

asio_future_complete(o) ==
  /\ \/ Is(o, {"asio_future"}, "ready") /\ OpGoto(o, "try")
     \/ Is(o, {"asio_future"}, "aborted") /\ OpGoto(o, "abandon")
  /\ UNCHANGED wordVars

qt_on_notified(o) ==
  /\ Is(o, {"qt", "qt_future"}, "ready")
  /\ OpGoto(o, "try")
  /\ UNCHANGED wordVars

qt_cancellable_on_notified(o) ==
  /\ Is(o, {"qt_cancellable"}, "ready")
  /\ IF Flagged(o) THEN Mark(o, "release", "done") ELSE OpGoto(o, "try")
  /\ UNCHANGED wordVars

dispatch_event(o) ==
  /\ Is(o, {"dispatch"}, "ready")
  /\ OpGoto(o, "try")
  /\ UNCHANGED wordVars

dispatch_future_event(o) ==
  /\ Is(o, {"dispatch_future"}, "ready")
  /\ OpGoto(o, "try")
  /\ UNCHANGED wordVars

dispatch_cancellable_event(o) ==
  /\ Is(o, {"dispatch_cancellable"}, "ready") /\ Fires(o)
  /\ IF Flagged(o) THEN Mark(o, "release", "armed") ELSE OpGoto(o, "try")
  /\ UNCHANGED wordVars

(* try_acquire of the guard.  When the lock is taken, Asio and the future  *)
(* of libdispatch start another wait, the others go on waiting.            *)
try_acquire(o) ==
  /\ op[o].at = "try"
  /\ TryLock(o, OpGoto(o, IF Fast THEN "consume" ELSE "recheck"),
                OpGoto(o, IF op[o].class \in Asio \cup {"dispatch_future"} THEN "arm" ELSE "armed"))

consume(o) ==
  /\ op[o].at = "consume"
  /\ ReadOne
  /\ OpGoto(o, "unregister")
  /\ UNCHANGED state

unregister_forgotten(o) ==   \* mutant: the guard is dismissed, not released
  /\ op[o].at = "unregister"
  /\ OpGoto(o, "recheck")
  /\ UNCHANGED wordVars

unregister(o) ==
  /\ op[o].at = "unregister"
  /\ state' = state - 2
  /\ OpGoto(o, "recheck")
  /\ UNCHANGED event

(* The lock is handed over.  Asio calls the handler right away; set_value  *)
(* on a promise that was moved from throws.  The cancellable operations of *)
(* Qt and libdispatch look at the flag again and give the lock back.       *)
asio_acquired(o) ==
  /\ Is(o, {"asio", "asio_cancellable"}, "recheck")
  /\ Invoke(o, "got")
  /\ UNCHANGED wordVars

asio_future_acquired(o) ==
  /\ Is(o, {"asio_future"}, "recheck")
  /\ IF op[o].promise = "gone" THEN OpGoto(o, "throws") ELSE Invoke(o, "got")
  /\ UNCHANGED wordVars

deliver_success(o) ==
  /\ Is(o, {"qt", "qt_future", "dispatch", "dispatch_future"}, "recheck")
  /\ OpGoto(o, "deliver")
  /\ UNCHANGED wordVars

qt_recheck(o) ==
  /\ Is(o, {"qt_cancellable"}, "recheck")
  /\ IF Flagged(o) THEN OpGoto(o, "undo") ELSE Mark(o, "deliver", "leaked")
  /\ UNCHANGED wordVars

dispatch_recheck(o) ==
  /\ Is(o, {"dispatch_cancellable"}, "recheck")
  /\ IF Flagged(o) THEN OpGoto(o, "undo") ELSE Mark(o, "deliver", "leaked")
  /\ UNCHANGED wordVars

undo_silent(o) ==   \* mutant: the lock is given back, no token written
  /\ op[o].at = "undo"
  /\ Release
  /\ Mark(o, "fail", "done")

undo(o) ==
  /\ op[o].at = "undo"
  /\ Release
  /\ IF Notifies THEN OpGoto(o, "undoPost") ELSE Mark(o, "fail", "done")

undo_post(o) ==
  /\ op[o].at = "undoPost"
  /\ WriteOne
  /\ Mark(o, "fail", "done")
  /\ UNCHANGED state

(* The guard is released or destroyed.  After Qt's posted cancel() that    *)
(* comes with the end of the operation, after the handler was called.      *)
Unregister == state' = (IF Fast THEN state - 2 ELSE state) /\ UNCHANGED event

guard_release(o) ==
  /\ op[o].at \in {"release", "abandon"}
  /\ Unregister
  /\ OpGoto(o, IF op[o].at = "abandon" THEN IF op[o].calls = 1 THEN "done" ELSE "dropped"
               ELSE "fail")

deliver_cancellation(o) ==
  /\ op[o].at = "failGuarded"
  /\ Invoke(o, "abandon")
  /\ UNCHANGED wordVars

deliver(o) == (invoke_success(o) \/ invoke_error(o)) /\ UNCHANGED wordVars

(* The unique_lock is destroyed, by the user or by the exception.          *)
op_unlock_silent(o) ==   \* mutant: no token for the waiters
  /\ op[o].at \in {"got", "throws"}
  /\ Release
  /\ OpGoto(o, IF op[o].at = "got" THEN "done" ELSE "dropped")

op_unlock(o) ==
  /\ op[o].at \in {"got", "throws"}
  /\ Release
  /\ OpGoto(o, IF Notifies THEN "post" ELSE IF op[o].at = "got" THEN "done" ELSE "dropped")

op_post(o) ==
  /\ op[o].at = "post"
  /\ WriteOne
  /\ OpGoto(o, IF op[o].calls = 1 THEN "done" ELSE "dropped")
  /\ UNCHANGED state

-----------------------------------------------------------------------------
(* Cancellation.                                                           *)
asio_cancel(o) == FlagCancel(o, {"asio_cancellable"}) /\ UNCHANGED wordVars
asio_future_cancel(o) == FlagCancel(o, {"asio_future"}) /\ UNCHANGED wordVars
asio_cancel_wait(o) == AsioCancel(o) /\ UNCHANGED wordVars

qt_handle_cancel(o) == FlagCancel(o, {"qt_cancellable"}) /\ UNCHANGED wordVars
qt_cancel(o) == PostCancel(o, {"qt_cancellable"}) /\ UNCHANGED wordVars
qt_cancelled(o) == CancelPosted(o, {"qt_cancellable"}, "failGuarded") /\ UNCHANGED wordVars

dispatch_handle_cancel(o) == FlagCancel(o, {"dispatch_cancellable"}) /\ UNCHANGED wordVars
dispatch_cancel(o) == PostCancel(o, {"dispatch_cancellable"}) /\ UNCHANGED wordVars
dispatch_cancel_handler(o) ==
  CancelPosted(o, {"dispatch_cancellable"}, "release") /\ UNCHANGED wordVars

-----------------------------------------------------------------------------
OpStart(o) ==
  \/ asio_async_acquire(o) \/ asio_async_acquire_cancellable(o) \/ asio_async_acquire_future(o)
  \/ qt_start(o) \/ qt_cancellable_start(o) \/ qt_future_start(o)
  \/ dispatch_start(o) \/ dispatch_cancellable_start(o) \/ dispatch_future_start(o)

OpProgress(o) ==
  \/ op[o].at = "hop" /\ qt_start(o)
  \/ register(o) \/ asio_start_wait(o) \/ qt_create_and_arm_notifier(o) \/ dispatch_resume(o)
  \/ fd_readable(o) \/ asio_complete(o) \/ asio_future_complete(o) \/ qt_on_notified(o)
  \/ qt_cancellable_on_notified(o) \/ dispatch_event(o) \/ dispatch_future_event(o)
  \/ dispatch_cancellable_event(o)
  \/ try_acquire(o) \/ consume(o) \/ unregister(o)
  \/ asio_acquired(o) \/ asio_future_acquired(o) \/ deliver_success(o)
  \/ qt_recheck(o) \/ dispatch_recheck(o) \/ undo(o) \/ undo_post(o)
  \/ guard_release(o) \/ deliver_cancellation(o) \/ deliver(o) \/ op_unlock(o) \/ op_post(o)

CancelProgress(o) ==
  \/ asio_cancel_wait(o) \/ qt_cancel(o) \/ qt_cancelled(o)
  \/ dispatch_cancel(o) \/ dispatch_cancel_handler(o)

OpNext(o) ==
  \/ OpStart(o) \/ OpProgress(o) \/ CancelProgress(o)
  \/ asio_cancel(o) \/ asio_future_cancel(o) \/ qt_handle_cancel(o) \/ dispatch_handle_cancel(o)
  \/ timer_readable(o)
  \/ qt_dup_fails(o) /\ UNCHANGED wordVars

AsyncNext ==
  /\ \/ Next /\ UNCHANGED op
     \/ UNCHANGED threadVars /\ \E o \in Ops : OpNext(o)
     \/ UNCHANGED <<call, pc>> /\ \E o \in Ops : consume_timer(o)
  /\ UNCHANGED setup

AsyncSpec == AsyncInit /\ [][AsyncNext]_allVars

(* Threads and event loops run and owners unlock.  Nobody is obliged to    *)
(* call or to cancel, but a cancel() that has begun ends.                  *)
AsyncFairSpec ==
  /\ AsyncSpec
  /\ \A t \in Threads : WF_allVars(Progress(t) /\ UNCHANGED <<op, setup>>)
  /\ \A o \in Ops : /\ WF_allVars(OpProgress(o) /\ UNCHANGED <<threadVars, setup>>)
                    /\ WF_allVars(CancelProgress(o) /\ UNCHANGED <<threadVars, setup>>)

-----------------------------------------------------------------------------
OpOwners == {o \in Ops : op[o].at \in {"deliver", "consume", "unregister", "recheck", "undo",
                                      "got", "throws", "leaked"}}
OpWaiters == {o \in Ops : op[o].at \in {"arm", "armed", "ready", "aborted", "try", "consume",
                                       "unregister", "release", "abandon", "unarmed", "failGuarded"}}

(* The lock is exact.  With a word: bit 0 is set iff a thread or an        *)
(* operation owns the lock, and the upper bits count the registrations of  *)
(* both, whether they end in ownership, timeout, failure or cancellation.  *)
(* Without: the descriptor holds one token, or somebody owns the lock.     *)
LockIsExact ==
  /\ TypeOK /\ op \in [Ops -> OpType]
  /\ IF Fast
     THEN state = 2 * Cardinality(Waiters \cup OpWaiters)
                    + (IF Owners \cup OpOwners = {} THEN 0 ELSE 1)
     ELSE event = (IF Owners \cup OpOwners = {} THEN 1 ELSE 0)

(* No lost wakeup, although tokens are read by those they were not meant   *)
(* for and operations end with a token unread: when the lock is free and   *)
(* somebody waits on an empty descriptor, a write is on its way or another *)
(* registered one is awake.  (An operation that registered after the lock  *)
(* became free is owed nothing: HandlerIsCalled.)                          *)
Entitled(o) == ~op[o].late /\ op[o].at \in {"arm", "armed", "ready", "try"} /\ op[o].cancel \in {"none", "held"}

NoLostWakeup ==
  (Fast /\ ~Locked(state) /\ event = 0
     /\ ((\E t \in Threads : At(t, "poll")) \/ \E o \in Ops : op[o].at = "armed" /\ Entitled(o))) =>
  \/ \E t \in Threads : At(t, "post") \/ (t \in Waiters /\ pc[t] \notin {"poll", "leave"})
  \/ \E o \in Ops : op[o].at \in {"post", "undoPost", "ready", "try"}

Abstract == INSTANCE AbstractMutex
  WITH Threads <- Threads \cup Ops,
       holders <- Owners \cup OpOwners,
       waiting <- {t \in Threads : pc[t] \in Blocking}

(* lock() of the kqueue_mutex without backoff returns whatever its kevent  *)
(* did.  It can keep its promise only where no signal interrupts it and no *)
(* deadline of the system clock puts a timer beside its event; the other   *)
(* three mutexes keep theirs in any case.                                  *)
Undisturbed ==
  setup.kind = "simple_kqueue" => ~setup.signals /\ "simple_kqueue" \notin SystemClock

(* "Acquires the lock, blocking as necessary": who returns from lock() is  *)
(* the only owner.                                                         *)
OneOwner == Cardinality(Owners \cup OpOwners) <= 1

(* Every behaviour of the word, the descriptor, threads and operations     *)
(* together is one of a mutex.                                             *)
ImplementsMutex == Abstract!AbstractSpec

(* A lock that is free while threads or operations wait for it is          *)
(* eventually taken, with stale tokens, stolen tokens, coalesced triggers, *)
(* timeouts and cancellations in any order.                                *)
FreeLockIsTaken ==
  []<>(\/ Owners \cup OpOwners # {}
       \/ /\ \A t \in Threads : pc[t] \notin Blocking
          /\ \A o \in Ops : ~Entitled(o))

(* "The handler is called exactly once": the same for every operation,     *)
(* one that registered after the last unlock included.                     *)
HandlerIsCalled ==
  \A o \in Ops : []<>(Owners \cup OpOwners # {} \/ op[o].at \notin {"arm", "armed", "ready", "try"})

===============================================================================
