------------------------------ MODULE AsyncWait ------------------------------
(***************************************************************************)
(* Asynchronous waits for the native manual-reset event and asynchronous   *)
(* acquisition of eventfd_semaphore and kqueue_semaphore with Boost.Asio,  *)
(* Qt and libdispatch, while threads use the same object.  An operation    *)
(* tries once, lets the event loop watch the descriptor, and tries again   *)
(* in every callback; nothing is registered with the object itself.        *)
(*                                                                         *)
(* The support headers of events and of semaphores repeat one another; the *)
(* shared steps come first, then the functions of each header.             *)
(***************************************************************************)
EXTENDS NativeTokens, AsyncOps

(* move_only: the library has std::move_only_function, and the future of   *)
(* Asio moves its promise from closure to closure.                         *)
ASSUME WaitParameters == \A u \in Setups :
  u.move_only \in BOOLEAN /\ \A o \in DOMAIN u.ops : u.ops[o] \in Classes

allVars == <<setup, objectVars, owed, threadVars, op>>
objVars == <<objectVars, owed>>

AsyncInit == Init /\ OpInit(setup.ops, IF setup.move_only THEN "closure" ELSE "shared")

AsyncSemaphores == {"eventfd_semaphore", "kqueue_semaphore"}

(* A try_wait or try_acquire of an operation.                              *)
TryWait(o, taken, empty) ==
  IF Available > 0 THEN TakeOne /\ Took /\ taken ELSE UNCHANGED objVars /\ empty

-----------------------------------------------------------------------------
(* The first try.  A handler is then posted to the event loop, a future is *)
(* made ready at once.                                                     *)
Starts(o, class, kinds, first, next) ==
  /\ Is(o, {class}, first) /\ setup.kind \in kinds
  /\ TryWait(o, IF class \in {"qt_cancellable", "dispatch_cancellable"} THEN Mark(o, "deliver", "leaked")
                ELSE IF first = "new" /\ class \in {"asio_future", "qt_future", "dispatch_future"}
                THEN Invoke(o, "got")
                ELSE OpGoto(o, "deliver"),
                OpGoto(o, next))

(* The wait begins; the caller gets the handle.                            *)
Arm(o, classes, kinds) ==
  /\ Is(o, classes, "arm") /\ setup.kind \in kinds
  /\ Started(o, "armed")
  /\ UNCHANGED objVars

fd_readable(o) ==
  /\ op[o].at = "armed" /\ Fires(o)
  /\ event > 0
  /\ OpGoto(o, "ready")
  /\ UNCHANGED objVars

(* The callback: a cancelled operation fails, the others try again.        *)
Callback(o, classes, kinds, labels, again) ==
  /\ op[o].class \in classes /\ op[o].at \in labels /\ setup.kind \in kinds
  /\ Fires(o)
  /\ IF Flagged(o) THEN Mark(o, "fail", again) ELSE OpGoto(o, "try")
  /\ UNCHANGED objVars

(* What was acquired is delivered, although a cancel() may have come in    *)
(* between.  Without luck Asio and the future of libdispatch start another *)
(* wait, the others go on waiting.                                         *)
rearm_untried(o) ==   \* mutant: the callback only waits again
  /\ op[o].at = "try"
  /\ OpGoto(o, IF op[o].class \in Asio \cup {"dispatch_future"} THEN "arm" ELSE "armed")
  /\ UNCHANGED objVars

try_again(o) ==
  /\ op[o].at = "try"
  /\ TryWait(o, IF op[o].class \in Cancellable THEN Mark(o, "deliver", "leaked")
                ELSE OpGoto(o, IF op[o].promise = "gone" THEN "leaked"   \* set_value throws
                               ELSE "deliver"),
                OpGoto(o, IF op[o].class \in Asio \cup {"dispatch_future"} THEN "arm" ELSE "armed"))

deliver(o) == (invoke_success(o) \/ invoke_error(o)) /\ UNCHANGED objVars

(* No descriptor and no handle: the operation is freed.                    *)
abandon(o) ==
  /\ op[o].at = "abandon"
  /\ OpGoto(o, "dropped")
  /\ UNCHANGED objVars

(* A wait of Asio's future that was cancelled leaves the promise alone.    *)
FutureCallback(o, kinds) ==
  /\ setup.kind \in kinds
  /\ \/ Is(o, {"asio_future"}, "ready") /\ OpGoto(o, "try")
     \/ Is(o, {"asio_future"}, "aborted") /\ OpGoto(o, "dropped")
  /\ UNCHANGED objVars

HandleCancels(o, class, kinds) == setup.kind \in kinds /\ FlagCancel(o, {class}) /\ UNCHANGED objVars
AsioCancels(o, kinds) == setup.kind \in kinds /\ AsioCancel(o) /\ UNCHANGED objVars
PostsCancel(o, class, kinds) == setup.kind \in kinds /\ PostCancel(o, {class}) /\ UNCHANGED objVars
RunsCancel(o, class, kinds) == setup.kind \in kinds /\ CancelPosted(o, {class}, "fail") /\ UNCHANGED objVars

-----------------------------------------------------------------------------
(* event/support/boost_asio_support.hpp                                    *)
event_async_wait(o) == Starts(o, "asio", ManualEvents, "new", "arm")
event_async_wait_cancellable(o) == Starts(o, "asio_cancellable", ManualEvents, "new", "arm")
event_async_wait_future(o) == Starts(o, "asio_future", ManualEvents, "new", "arm")
event_start_wait(o) == setup.kind \in ManualEvents /\ start_wait(o) /\ UNCHANGED objVars
event_op_complete(o) == Callback(o, {"asio"}, ManualEvents, {"ready"}, "done")
event_cancellable_op_complete(o) ==
  Callback(o, {"asio_cancellable"}, ManualEvents, {"ready", "aborted"}, "done")
event_do_wait(o) == FutureCallback(o, ManualEvents)
event_wait_handle_cancel(o) == HandleCancels(o, "asio_cancellable", ManualEvents)
event_future_state_destroyed(o) == HandleCancels(o, "asio_future", ManualEvents)
event_op_cancel(o) == AsioCancels(o, ManualEvents)

(* event/support/qt_support.hpp                                            *)
event_qt_start(o) ==
  \/ Starts(o, "qt", ManualEvents, "new", "arm")
  \/ Starts(o, "qt_future", ManualEvents, "hop", "arm")
event_qt_cancellable_start(o) == Starts(o, "qt_cancellable", ManualEvents, "new", "arm")
event_qt_async_wait_future(o) == Starts(o, "qt_future", ManualEvents, "new", "hop")
event_qt_arm_notifier(o) == Arm(o, {"qt", "qt_future"}, ManualEvents)
event_qt_cancellable_arm_notifier(o) == Arm(o, {"qt_cancellable"}, ManualEvents)
event_qt_on_notified(o) == Callback(o, {"qt", "qt_future"}, ManualEvents, {"ready"}, "done")
event_qt_cancellable_on_notified(o) == Callback(o, {"qt_cancellable"}, ManualEvents, {"ready"}, "done")
event_qt_handle_cancel(o) == HandleCancels(o, "qt_cancellable", ManualEvents)
event_qt_cancel(o) == PostsCancel(o, "qt_cancellable", ManualEvents)
event_qt_cancelled(o) == RunsCancel(o, "qt_cancellable", ManualEvents)

(* event/support/libdispatch_support.hpp                                   *)
event_dispatch_start(o) == Starts(o, "dispatch", ManualEvents, "new", "arm")
event_dispatch_cancellable_start(o) == Starts(o, "dispatch_cancellable", ManualEvents, "new", "arm")
event_dispatch_async_wait_future(o) == Starts(o, "dispatch_future", ManualEvents, "new", "arm")
event_dispatch_resume(o) == Arm(o, Dispatch, ManualEvents)
event_dispatch_event(o) == Callback(o, {"dispatch"}, ManualEvents, {"ready"}, "armed")
event_dispatch_future_event(o) == Callback(o, {"dispatch_future"}, ManualEvents, {"ready"}, "armed")
event_dispatch_cancellable_event(o) ==
  Callback(o, {"dispatch_cancellable"}, ManualEvents, {"ready"}, "armed")
event_dispatch_handle_cancel(o) == HandleCancels(o, "dispatch_cancellable", ManualEvents)
event_dispatch_cancel(o) == PostsCancel(o, "dispatch_cancellable", ManualEvents)
event_dispatch_cancel_handler(o) == RunsCancel(o, "dispatch_cancellable", ManualEvents)

-----------------------------------------------------------------------------
(* semaphore/support/boost_asio_support.hpp                                *)
semaphore_async_acquire(o) == Starts(o, "asio", AsyncSemaphores, "new", "arm")
semaphore_async_acquire_cancellable(o) == Starts(o, "asio_cancellable", AsyncSemaphores, "new", "arm")
semaphore_async_acquire_future(o) == Starts(o, "asio_future", AsyncSemaphores, "new", "arm")
semaphore_start_wait(o) == setup.kind \in AsyncSemaphores /\ start_wait(o) /\ UNCHANGED objVars
semaphore_op_complete(o) == Callback(o, {"asio"}, AsyncSemaphores, {"ready"}, "done")
semaphore_cancellable_op_complete(o) ==
  Callback(o, {"asio_cancellable"}, AsyncSemaphores, {"ready", "aborted"}, "done")
semaphore_do_wait(o) == FutureCallback(o, AsyncSemaphores)
semaphore_handle_cancel(o) == HandleCancels(o, "asio_cancellable", AsyncSemaphores)
semaphore_future_state_destroyed(o) == HandleCancels(o, "asio_future", AsyncSemaphores)
semaphore_op_cancel(o) == AsioCancels(o, AsyncSemaphores)

(* semaphore/support/qt_support.hpp                                        *)
semaphore_qt_start(o) ==
  \/ Starts(o, "qt", AsyncSemaphores, "new", "arm")
  \/ Starts(o, "qt_future", AsyncSemaphores, "hop", "arm")
semaphore_qt_cancellable_start(o) == Starts(o, "qt_cancellable", AsyncSemaphores, "new", "arm")
semaphore_qt_async_acquire_future(o) == Starts(o, "qt_future", AsyncSemaphores, "new", "hop")
semaphore_qt_arm_notifier(o) == Arm(o, {"qt", "qt_future"}, AsyncSemaphores)
semaphore_qt_cancellable_arm_notifier(o) == Arm(o, {"qt_cancellable"}, AsyncSemaphores)
semaphore_qt_on_notified(o) == Callback(o, {"qt", "qt_future"}, AsyncSemaphores, {"ready"}, "done")
semaphore_qt_cancellable_on_notified(o) ==
  Callback(o, {"qt_cancellable"}, AsyncSemaphores, {"ready"}, "done")
semaphore_qt_handle_cancel(o) == HandleCancels(o, "qt_cancellable", AsyncSemaphores)
semaphore_qt_cancel(o) == PostsCancel(o, "qt_cancellable", AsyncSemaphores)
semaphore_qt_cancelled(o) == RunsCancel(o, "qt_cancellable", AsyncSemaphores)

(* semaphore/support/libdispatch_support.hpp                               *)
semaphore_dispatch_start(o) == Starts(o, "dispatch", AsyncSemaphores, "new", "arm")
semaphore_dispatch_cancellable_start(o) ==
  Starts(o, "dispatch_cancellable", AsyncSemaphores, "new", "arm")
semaphore_dispatch_async_acquire_future(o) ==
  Starts(o, "dispatch_future", AsyncSemaphores, "new", "arm")
semaphore_dispatch_resume(o) == Arm(o, Dispatch, AsyncSemaphores)
semaphore_dispatch_event(o) == Callback(o, {"dispatch"}, AsyncSemaphores, {"ready"}, "armed")
semaphore_dispatch_future_event(o) ==
  Callback(o, {"dispatch_future"}, AsyncSemaphores, {"ready"}, "armed")
semaphore_dispatch_cancellable_event(o) ==
  Callback(o, {"dispatch_cancellable"}, AsyncSemaphores, {"ready"}, "armed")
semaphore_dispatch_handle_cancel(o) == HandleCancels(o, "dispatch_cancellable", AsyncSemaphores)
semaphore_dispatch_cancel(o) == PostsCancel(o, "dispatch_cancellable", AsyncSemaphores)
semaphore_dispatch_cancel_handler(o) == RunsCancel(o, "dispatch_cancellable", AsyncSemaphores)

-----------------------------------------------------------------------------
OpStart(o) ==
  \/ event_async_wait(o) \/ event_async_wait_cancellable(o) \/ event_async_wait_future(o)
  \/ event_qt_cancellable_start(o) \/ event_qt_async_wait_future(o)
  \/ event_dispatch_start(o) \/ event_dispatch_cancellable_start(o)
  \/ event_dispatch_async_wait_future(o)
  \/ semaphore_async_acquire(o) \/ semaphore_async_acquire_cancellable(o)
  \/ semaphore_async_acquire_future(o) \/ semaphore_qt_cancellable_start(o)
  \/ semaphore_qt_async_acquire_future(o) \/ semaphore_dispatch_start(o)
  \/ semaphore_dispatch_cancellable_start(o) \/ semaphore_dispatch_async_acquire_future(o)

(* A start that was posted to the context is carried out as well.          *)
OpProgress(o) ==
  \/ op[o].at # "new" /\ (event_qt_start(o) \/ semaphore_qt_start(o))
  \/ event_start_wait(o) \/ event_op_complete(o) \/ event_cancellable_op_complete(o)
  \/ event_do_wait(o) \/ event_qt_arm_notifier(o) \/ event_qt_cancellable_arm_notifier(o)
  \/ event_qt_on_notified(o) \/ event_qt_cancellable_on_notified(o)
  \/ event_dispatch_resume(o) \/ event_dispatch_event(o) \/ event_dispatch_future_event(o)
  \/ event_dispatch_cancellable_event(o)
  \/ semaphore_start_wait(o) \/ semaphore_op_complete(o) \/ semaphore_cancellable_op_complete(o)
  \/ semaphore_do_wait(o) \/ semaphore_qt_arm_notifier(o) \/ semaphore_qt_cancellable_arm_notifier(o)
  \/ semaphore_qt_on_notified(o) \/ semaphore_qt_cancellable_on_notified(o)
  \/ semaphore_dispatch_resume(o) \/ semaphore_dispatch_event(o) \/ semaphore_dispatch_future_event(o)
  \/ semaphore_dispatch_cancellable_event(o)
  \/ fd_readable(o) \/ try_again(o) \/ deliver(o) \/ abandon(o)

CancelProgress(o) ==
  \/ event_op_cancel(o) \/ event_qt_cancel(o) \/ event_qt_cancelled(o)
  \/ event_dispatch_cancel(o) \/ event_dispatch_cancel_handler(o)
  \/ semaphore_op_cancel(o) \/ semaphore_qt_cancel(o) \/ semaphore_qt_cancelled(o)
  \/ semaphore_dispatch_cancel(o) \/ semaphore_dispatch_cancel_handler(o)

OpNext(o) ==
  \/ OpStart(o) \/ OpProgress(o) \/ CancelProgress(o)
  \/ event_qt_start(o) \/ semaphore_qt_start(o)
  \/ event_wait_handle_cancel(o) \/ event_future_state_destroyed(o)
  \/ event_qt_handle_cancel(o) \/ event_dispatch_handle_cancel(o)
  \/ semaphore_handle_cancel(o) \/ semaphore_future_state_destroyed(o)
  \/ semaphore_qt_handle_cancel(o) \/ semaphore_dispatch_handle_cancel(o)
  \/ qt_dup_fails(o) /\ UNCHANGED objVars

AsyncNext ==
  /\ \/ Next /\ UNCHANGED op
     \/ UNCHANGED threadVars /\ \E o \in Ops : OpNext(o)
  /\ UNCHANGED setup

AsyncSpec == AsyncInit /\ [][AsyncNext]_allVars

(* Threads and event loops run; nobody is obliged to call or to cancel,    *)
(* but a cancel() that has begun ends.                                     *)
AsyncFairSpec ==
  /\ AsyncSpec
  /\ \A t \in Threads : WF_allVars(Progress(t) /\ UNCHANGED <<op, setup>>)
  /\ \A o \in Ops : /\ WF_allVars(OpProgress(o) /\ UNCHANGED <<threadVars, setup>>)
                    /\ WF_allVars(CancelProgress(o) /\ UNCHANGED <<threadVars, setup>>)

-----------------------------------------------------------------------------
(* The timed calls of kqueue_semaphore take a trigger and send none on, so *)
(* the promises about wakeups leave them out.                              *)
Dependable == setup.kind = "kqueue_semaphore" => setup.calls \subseteq {"try", "wait"}

Sleepers == {t \in Threads : pc[t] \in {"poll", "claimed"}}
ArmedOps == {o \in Ops : op[o].at = "armed" /\ op[o].cancel \in {"none", "held"}}

(* No sleeper is stranded.  Triggers of a kqueue coalesce and are taken by *)
(* those who then find no token, a signal sends none when a token is       *)
(* stored already, a token is taken without its trigger: still, whenever a *)
(* token is there while a thread or an operation sleeps on a descriptor    *)
(* that is not readable, somebody is about to trigger or to take the token.*)
NoStrandedSleeper ==
  /\ TypeOK /\ op \in [Ops -> OpType]
  /\ (Dependable /\ owed > 0 /\ event <= 0 /\ Sleepers \cup ArmedOps # {}) =>
       \/ setup.kind \in ManualEvents
       \/ \E t \in Threads : pc[t] \in {"posting", "notify", "write", "trigger", "look",
                                       "lastTry", "chain", "chainCount", "chainTrigger",
                                       "renotify"}

(* A signal of the manual event that no reset overlapped or followed is    *)
(* seen by every waiter: the descriptor is readable, whatever signals and  *)
(* resets went on before, in whatever order their system calls came.       *)
SetIsSeen == (setup.kind \in ManualEvents /\ owed = 1) => event > 0

(* No token stays unused for ever while a thread waits without a deadline: *)
(* as long as there are both, tokens are taken again and again, although   *)
(* timed waiters give up with a trigger taken and others take tokens       *)
(* without their trigger.                                                  *)
TokenIsTaken ==
  \/ []<><<owed' < owed>>_allVars
  \/ []<>(\/ ~Dependable \/ setup.kind \in ManualEvents \/ owed <= 0
          \/ \A t \in Threads : call[t] # "wait" \/ pc[t] \notin {"look", "poll", "claimed"})

(* Every thread that waits for a manual event that stays set is released.  *)
(* An operation whose event stays set, or whose semaphore keeps tokens,    *)
(* waits no longer after any number of waits that found nothing: its       *)
(* handler is called, unless it is excused (Qt could not duplicate the     *)
(* descriptor, the future of Asio was cancelled or has lost its promise).  *)
WaiterIsServed ==
  /\ \A t \in Threads :
       []<>(setup.kind \notin ManualEvents \/ owed = 0 \/ pc[t] \notin {"look", "poll"})
  /\ \A o \in Ops :
       []<>(\/ ~Dependable \/ owed <= 0 \/ op[o].at = "new" \/ op[o].calls = 1
            \/ op[o].at \in {"dropped", "leaked"} /\ Excused(o)
            \/ op[o].at = "unarmed")

(* "Blocks until a token is available, then consumes one": no more tokens  *)
(* are handed out than were given, although a token is taken by one after  *)
(* the wakeup of another, and by threads and operations alike.  (But by    *)
(* kqueue_semaphore: after release(1) an acquire() that takes the token    *)
(* from the count leaves the trigger, and the next one returns on it.)     *)
NoOvergrant ==
  setup.kind \in (Semaphores \ {"kqueue_semaphore"}) \cup AutoEvents => owed >= 0

==============================================================================
