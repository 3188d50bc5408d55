------------------------------- MODULE AsyncOps -------------------------------
(***************************************************************************)
(* The life of an asynchronous operation, as far as it is the same for     *)
(* mutexes, events and semaphores: Boost.Asio, Qt and libdispatch wait for *)
(* a descriptor to become readable, call back, and deliver a result to the *)
(* user's handler or future; handles cancel from any thread.               *)
(*                                                                         *)
(* External.  Boost.Asio: the completion of a wait is queued once the      *)
(* descriptor is readable, or when a wait in progress is cancelled; a      *)
(* cancel that meets no wait does nothing.  Qt: the callback and what is   *)
(* posted to the context object run on its thread, one after the other; a  *)
(* deleted notifier calls nobody.  libdispatch: event handler and cancel   *)
(* handler of a source exclude each other, a cancelled source starts no    *)
(* event handler any more and calls its cancel handler once.               *)
(***************************************************************************)
EXTENDS Naturals

CONSTANT Ops     \* the operations, one call each

VARIABLE op      \* per operation: a record, see OpType

Asio == {"asio", "asio_cancellable", "asio_future"}
Qt == {"qt", "qt_cancellable", "qt_future"}
Dispatch == {"dispatch", "dispatch_cancellable", "dispatch_future"}
Cancellable == {"asio_cancellable", "qt_cancellable", "dispatch_cancellable"}
WithHandle == Cancellable \cup {"asio_future"}   \* its state object cancels
Classes == Asio \cup Qt \cup Dispatch \cup {"none"}

(* "new": not called yet; "hop": the start is posted; "construct": before  *)
(* the guard registers; "arm": before the wait starts; "armed": waits;     *)
(* "ready", "aborted": the callback is queued; "try" to "recheck": in the  *)
(* callback; "undo", "undoPost": gives the lock back; "deliver", "fail":   *)
(* the result is queued; "failGuarded": the same, still registered;        *)
(* "release": before the guard unregisters and the handler is told;        *)
(* "abandon": before the guard unregisters, nobody is told; "got": the     *)
(* user has what was acquired; "throws": acquired, but the promise is      *)
(* gone, and it is given back; "post": in unlock; "unarmed": no            *)
(* descriptor, the handle has the operation; "leaked": acquired, and       *)
(* nobody was told; "done"; "dropped": over without a result.              *)
InCallback == {"try", "consume", "unregister", "recheck", "undo", "undoPost"}
OpLabels == {"new", "hop", "construct", "arm", "armed", "ready", "aborted", "deliver",
             "fail", "failGuarded", "release", "abandon", "got", "throws", "post",
             "unarmed", "leaked", "done", "dropped"} \cup InCallback

OpType == [class : Classes, at : OpLabels,
           cancel : {"none", "held", "flagged", "posted", "over"},   \* of the handle
           marked : BOOLEAN,                            \* handler_invoked_
           calls : 0 .. 2,                              \* of the user's handler
           promise : {"shared", "closure", "handler", "gone"},   \* who has it
           late : BOOLEAN]          \* the lock was free when it registered (history)

OpInit(classes, promise) ==
  op = [o \in Ops |->
          [class |-> IF o \in DOMAIN classes THEN classes[o] ELSE "none",
           at |-> "new", cancel |-> "none", marked |-> FALSE, calls |-> 0,
           promise |-> promise, late |-> FALSE]]

Is(o, classes, label) == op[o].class \in classes /\ op[o].at = label
OpGoto(o, label) == op' = [op EXCEPT ![o].at = label]
Invoke(o, label) == op' = [op EXCEPT ![o].at = label, ![o].calls = @ + 1]

(* start() has returned: the caller has the handle.                        *)
Handle(o) == IF op[o].class \in WithHandle /\ op[o].cancel = "none"
             THEN "held" ELSE op[o].cancel
Started(o, label) == op' = [op EXCEPT ![o].at = label, ![o].cancel = Handle(o)]

Flagged(o) == op[o].class \in Cancellable /\ op[o].cancel \in {"flagged", "posted", "over"}

(* The result is queued; try_mark_invoked lets one of them through.        *)
Mark(o, first, again) ==
  op' = [op EXCEPT ![o].at = IF op[o].marked THEN again ELSE first,
                   ![o].marked = TRUE, ![o].cancel = Handle(o)]

(* The handler is called, the future made ready.                           *)
invoke_success(o) == op[o].at = "deliver" /\ Invoke(o, "got")
invoke_error(o) == op[o].at = "fail" /\ Invoke(o, "done")

-----------------------------------------------------------------------------
(* Boost.Asio: start_wait.  The future's closure moves its promise into    *)
(* the handler of the first wait, so that of a second wait has none; all   *)
(* handlers share it where the closure is a std::function that copies it.  *)
start_wait(o) ==
  /\ Is(o, Asio, "arm")
  /\ op' = [op EXCEPT
       ![o].at = "armed", ![o].cancel = Handle(o),
       ![o].promise = IF op[o].class # "asio_future" \/ @ = "shared" THEN @
                      ELSE IF @ = "closure" THEN "handler" ELSE "gone"]

(* cancel() of a handle, its destructor and its move assignment: the flag  *)
(* first, then the event loop.                                             *)
FlagCancel(o, classes) ==
  /\ op[o].class \in classes /\ op[o].cancel = "held"
  /\ op' = [op EXCEPT ![o].cancel = "flagged"]

AsioCancel(o) ==
  /\ op[o].class \in Asio /\ op[o].cancel = "flagged"
  /\ op' = [op EXCEPT ![o].cancel = "over",
                      ![o].at = IF @ = "armed" THEN "aborted" ELSE @]

PostCancel(o, classes) ==
  /\ op[o].class \in classes /\ op[o].cancel = "flagged"
  /\ op' = [op EXCEPT ![o].cancel = "posted"]

(* What was posted runs between callbacks; it ends an operation whose      *)
(* handler was not told yet.                                               *)
CancelForgotten(o, classes, label) ==   \* mutant: the handler is not told
  /\ op[o].class \in classes /\ op[o].cancel = "posted"
  /\ op[o].at \notin InCallback
  /\ op' = [op EXCEPT ![o].cancel = "over"]

CancelUnmarked(o, classes, label) ==   \* mutant: handler_invoked_ is not looked at
  /\ op[o].class \in classes /\ op[o].cancel = "posted"
  /\ op[o].at \in {"armed", "ready", "unarmed", "done"}
  /\ op' = [op EXCEPT ![o].cancel = "over", ![o].at = IF @ = "done" THEN "fail" ELSE label]

CancelPosted(o, classes, label) ==
  /\ op[o].class \in classes /\ op[o].cancel = "posted"
  /\ op[o].at \notin InCallback
  /\ op' = [op EXCEPT ![o].cancel = "over", ![o].marked = TRUE,
                      ![o].at = IF op[o].marked THEN @ ELSE label]

(* A source that is cancelled does not fire any more.                      *)
Fires(o) == ~(op[o].class \in Dispatch /\ op[o].cancel = "posted")

(* Qt: dup fails, and no notifier is made.  Nobody but the handle has the  *)
(* operation then.                                                         *)
qt_dup_fails(o) ==
  /\ Is(o, Qt, "arm")
  /\ Started(o, IF op[o].class = "qt_cancellable" THEN "unarmed" ELSE "abandon")

-----------------------------------------------------------------------------
(* The operations that may end without a result: Qt's without a handle,    *)
(* when dup fails, and the future of Asio when it was cancelled or when    *)
(* its promise went with an earlier wait.                                  *)
Excused(o) ==
  \/ op[o].class \in {"qt", "qt_future"}
  \/ op[o].class = "asio_future" /\ (op[o].cancel \notin {"none", "held"} \/ op[o].promise = "gone")

(* The handler is called at most once, whoever of callback and cancel()    *)
(* comes first; an operation that is over has called it unless it is one   *)
(* of those excused, and only the future of Asio that lost its promise     *)
(* acquires for nobody.                                                    *)
HandlerOnce == \A o \in Ops :
  /\ op[o].calls <= 1
  /\ op[o].at \in {"got", "done"} => op[o].calls = 1
  /\ op[o].at = "dropped" => Excused(o)
  /\ op[o].at = "leaked" => op[o].class = "asio_future" /\ op[o].promise = "gone"

(* A cancel() is answered: with Qt and libdispatch the handler is called,  *)
(* be it with success, although nothing becomes readable.  (With Asio a    *)
(* cancel() between two waits is lost.)                                    *)
CancelIsAnswered == \A o \in Ops :
  (op[o].class \in {"qt_cancellable", "dispatch_cancellable"} /\ op[o].cancel \in {"flagged", "posted"})
     ~> op[o].calls = 1

===============================================================================
