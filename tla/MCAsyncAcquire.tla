---------------------------- MODULE MCAsyncAcquire ----------------------------
(* TLC instances of AsyncAcquire.                                            *)
EXTENDS AsyncAcquire, TLC

CONSTANTS t1, t2, t3, o1, o2

AllThreads == {t1, t2, t3}
AllOps == {o1, o2}

ByThreads(kind, n) ==
  [kind |-> kind, threads |-> n, timed |-> {t1, t2, t3}, ops |-> <<>>,
   signals |-> kind # "simple_kqueue"]
WithOps(kind, timed, class1, class2) ==
  [kind |-> kind, threads |-> {t1}, timed |-> timed, ops |-> (o1 :> class1 @@ o2 :> class2),
   signals |-> kind # "simple_kqueue"]

ThreadSetups == {ByThreads(k, AllThreads) :
                   k \in {"fast_eventfd", "fast_kqueue", "simple_eventfd", "simple_kqueue"}}

OpSetups ==
  {WithOps("fast_eventfd", {}, "asio_cancellable", "asio"),
   WithOps("fast_eventfd", {}, "qt_cancellable", "qt_future"),
   WithOps("fast_kqueue", {}, "dispatch_cancellable", "dispatch"),
   WithOps("fast_kqueue", {t1}, "asio", "qt"),
   WithOps("fast_kqueue", {}, "dispatch_future", "dispatch_cancellable"),
   WithOps("fast_kqueue", {}, "asio_future", "qt"),
   WithOps("simple_eventfd", {}, "asio_cancellable", "qt_cancellable"),
   WithOps("simple_kqueue", {}, "dispatch_cancellable", "qt_cancellable")}

AllSetups == ThreadSetups \cup OpSetups
OneAsioOp == {[kind |-> "fast_eventfd", threads |-> {t1}, timed |-> {}, ops |-> (o1 :> "asio"),
              signals |-> FALSE]}
\* A signal, or the timer of t1, while others lock.
SimpleDisturbed == {[kind |-> "simple_kqueue", threads |-> AllThreads, timed |-> {t1}, ops |-> <<>>,
                     signals |-> s] : s \in BOOLEAN}
FastKqueue == {"fast_kqueue"}
SimpleKqueue == {"simple_kqueue"}

===============================================================================
