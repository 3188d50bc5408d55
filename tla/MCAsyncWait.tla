------------------------------ MODULE MCAsyncWait ------------------------------
(* TLC instances of AsyncWait.                                                *)
EXTENDS AsyncWait, TLC

CONSTANTS t1, t2, t3, o1, o2

AllThreads == {t1, t2, t3}
AllOps == {o1, o2}

ByThreads(kind, threads, calls) ==
  [kind |-> kind, threads |-> threads, calls |-> calls, ops |-> <<>>, move_only |-> TRUE]
WithOps(kind, calls, pair, moveOnly) ==
  [kind |-> kind, threads |-> {t1}, calls |-> calls,
   ops |-> (o1 :> pair[1] @@ o2 :> pair[2]), move_only |-> moveOnly]

ThreadSetups ==
  {ByThreads(k, AllThreads, {"try", "wait", "for"}) : k \in {"auto_eventfd", "auto_kqueue"}}
  \cup {ByThreads(k, AllThreads, {"wait", "for", "until"}) : k \in ManualEvents}
  \cup {ByThreads(k, {t1, t2}, {"wait", "until"}) : k \in OsSemaphores}
  \cup {ByThreads("eventfd_semaphore", {t1, t2}, Calls),
        ByThreads("kqueue_semaphore", {t1, t2}, {"try", "wait"}),
        ByThreads("kqueue_semaphore", {t1, t2}, {"for", "until"})}

Pairs == {<<"asio", "asio_cancellable">>, <<"asio_future", "qt_cancellable">>,
          <<"qt", "qt_future">>, <<"dispatch", "dispatch_cancellable">>,
          <<"dispatch_future", "dispatch_cancellable">>}

OpSetups ==
  {WithOps(k, {"try"}, p, m) :
     k \in {"manual_eventfd", "manual_kqueue", "eventfd_semaphore"}, p \in Pairs, m \in BOOLEAN}
  \cup {WithOps("kqueue_semaphore", {"wait"}, p, m) : p \in Pairs, m \in BOOLEAN}

\* (move_only makes a difference to the future of Asio only.)
AllSetups == ThreadSetups
             \cup {u \in OpSetups : u.move_only \/ \E o \in AllOps : u.ops[o] = "asio_future"}

==============================================================================
