-------------------------- MODULE AbstractFifoMutex --------------------------
(***************************************************************************)
(* What ticket_mutex promises its clients: lock() callers queue in the     *)
(* order in which they asked and are granted the lock in that order;       *)
(* try_lock succeeds only when nobody owns the lock or waits for it.       *)
(***************************************************************************)
EXTENDS Integers, Sequences

CONSTANT Threads

VARIABLES
  queue,     \* the owner and the lock() callers behind it, oldest first
  holders    \* the threads that own the lock

qvars == <<queue, holders>>

QInit == queue = <<>> /\ holders = {}

QEnqueue(t) ==
  /\ \A i \in 1..Len(queue) : queue[i] # t
  /\ queue' = Append(queue, t)
  /\ UNCHANGED holders

QGrant ==
  /\ queue # <<>> /\ holders = {}
  /\ holders' = {Head(queue)}
  /\ UNCHANGED queue

QTryAcquire(t) ==
  /\ queue = <<>> /\ holders = {}
  /\ queue' = <<t>>
  /\ holders' = {t}

QRelease ==
  /\ queue # <<>> /\ holders = {Head(queue)}
  /\ queue' = Tail(queue)
  /\ holders' = {}

QNext == QGrant \/ QRelease \/ \E t \in Threads : QEnqueue(t) \/ QTryAcquire(t)

FifoSpec == QInit /\ [][QNext]_qvars

=============================================================================
