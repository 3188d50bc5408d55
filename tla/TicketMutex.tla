----------------------------- MODULE TicketMutex -----------------------------
(***************************************************************************)
(* ticket_mutex<Policies...>: two 32-bit words that wrap around, the       *)
(* ticket being served and the next one to hand out, and the futex wait    *)
(* queue of the serving word.  One action per atomic operation.            *)
(*                                                                         *)
(* The words count modulo Modulus (2^32 in the code).  try_lock reads one  *)
(* word and then exchanges the other, so it is only right while fewer      *)
(* than about Modulus tickets are handed out in between.  The bound        *)
(* MaxWindow states that assumption; `age` counts, for a thread between    *)
(* the read and the exchange, the tickets handed out since.                *)
(*                                                                         *)
(* Policy with_backoff only repeats the check of the serving word before   *)
(* the first sleep; a check that fails changes nothing, so both policies   *)
(* have the same steps.  lock() sleeps in slices of 24 hours.              *)
(***************************************************************************)
EXTENDS Integers, FiniteSets, Sequences

CONSTANTS
  Threads,
  Modulus,     \* number of values of a word
  MaxWindow    \* tickets handed out during one read-exchange pair of try_lock

ASSUME TicketThreads == IsFiniteSet(Threads)
ASSUME TicketBounds ==
  /\ Modulus \in Nat /\ MaxWindow \in Nat
  /\ Cardinality(Threads) < Modulus
  /\ MaxWindow + Cardinality(Threads) <= Modulus

VARIABLES
  serving_ticket, next_ticket,
  my_ticket,   \* per thread: the ticket it drew
  seen,        \* per thread: the value of serving_ticket it last read
  timed,       \* per thread: inside try_lock_until rather than try_lock
  age,         \* per thread: tickets handed out since it read serving_ticket
  pc           \* per thread: the atomic operation it is about to perform

vars == <<serving_ticket, next_ticket, my_ticket, seen, timed, age, pc>>

(* "check": holds a ticket, before a load of serving_ticket; "wait",       *)
(* "asleep": in atomic_wait_for, before and inside the kernel; "try":      *)
(* before the load of try_lock; "exchange": before its exchange; "reload": *)
(* try_lock_until after a failed try_lock; "pause", "napping": in its      *)
(* atomic_wait_until; "cs": owns the lock; "store", "notify": in unlock.   *)
Queued == {"check", "wait", "asleep"}
Timed == {"try", "exchange", "reload", "pause", "napping"}
Owning == {"cs", "store"}
Labels == {"idle", "notify"} \cup Queued \cup Timed \cup Owning

Words == 0 .. Modulus - 1
Succ(w) == IF w = Modulus - 1 THEN 0 ELSE w + 1

At(t, label) == pc[t] = label
Goto(t, label) == pc' = [pc EXCEPT ![t] = label]

(* A local variable that is out of scope, or overwritten before its next   *)
(* use, holds 0.                                                           *)
Read(t) == seen' = [seen EXCEPT ![t] = serving_ticket]
Forget(t) == seen' = [seen EXCEPT ![t] = 0]

Init ==
  /\ serving_ticket = 0 /\ next_ticket = 0
  /\ my_ticket = [t \in Threads |-> 0]
  /\ seen = [t \in Threads |-> 0]
  /\ timed = [t \in Threads |-> FALSE]
  /\ age = [t \in Threads |-> 0]
  /\ pc = [t \in Threads |-> "idle"]

-----------------------------------------------------------------------------
(* Handing out a ticket; the threads inside try_lock's window grow older.  *)
InWindow == {t \in Threads : At(t, "exchange")}

HandOut(t, ticket) ==
  /\ next_ticket' = Succ(next_ticket)
  /\ my_ticket' = [my_ticket EXCEPT ![t] = ticket]
  /\ \A u \in InWindow \ {t} : age[u] < MaxWindow
  /\ age' = [u \in Threads |-> IF u \in InWindow \ {t} THEN age[u] + 1 ELSE 0]

(* lock: draw a ticket, ...                                                *)
lock(t) ==
  /\ At(t, "idle")
  /\ HandOut(t, next_ticket)
  /\ Goto(t, "check")
  /\ UNCHANGED <<serving_ticket, seen, timed>>

(* ... look whether it is served; if not, wait for the word to change.     *)
check_ticket_or_later(t) ==   \* mutant: >= instead of ==, wrong after a wrap
  /\ At(t, "check")
  /\ IF serving_ticket >= my_ticket[t]
     THEN Goto(t, "cs") /\ UNCHANGED seen
     ELSE Goto(t, "wait") /\ Read(t)
  /\ UNCHANGED <<serving_ticket, next_ticket, my_ticket, timed, age>>

check_ticket(t) ==
  /\ At(t, "check")
  /\ IF serving_ticket = my_ticket[t]
     THEN Goto(t, "cs") /\ UNCHANGED seen
     ELSE Goto(t, "wait") /\ Read(t)
  /\ UNCHANGED <<serving_ticket, next_ticket, my_ticket, timed, age>>

futex_sleep_blindly(t) ==   \* mutant: sleeps without comparing the word
  /\ pc[t] \in {"wait", "pause"}
  /\ Goto(t, IF At(t, "wait") THEN "asleep" ELSE "napping")
  /\ UNCHANGED <<serving_ticket, next_ticket, my_ticket, seen, timed, age>>

futex_sleep(t) ==
  /\ pc[t] \in {"wait", "pause"}
  /\ serving_ticket = seen[t]
  /\ Goto(t, IF At(t, "wait") THEN "asleep" ELSE "napping")
  /\ UNCHANGED <<serving_ticket, next_ticket, my_ticket, seen, timed, age>>

Awake(t) == IF pc[t] \in {"wait", "asleep"} THEN "check" ELSE "try"

wait_returns(t) ==
  /\ pc[t] \in {"wait", "pause"}
  /\ serving_ticket # seen[t]
  /\ Goto(t, Awake(t))
  /\ Forget(t)
  /\ UNCHANGED <<serving_ticket, next_ticket, my_ticket, timed, age>>

(* The 24 hours of one slice, or the deadline of a timed waiter, pass.     *)
wait_expires(t) ==
  /\ pc[t] \in {"asleep", "napping"}
  /\ Goto(t, Awake(t))
  /\ Forget(t)
  /\ UNCHANGED <<serving_ticket, next_ticket, my_ticket, timed, age>>

(* try_lock and try_lock_until: read the serving word, ...                 *)
LoadServing(t) ==
  /\ Read(t)
  /\ age' = [age EXCEPT ![t] = 0]
  /\ Goto(t, "exchange")
  /\ UNCHANGED <<serving_ticket, next_ticket, my_ticket>>

try_lock(t) ==
  /\ At(t, "idle")
  /\ timed' = [timed EXCEPT ![t] = FALSE]
  /\ LoadServing(t)

try_lock_until(t) ==
  /\ At(t, "idle")
  /\ timed' = [timed EXCEPT ![t] = TRUE]
  /\ LoadServing(t)

try_lock_again(t) ==
  /\ At(t, "try")
  /\ LoadServing(t)
  /\ UNCHANGED timed

(* ... and draw the ticket of that number if it is the next one.           *)
try_exchange(t) ==
  /\ At(t, "exchange")
  /\ next_ticket = seen[t]
  /\ HandOut(t, seen[t])
  /\ Goto(t, "cs")
  /\ Forget(t)
  /\ UNCHANGED <<serving_ticket, timed>>

try_fails(t) ==
  /\ At(t, "exchange")
  /\ next_ticket # seen[t]
  /\ Goto(t, IF timed[t] THEN "reload" ELSE "idle")
  /\ age' = [age EXCEPT ![t] = 0]
  /\ Forget(t)
  /\ UNCHANGED <<serving_ticket, next_ticket, my_ticket, timed>>

(* try_lock_until: read the serving word once more and wait for it to      *)
(* change, unless the deadline has passed.                                 *)
reload_serving(t) ==
  /\ At(t, "reload")
  /\ Read(t)
  /\ Goto(t, "pause")
  /\ UNCHANGED <<serving_ticket, next_ticket, my_ticket, timed, age>>

timed_out(t) ==
  /\ At(t, "reload")
  /\ Goto(t, "idle")
  /\ UNCHANGED <<serving_ticket, next_ticket, my_ticket, seen, timed, age>>

(* unlock: read the serving word, store its successor, wake every waiter.  *)
unlock(t) ==
  /\ At(t, "cs")
  /\ Read(t)
  /\ Goto(t, "store")
  /\ UNCHANGED <<serving_ticket, next_ticket, my_ticket, timed, age>>

store_serving_newest(t) ==   \* mutant: serves the newest ticket
  /\ At(t, "store")
  /\ serving_ticket' = next_ticket
  /\ Goto(t, "notify")
  /\ my_ticket' = [my_ticket EXCEPT ![t] = 0]
  /\ Forget(t)
  /\ UNCHANGED <<next_ticket, timed, age>>

store_serving(t) ==
  /\ At(t, "store")
  /\ serving_ticket' = Succ(seen[t])
  /\ Goto(t, "notify")
  /\ my_ticket' = [my_ticket EXCEPT ![t] = 0]
  /\ Forget(t)
  /\ UNCHANGED <<next_ticket, timed, age>>

notify_any(t) ==   \* mutant: wakes a single sleeper
  /\ At(t, "notify")
  /\ LET sleepers == {u \in Threads : At(u, "asleep")} IN
     IF sleepers = {}
     THEN Goto(t, "idle")
     ELSE \E w \in sleepers : pc' = [pc EXCEPT ![t] = "idle", ![w] = "wait"]
  /\ UNCHANGED <<serving_ticket, next_ticket, my_ticket, seen, timed, age>>

notify_all(t) ==
  /\ At(t, "notify")
  /\ pc' = [u \in Threads |-> IF u = t THEN "idle"
                              ELSE IF At(u, "asleep") THEN "wait"
                              ELSE IF At(u, "napping") THEN "pause" ELSE pc[u]]
  /\ UNCHANGED <<serving_ticket, next_ticket, my_ticket, seen, timed, age>>

-----------------------------------------------------------------------------
(* What a thread does by itself once it has called the library.            *)
Progress(t) ==
  \/ check_ticket(t) \/ futex_sleep(t) \/ wait_returns(t)
  \/ try_lock_again(t) \/ try_exchange(t) \/ try_fails(t) \/ reload_serving(t)
  \/ unlock(t) \/ store_serving(t) \/ notify_all(t)

Next == \E t \in Threads :
  \/ lock(t) \/ try_lock(t) \/ try_lock_until(t)
  \/ wait_expires(t) \/ timed_out(t) \/ Progress(t)

Spec == Init /\ [][Next]_vars

FairSpec == Spec /\ \A t \in Threads : WF_vars(Progress(t))

-----------------------------------------------------------------------------
TypeOK ==
  /\ serving_ticket \in Words /\ next_ticket \in Words
  /\ my_ticket \in [Threads -> Words]
  /\ seen \in [Threads -> Words]
  /\ timed \in [Threads -> BOOLEAN]
  /\ age \in [Threads -> 0 .. MaxWindow]
  /\ pc \in [Threads -> Labels]

Owners == {t \in Threads : pc[t] \in Owning}
TicketHolders == {t \in Threads : pc[t] \in Queued \cup Owning}

(* How many tickets separate a ticket from the one being served.           *)
Ahead(w) == IF w >= serving_ticket THEN w - serving_ticket
                                   ELSE w - serving_ticket + Modulus

(* The tickets between the two words are held by one thread each and       *)
(* nobody holds another: none is lost, so every ticket is served.          *)
TicketsAreDistinct ==
  /\ TypeOK
  /\ \A t \in TicketHolders : Ahead(my_ticket[t]) < Ahead(next_ticket)
  /\ \A t, u \in TicketHolders : my_ticket[t] = my_ticket[u] => t = u
  /\ Cardinality(TicketHolders) = Ahead(next_ticket)

(* A lock() caller never sleeps on a value of the serving word that is     *)
(* already out of date unless the notify for the change is on its way.     *)
NoLostWakeup ==
  \A t \in Threads :
    pc[t] \in {"asleep", "napping"} /\ seen[t] # serving_ticket =>
      \E u \in Threads : At(u, "notify")

(* The queue the two words stand for.                                      *)
Queue ==
  [i \in 1 .. Ahead(next_ticket) |->
     CHOOSE t \in TicketHolders : Ahead(my_ticket[t]) = i - 1]

Fifo == INSTANCE AbstractFifoMutex WITH queue <- Queue, holders <- Owners

(* Strict FIFO: the lock is granted in the order of the fetch_adds, and    *)
(* try_lock never overtakes a queued thread.                               *)
ImplementsFifo == Fifo!FifoSpec

(* Every lock() call succeeds if the owners unlock, whatever the timed     *)
(* and the trying threads do: a ticket cannot starve.                      *)
NoStarvation == \A t \in Threads : (pc[t] \in Queued) ~> At(t, "cs")

=============================================================================
