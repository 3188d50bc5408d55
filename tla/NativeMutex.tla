----------------------------- MODULE NativeMutex -----------------------------
(***************************************************************************)
(* The mutexes that wait on a descriptor of the kernel: eventfd_mutex and  *)
(* kqueue_mutex, each without backoff (the descriptor alone is the lock)   *)
(* and with it (a word as in parking_mutex: bit 0 locked, bits 1-31        *)
(* registered waiters, and the descriptor wakes them).                     *)
(*                                                                         *)
(* External: an eventfd in semaphore mode is a counter; poll returns while *)
(* it is positive, read takes one, MaxTokens is its limit (2^64 - 2), and  *)
(* a write at the limit or a read of 0 fails, which the code ignores.  A   *)
(* user event of a kqueue with EV_CLEAR is a flag that kevent takes as it  *)
(* returns.  A kqueue also holds the one timer that try_lock_until puts    *)
(* there for the system clock, and any kevent may take that event.  A      *)
(* signal may interrupt a wait; the code tries again but for the kevent of *)
(* the two lock functions, whose result it ignores.                        *)
(*                                                                         *)
(* A loop of weak exchanges that ends when the word is locked or when an   *)
(* exchange succeeds is one action; so is every other atomic operation on  *)
(* the word and every system call.                                         *)
(***************************************************************************)
EXTENDS Integers, FiniteSets

CONSTANTS
  Threads,
  Setups,        \* records: the kind of mutex, who uses it, and whether
                 \* signals are delivered to its threads
  SystemClock,   \* the kinds whose users give deadlines on the system clock
  MaxTokens

ASSUME NativeMutexParameters ==
  /\ IsFiniteSet(Threads) /\ MaxTokens \in Nat \ {0}
  /\ \A u \in Setups : /\ u.threads \subseteq Threads /\ u.timed \subseteq u.threads
                       /\ u.signals \in BOOLEAN

VARIABLES
  setup,      \* the member of Setups in force, fixed
  state,      \* the word state_ of the variants with backoff
  event,      \* the counter of evfd_, or the flag of the user event of kqfd_
  timer,      \* the timer of kqfd_ is set
  call,       \* per thread: the call it is in
  pc

wordVars == <<state, event>>
threadVars == <<timer, call, pc>>

(* "spin": the phase under backoff; "register": before add_async_waiter;   *)
(* "look": before a look at the word, or before the read of the variant    *)
(* without one; "poll": in poll or kevent; "drain": it returned, before    *)
(* consume_lock; "took": owns the lock, before its consume_lock;           *)
(* "lastTry": before the try_lock of a call that ran out of time; "leave", *)
(* "leaveOwning": before the guard's remove_async_waiter; "cs": owns the   *)
(* lock; "post": in unlock, before the system call.                        *)
Labels == {"idle", "spin", "register", "look", "poll", "drain", "took", "lastTry",
           "leave", "leaveOwning", "cs", "post"}
Owning == {"took", "leaveOwning", "cs"}
Blocking == {"spin", "register", "look", "poll", "drain", "lastTry", "leave"}
Calls == {"lock", "for", "until", "untilSystem"}

Fast == setup.kind \in {"fast_eventfd", "fast_kqueue"}
Kqueue == setup.kind \in {"simple_kqueue", "fast_kqueue"}

Locked(word) == word % 2 = 1

At(t, label) == pc[t] = label
Enter(t, c, label) ==
  pc' = [pc EXCEPT ![t] = label] /\ call' = [call EXCEPT ![t] = c]
Goto(t, label) ==   \* the call matters until the wait is over
  Enter(t, IF label \in {"spin", "register", "look", "poll", "drain"} THEN call[t] ELSE "lock", label)

Init ==
  /\ setup \in Setups
  /\ state = 0
  /\ event = IF Fast THEN 0 ELSE 1
  /\ timer = FALSE
  /\ call = [t \in Threads |-> "lock"]
  /\ pc = [t \in Threads |-> "idle"]

-----------------------------------------------------------------------------
(* The system calls.                                                       *)
WriteOne == event' = IF Kqueue THEN 1 ELSE IF event < MaxTokens THEN event + 1 ELSE event
ReadOne == event' = IF event > 0 THEN event - 1 ELSE 0
ConsumeLock == \/ ReadOne /\ UNCHANGED timer
               \/ timer /\ timer' = FALSE /\ UNCHANGED event

(* try_lock: the lock bit, or the read of the descriptor.                  *)
Free == IF Fast THEN ~Locked(state) ELSE event > 0
TakeWord == state' = state + 1 /\ UNCHANGED event
Take == IF Fast THEN TakeWord ELSE ReadOne /\ UNCHANGED state

(* try_lock that succeeds, alone, as the first exchange of lock, or as the *)
(* first step of a timed call; one that fails changes nothing.             *)
try_lock(t) ==
  /\ At(t, "idle")
  /\ Free
  /\ Take
  /\ Goto(t, "cs")
  /\ UNCHANGED timer

(* lock of a variant with backoff, when its first exchange fails.          *)
lock(t) ==
  /\ At(t, "idle") /\ Fast
  /\ Enter(t, "lock", "spin")
  /\ UNCHANGED <<state, event, timer>>

simple_eventfd_lock(t) ==
  /\ At(t, "idle") /\ setup.kind = "simple_eventfd"
  /\ Enter(t, "lock", "look")
  /\ UNCHANGED <<state, event, timer>>

simple_kqueue_lock(t) ==
  /\ At(t, "idle") /\ setup.kind = "simple_kqueue"
  /\ Enter(t, "lock", "poll")
  /\ UNCHANGED <<state, event, timer>>

(* The timed calls, after their first try_lock (the eventfd_mutex with     *)
(* backoff has none in try_lock_for).                                      *)
Timed(t, kind) == At(t, "idle") /\ t \in setup.timed /\ setup.kind = kind
Wait(t, c) == Enter(t, c, "poll") /\ timer' = (timer \/ c = "untilSystem")

fast_eventfd_try_lock_for(t) ==
  /\ Timed(t, "fast_eventfd")
  /\ Enter(t, "for", "register")
  /\ UNCHANGED <<state, event, timer>>

fast_eventfd_try_lock_until(t) ==
  /\ Timed(t, "fast_eventfd") /\ ~Free
  /\ Enter(t, "until", "spin")
  /\ UNCHANGED <<state, event, timer>>

fast_kqueue_try_lock_for(t) ==
  /\ Timed(t, "fast_kqueue") /\ state # 0
  /\ Enter(t, "for", "register")
  /\ UNCHANGED <<state, event, timer>>

(* A deadline of the system clock is a timer in the kqueue, one of the     *)
(* steady clock the timeout of kevent.                                     *)
Until == IF setup.kind \in SystemClock THEN "untilSystem" ELSE "until"

fast_kqueue_try_lock_until(t) ==
  /\ Timed(t, "fast_kqueue") /\ ~Free
  /\ Enter(t, Until, "register")
  /\ UNCHANGED <<state, event, timer>>

simple_eventfd_try_lock_for(t) ==
  /\ Timed(t, "simple_eventfd") /\ ~Free
  /\ Wait(t, "for")
  /\ UNCHANGED wordVars

simple_eventfd_try_lock_until(t) ==
  /\ Timed(t, "simple_eventfd") /\ ~Free
  /\ Wait(t, "until")
  /\ UNCHANGED wordVars

simple_kqueue_try_lock_for(t) ==
  /\ Timed(t, "simple_kqueue") /\ ~Free
  /\ Wait(t, "for")
  /\ UNCHANGED wordVars

simple_kqueue_try_lock_until(t) ==
  /\ Timed(t, "simple_kqueue") /\ ~Free
  /\ Wait(t, Until)
  /\ UNCHANGED wordVars

(* The functor keeps the word of the first load while that is locked, so   *)
(* spinning on a locked word ends with the backoff used up.                *)
spin(t) ==
  /\ At(t, "spin")
  /\ IF Free THEN Take /\ Goto(t, "cs")
             ELSE Goto(t, "register") /\ UNCHANGED wordVars
  /\ UNCHANGED timer

(* add_async_waiter returns the word it produced.                          *)
add_async_waiter(t) ==
  /\ At(t, "register")
  /\ state' = state + 2
  /\ IF Locked(state) THEN Wait(t, call[t]) ELSE Goto(t, "look") /\ UNCHANGED timer
  /\ UNCHANGED event

(* A free word is taken and the registration dropped in one exchange.      *)
TakeRegisteredUnchecked ==   \* mutant: the lock bit is not tested
  state' = (IF Locked(state) THEN state - 2 ELSE state - 1) /\ UNCHANGED event

TakeRegistered == ~Locked(state) /\ state' = (state - 2) + 1 /\ UNCHANGED event

look(t) ==
  /\ At(t, "look")
  /\ \/ Fast /\ TakeRegistered /\ Goto(t, "took") /\ UNCHANGED timer
     \/ ~Fast /\ Free /\ Take /\ Goto(t, "cs") /\ UNCHANGED timer
     \/ ~Free /\ Wait(t, call[t]) /\ UNCHANGED wordVars

consume_lock(t) ==
  /\ At(t, "took")
  /\ ConsumeLock
  /\ Goto(t, "cs")
  /\ UNCHANGED state

(* poll leaves the token there; kevent takes it.                           *)
fast_poll_returns(t) ==
  /\ At(t, "poll") /\ setup.kind = "fast_eventfd"
  /\ event > 0
  /\ Goto(t, "drain")
  /\ UNCHANGED <<state, event, timer>>

simple_poll_returns(t) ==
  /\ At(t, "poll") /\ setup.kind = "simple_eventfd"
  /\ event > 0
  /\ Goto(t, "look")
  /\ UNCHANGED <<state, event, timer>>

(* The kevent of a deadline on the system clock waits for ident 1.  The    *)
(* event of the mutex with backoff has ident 2 and passes for the timer.   *)
(* The timer is deleted in any case.                                       *)
AfterKevent(t) ==
  CASE setup.kind = "simple_kqueue" -> "cs"
    [] Fast /\ call[t] = "untilSystem" -> "lastTry"
    [] Fast /\ call[t] = "lock" -> "look"
    [] OTHER -> "drain"

kevent_returns(t) ==
  /\ At(t, "poll") /\ Kqueue
  /\ event > 0
  /\ ReadOne
  /\ Goto(t, AfterKevent(t))
  /\ timer' = (timer /\ call[t] # "untilSystem")
  /\ UNCHANGED state

(* A signal ends the kevent of lock without an event.  With backoff the    *)
(* word is looked at again; without, lock returns.                         *)
kevent_interrupted(t) ==
  /\ At(t, "poll") /\ Kqueue
  /\ setup.signals /\ call[t] = "lock"
  /\ Goto(t, AfterKevent(t))
  /\ UNCHANGED <<state, event, timer>>

(* The timer of one call goes off, and the kevent of another may take it;  *)
(* without backoff that of try_lock, too.                                  *)
timer_taken(t) ==
  /\ timer
  /\ At(t, "poll") \/ (setup.kind = "simple_kqueue" /\ pc[t] \in {"idle", "lastTry"})
  /\ timer' = FALSE
  /\ Goto(t, IF call[t] = "untilSystem" THEN "lastTry" ELSE AfterKevent(t))
  /\ UNCHANGED wordVars

drain(t) ==
  /\ At(t, "drain")
  /\ ConsumeLock
  /\ Goto(t, "look")
  /\ UNCHANGED state

(* The deadline passes, with a token there or not.  try_lock_for of a      *)
(* variant with backoff fails, all others try once more.                   *)
deadline_passes(t) ==
  /\ At(t, "poll")
  /\ call[t] \in {"for", "until"}
  /\ Goto(t, IF Fast /\ call[t] = "for" THEN "leave" ELSE "lastTry")
  /\ UNCHANGED <<state, event, timer>>

last_try(t) ==
  /\ At(t, "lastTry")
  /\ IF Free THEN Take /\ Goto(t, IF Fast THEN "leaveOwning" ELSE "cs")
             ELSE Goto(t, IF Fast THEN "leave" ELSE "idle") /\ UNCHANGED wordVars
  /\ UNCHANGED timer

(* The guard's destructor.                                                 *)
remove_async_waiter(t) ==
  /\ pc[t] \in {"leave", "leaveOwning"}
  /\ state' = state - 2
  /\ Goto(t, IF At(t, "leave") THEN "idle" ELSE "cs")
  /\ UNCHANGED <<event, timer>>

(* unlock: write the descriptor; with a word, clear the lock bit first and *)
(* write only if waiters are registered.                                   *)
Notifies == Fast /\ state > 1
Release == IF Fast THEN state' = state - 1 /\ UNCHANGED event
                   ELSE WriteOne /\ UNCHANGED state

unlock(t) ==
  /\ At(t, "cs")
  /\ Release
  /\ Goto(t, IF Notifies THEN "post" ELSE "idle")
  /\ UNCHANGED timer

post(t) ==
  /\ At(t, "post")
  /\ WriteOne
  /\ Goto(t, "idle")
  /\ UNCHANGED <<state, timer>>

-----------------------------------------------------------------------------
Progress(t) ==
  \/ spin(t) \/ add_async_waiter(t) \/ look(t) \/ consume_lock(t)
  \/ fast_poll_returns(t) \/ simple_poll_returns(t) \/ kevent_returns(t)
  \/ drain(t) \/ last_try(t) \/ remove_async_waiter(t) \/ unlock(t) \/ post(t)

Request(t) ==
  \/ try_lock(t) \/ lock(t) \/ simple_eventfd_lock(t) \/ simple_kqueue_lock(t)
  \/ fast_eventfd_try_lock_for(t) \/ fast_eventfd_try_lock_until(t)
  \/ fast_kqueue_try_lock_for(t) \/ fast_kqueue_try_lock_until(t)
  \/ simple_eventfd_try_lock_for(t) \/ simple_eventfd_try_lock_until(t)
  \/ simple_kqueue_try_lock_for(t) \/ simple_kqueue_try_lock_until(t)

Next == \E t \in setup.threads :
  \/ Request(t) \/ Progress(t)
  \/ deadline_passes(t) \/ timer_taken(t) \/ kevent_interrupted(t)

Owners == {t \in Threads : pc[t] \in Owning}
Waiters == {t \in Threads : Fast /\ pc[t] \in {"look", "poll", "drain", "lastTry",
                                               "leave", "leaveOwning"}}

TypeOK ==
  /\ setup \in Setups
  /\ state \in Nat /\ event \in 0 .. MaxTokens /\ timer \in BOOLEAN
  /\ call \in [Threads -> Calls]
  /\ pc \in [Threads -> Labels]

==============================================================================
