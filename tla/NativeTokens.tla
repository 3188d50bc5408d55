----------------------------- MODULE NativeTokens -----------------------------
(***************************************************************************)
(* The semaphores and events that rest on an object of the operating       *)
(* system: eventfd_semaphore, kqueue_semaphore, the wrappers of the POSIX, *)
(* Mach, libdispatch and Win32 semaphores, native_auto_reset_event and     *)
(* native_manual_reset_event (their Linux and Apple branches).  One action *)
(* per atomic operation and per system call; a loop of weak exchanges is   *)
(* one action.                                                             *)
(*                                                                         *)
(* External: an eventfd is a counter, in semaphore mode (all but that of   *)
(* the manual event) read takes one; a user event of a kqueue is a flag,   *)
(* which kevent takes if it has EV_CLEAR (all but that of the manual       *)
(* event); a semaphore of the system is a counter.                         *)
(*                                                                         *)
(* Counters are never at their limits: calls that give a token need fewer  *)
(* than MaxOwed outstanding ones, and the kqueue semaphore lends no more   *)
(* than MaxOwed.  Deadlines are those of the steady clock, which need no   *)
(* timer in the kqueue (NativeMutex has the other ones).  A signal that    *)
(* interrupts a system call matters only where the code does not repeat    *)
(* the call.                                                               *)
(***************************************************************************)
EXTENDS Integers, FiniteSets

CONSTANTS
  Threads,
  Setups,         \* records: the kind of object, who uses it, by which calls
  ReleaseSizes,   \* the arguments of release
  MaxOwed

VARIABLES
  setup,      \* the member of Setups in force, fixed
  count,      \* count_ of kqueue_semaphore, token_count_ of the auto event
  event,      \* the counter or flag of the system; -1: a deleted user event
  waiters,    \* wait_count_ of the auto event
  owed,       \* tokens given and not yet taken; for the manual event 1 iff a
              \* signal is in force that no reset overlapped or followed (history)
  left,       \* per thread: iterations left of the loop in release
  call,       \* per thread: the call it is in
  pc

objectVars == <<count, event, waiters>>
threadVars == <<left, call, pc>>

OsSemaphores == {"posix_semaphore", "mach_semaphore", "dispatch_semaphore", "win32_semaphore"}
Semaphores == OsSemaphores \cup {"eventfd_semaphore", "kqueue_semaphore"}
AutoEvents == {"auto_eventfd", "auto_kqueue"}
ManualEvents == {"manual_eventfd", "manual_kqueue"}

ASSUME NativeTokensParameters ==
  /\ IsFiniteSet(Threads) /\ MaxOwed \in Nat /\ ReleaseSizes \subseteq Nat
  /\ \A u \in Setups : /\ u.kind \in Semaphores \cup AutoEvents \cup ManualEvents
                       /\ u.threads \subseteq Threads

Counted == setup.kind \in {"kqueue_semaphore", "auto_kqueue"}

(* "notify", "posting": in the loop of release; "probe" to "trigger": in   *)
(* signal, before the probe of the descriptor, the exchange, the increment *)
(* and the system call; "drain": in the loop of reset; "readd": between    *)
(* its two calls; "count": before wait_count_ is raised; "look": before a  *)
(* try_wait; "poll": in poll or kevent; "lastTry": before the last         *)
(* try_wait of a timed call; "chain" to "chainTrigger": took a token,      *)
(* before the loads of the count and of wait_count_ and before the trigger *)
(* for others;                                                             *)
(* "uncount", "uncountFailed": before wait_count_ is lowered; "claimed":   *)
(* the kqueue semaphore's kevent, the count is lowered already;            *)
(* "renotify": before the trigger for the next one; "unclaim": it ran out  *)
(* of time; "late": before it takes the trigger sent to it.                *)
Labels == {"idle", "notify", "posting", "probe", "write", "exchange", "increment", "trigger",
           "drain", "readd", "count", "look", "poll", "lastTry", "chain",
           "chainCount", "chainTrigger", "uncount", "uncountFailed",
           "claimed", "renotify", "unclaim", "late"}
Calls == {"try", "wait", "for", "until"}

At(t, label) == pc[t] = label
Enter(t, c, label) == pc' = [pc EXCEPT ![t] = label] /\ call' = [call EXCEPT ![t] = c]
Goto(t, label) == Enter(t, IF label = "idle" THEN "wait" ELSE call[t], label)
Use(t, c, kinds) == At(t, "idle") /\ setup.kind \in kinds /\ c \in setup.calls
Give(n) == owed + n <= MaxOwed /\ owed' = owed + n
MayGive == owed < MaxOwed
Took == owed' = IF setup.kind \in ManualEvents THEN owed ELSE owed - 1

Init ==
  /\ setup \in Setups
  /\ count = 0 /\ event = 0 /\ waiters = 0 /\ owed = 0
  /\ left = [t \in Threads |-> 0]
  /\ call = [t \in Threads |-> "wait"]
  /\ pc = [t \in Threads |-> "idle"]

(* try_acquire and try_wait.                                               *)
Available == IF Counted THEN count ELSE event
TakeOne ==
  /\ count' = IF Counted THEN count - 1 ELSE count
  /\ event' = IF Counted \/ setup.kind \in ManualEvents THEN event ELSE event - 1
  /\ UNCHANGED waiters

try_wait(t) ==
  /\ Use(t, "try", Semaphores \cup AutoEvents \cup ManualEvents)
  /\ Available > 0
  /\ TakeOne /\ Took
  /\ UNCHANGED threadVars

-----------------------------------------------------------------------------
(* release(n).                                                             *)
eventfd_release(t, n) ==
  /\ At(t, "idle") /\ setup.kind = "eventfd_semaphore"
  /\ Give(n)
  /\ event' = event + n
  /\ UNCHANGED <<count, waiters, threadVars>>

win32_release(t, n) ==
  /\ At(t, "idle") /\ setup.kind = "win32_semaphore"
  /\ Give(n)
  /\ event' = event + n
  /\ UNCHANGED <<count, waiters, threadVars>>

(* A loop of n iterations.                                                 *)
Loop(t, n, label) ==
  /\ left' = [left EXCEPT ![t] = n]
  /\ Enter(t, "wait", IF n = 0 THEN "idle" ELSE label)

Posting(t, n, kind) ==
  /\ At(t, "idle") /\ setup.kind = kind
  /\ Give(n)
  /\ Loop(t, n, "posting")
  /\ UNCHANGED objectVars

posix_release(t, n) == Posting(t, n, "posix_semaphore")
mach_release(t, n) == Posting(t, n, "mach_semaphore")
dispatch_release(t, n) == Posting(t, n, "dispatch_semaphore")

Iterate(t) ==
  /\ left' = [left EXCEPT ![t] = @ - 1]
  /\ Goto(t, IF left[t] = 1 THEN "idle" ELSE pc[t])

semaphore_post(t) ==
  /\ At(t, "posting")
  /\ event' = event + 1
  /\ Iterate(t)
  /\ UNCHANGED <<count, waiters, owed>>

kqueue_release(t, n) ==
  /\ At(t, "idle") /\ setup.kind = "kqueue_semaphore"
  /\ Give(n)
  /\ count' = count + n
  /\ Loop(t, IF count >= 0 THEN 1 ELSE IF n < -count THEN n ELSE -count, "notify")
  /\ UNCHANGED <<event, waiters>>

notify(t) ==
  /\ At(t, "notify")
  /\ event' = 1
  /\ Iterate(t)
  /\ UNCHANGED <<count, waiters, owed>>

-----------------------------------------------------------------------------
(* eventfd_semaphore::acquire and the timed forms.                         *)
eventfd_acquire(t) ==
  /\ Use(t, "wait", {"eventfd_semaphore"})
  /\ Enter(t, "wait", "look")
  /\ UNCHANGED <<objectVars, owed, left>>

eventfd_try_acquire_for(t) ==
  /\ Use(t, "for", {"eventfd_semaphore"})
  /\ Enter(t, "for", "look")
  /\ UNCHANGED <<objectVars, owed, left>>

eventfd_try_acquire_until(t) ==
  /\ Use(t, "until", {"eventfd_semaphore"})
  /\ Enter(t, "until", "look")
  /\ UNCHANGED <<objectVars, owed, left>>

(* The semaphores of the system: one call that takes a token or times out. *)
Block(t, c, kind) ==
  /\ Use(t, c, {kind})
  /\ Enter(t, c, "poll")
  /\ UNCHANGED <<objectVars, owed, left>>

posix_acquire(t) == Block(t, "wait", "posix_semaphore")
posix_try_acquire_until_system(t) == Block(t, "until", "posix_semaphore")
mach_acquire(t) == Block(t, "wait", "mach_semaphore")
mach_timed_wait(t) == Block(t, "until", "mach_semaphore")
dispatch_acquire(t) == Block(t, "wait", "dispatch_semaphore")
dispatch_try_acquire_for(t) == Block(t, "until", "dispatch_semaphore")
win32_acquire(t) == Block(t, "wait", "win32_semaphore")
win32_try_acquire_until(t) == Block(t, "until", "win32_semaphore")

os_acquires(t) ==
  /\ At(t, "poll") /\ setup.kind \in OsSemaphores
  /\ event > 0
  /\ TakeOne /\ Took
  /\ Goto(t, "idle")
  /\ UNCHANGED left

(* kqueue_semaphore: acquire and try_acquire_for lower the count and then  *)
(* wait for a trigger, whoever it was meant for; try_acquire_until takes   *)
(* from the count only after its kevent.                                   *)
Claim(t, c) ==
  /\ Use(t, c, {"kqueue_semaphore"}) /\ owed + MaxOwed > 0
  /\ count' = count - 1
  /\ IF count > 0 THEN Took /\ UNCHANGED <<call, pc>>
                  ELSE Enter(t, c, "claimed") /\ UNCHANGED owed
  /\ UNCHANGED <<event, waiters, left>>

kqueue_acquire(t) == Claim(t, "wait")
kqueue_try_acquire_for(t) == Claim(t, "for")

kqueue_try_acquire_until(t) ==
  /\ Use(t, "until", {"kqueue_semaphore"})
  /\ Enter(t, "until", "look")
  /\ UNCHANGED <<objectVars, owed, left>>

claim_granted(t) ==
  /\ At(t, "claimed")
  /\ event > 0
  /\ event' = 0
  /\ Took
  /\ Goto(t, IF call[t] = "wait" THEN "renotify" ELSE "idle")
  /\ UNCHANGED <<count, waiters, left>>

renotify(t) ==
  /\ At(t, "renotify")
  /\ event' = 1
  /\ Goto(t, "idle")
  /\ UNCHANGED <<count, waiters, owed, left>>

claim_expires(t) ==
  /\ At(t, "claimed") /\ call[t] = "for"
  /\ Goto(t, "unclaim")
  /\ UNCHANGED <<objectVars, owed, left>>

unclaim(t) ==
  /\ At(t, "unclaim")
  /\ count' = count + 1
  /\ IF count >= 0 THEN Took /\ Goto(t, "late") ELSE Goto(t, "idle") /\ UNCHANGED owed
  /\ UNCHANGED <<event, waiters, left>>

take_late(t) ==
  /\ At(t, "late")
  /\ event' = 0
  /\ Goto(t, "idle")
  /\ UNCHANGED <<count, waiters, owed, left>>

-----------------------------------------------------------------------------
(* native_auto_reset_event on Linux.  signal probes for a stored token,    *)
(* unless a thread is in wait(); timed waits are not counted.  Two signals *)
(* that both find none store two.                                          *)
auto_signal_linux(t) ==
  /\ At(t, "idle") /\ setup.kind = "auto_eventfd" /\ MayGive
  /\ Enter(t, "wait", IF waiters = 0 THEN "probe" ELSE "write")
  /\ UNCHANGED <<objectVars, owed, left>>

auto_probe(t) ==
  /\ At(t, "probe") /\ setup.kind = "auto_eventfd"
  /\ Goto(t, IF event > 0 THEN "idle" ELSE "write")
  /\ UNCHANGED <<objectVars, owed, left>>

auto_write(t) ==
  /\ At(t, "write") /\ setup.kind = "auto_eventfd"
  /\ event' = event + 1 /\ owed' = owed + 1
  /\ Goto(t, "idle")
  /\ UNCHANGED <<count, waiters, left>>

auto_wait_linux(t) ==
  /\ Use(t, "wait", {"auto_eventfd"})
  /\ waiters' = waiters + 1
  /\ Enter(t, "wait", "look")
  /\ UNCHANGED <<count, event, owed, left>>

auto_try_wait_for_linux(t) ==
  /\ Use(t, "for", {"auto_eventfd"})
  /\ Enter(t, "for", "poll")
  /\ UNCHANGED <<objectVars, owed, left>>

(* The same on Apple.  A trigger is sent for the first token only; who     *)
(* takes one after it was counted as a waiter triggers for the next.       *)
auto_signal_apple(t) ==
  /\ At(t, "idle") /\ setup.kind = "auto_kqueue" /\ MayGive
  /\ Enter(t, "wait", IF waiters = 0 THEN "exchange" ELSE "increment")
  /\ UNCHANGED <<objectVars, owed, left>>

auto_exchange(t) ==
  /\ At(t, "exchange")
  /\ IF count = 0 THEN count' = 1 /\ owed' = owed + 1 /\ Goto(t, "trigger")
                  ELSE UNCHANGED <<count, owed>> /\ Goto(t, "idle")
  /\ UNCHANGED <<event, waiters, left>>

auto_increment(t) ==
  /\ At(t, "increment")
  /\ count' = count + 1 /\ owed' = owed + 1
  /\ Goto(t, IF count = 0 THEN "trigger" ELSE "idle")
  /\ UNCHANGED <<event, waiters, left>>

trigger(t) ==
  /\ At(t, "trigger")
  /\ event' = 1
  /\ Goto(t, "idle")
  /\ UNCHANGED <<count, waiters, owed, left>>

auto_wait_apple(t) ==
  /\ Use(t, "wait", {"auto_kqueue"}) /\ count = 0
  /\ Enter(t, "wait", "count")
  /\ UNCHANGED <<objectVars, owed, left>>

auto_try_wait_for_apple(t) ==
  /\ Use(t, "for", {"auto_kqueue"}) /\ count = 0
  /\ Enter(t, "for", "count")
  /\ UNCHANGED <<objectVars, owed, left>>

raise_wait_count(t) ==
  /\ At(t, "count")
  /\ waiters' = waiters + 1
  /\ Goto(t, "look")
  /\ UNCHANGED <<count, event, owed, left>>

chain_forgotten(t) ==   \* mutant: no trigger for the tokens that remain
  /\ At(t, "chain")
  /\ Goto(t, "uncount")
  /\ UNCHANGED <<objectVars, owed, left>>

chain_wakeup(t) ==
  /\ At(t, "chain")
  /\ Goto(t, IF count > 0 THEN "chainCount" ELSE "uncount")
  /\ UNCHANGED <<objectVars, owed, left>>

chain_count(t) ==
  /\ At(t, "chainCount")
  /\ Goto(t, IF waiters > 1 THEN "chainTrigger" ELSE "uncount")
  /\ UNCHANGED <<objectVars, owed, left>>

chain_trigger(t) ==
  /\ At(t, "chainTrigger")
  /\ event' = 1
  /\ Goto(t, "uncount")
  /\ UNCHANGED <<count, waiters, owed, left>>

lower_wait_count(t) ==
  /\ pc[t] \in {"uncount", "uncountFailed"}
  /\ waiters' = waiters - 1
  /\ Goto(t, "idle")
  /\ UNCHANGED <<count, event, owed, left>>

-----------------------------------------------------------------------------
(* native_manual_reset_event.                                              *)
ResetRuns == \E u \in Threads : pc[u] \in {"drain", "readd"}
InForce == owed' = IF ResetRuns THEN owed ELSE 1

signal_coalesced(t) ==   \* mutant: left to a signal that has yet to write
  /\ At(t, "idle") /\ setup.kind = "manual_eventfd"
  /\ IF event > 0 \/ \E u \in Threads : At(u, "write")
     THEN InForce /\ UNCHANGED <<call, pc>>
     ELSE Enter(t, "wait", "write") /\ UNCHANGED owed
  /\ UNCHANGED <<objectVars, left>>

manual_signal_linux(t) ==
  /\ At(t, "idle") /\ setup.kind = "manual_eventfd"
  /\ IF event > 0 THEN InForce /\ UNCHANGED <<call, pc>>
                  ELSE Enter(t, "wait", "write") /\ UNCHANGED owed
  /\ UNCHANGED <<objectVars, left>>

(* Signals that find it unset at the same time all write.  The loop of     *)
(* reset reads until nothing is left.                                      *)
manual_write(t) ==
  /\ At(t, "write") /\ setup.kind = "manual_eventfd"
  /\ event' = event + 1
  /\ InForce
  /\ Goto(t, "idle")
  /\ UNCHANGED <<count, waiters, left>>

manual_reset_linux(t) ==
  /\ At(t, "idle") /\ setup.kind = "manual_eventfd"
  /\ owed' = 0
  /\ Enter(t, "wait", "drain")
  /\ UNCHANGED <<objectVars, left>>

manual_drain(t) ==
  /\ At(t, "drain")
  /\ event' = 0
  /\ Goto(t, IF event > 0 THEN "drain" ELSE "idle")
  /\ UNCHANGED <<count, waiters, owed, left>>

(* A trigger between the two calls of reset meets no event.                *)
manual_signal_apple(t) ==
  /\ At(t, "idle") /\ setup.kind = "manual_kqueue"
  /\ event' = IF event = -1 THEN -1 ELSE 1
  /\ InForce
  /\ UNCHANGED <<count, waiters, threadVars>>

manual_reset_apple(t) ==
  /\ At(t, "idle") /\ setup.kind = "manual_kqueue"
  /\ event' = -1 /\ owed' = 0
  /\ Enter(t, "wait", "readd")
  /\ UNCHANGED <<count, waiters, left>>

manual_readd(t) ==
  /\ At(t, "readd")
  /\ event' = IF event = -1 THEN 0 ELSE event
  /\ Goto(t, "idle")
  /\ UNCHANGED <<count, waiters, owed, left>>

manual_wait(t) ==
  /\ Use(t, "wait", ManualEvents)
  /\ Enter(t, "wait", "look")
  /\ UNCHANGED <<objectVars, owed, left>>

manual_try_wait_for(t) ==
  /\ Use(t, "for", ManualEvents)
  /\ Enter(t, "for", "poll")
  /\ UNCHANGED <<objectVars, owed, left>>

(* try_wait_until believes the poll and does not look again.               *)
manual_try_wait_until(t) ==
  /\ Use(t, "until", ManualEvents)
  /\ Enter(t, "until", "poll")
  /\ UNCHANGED <<objectVars, owed, left>>

-----------------------------------------------------------------------------
(* The loop around try_wait.                                               *)
AfterTake(t) == CASE setup.kind = "auto_eventfd" /\ call[t] = "wait" -> "uncount"
                  [] setup.kind = "auto_kqueue" -> "chain"
                  [] OTHER -> "idle"
AfterFailure == IF setup.kind = "auto_kqueue" THEN "uncountFailed" ELSE "idle"

look_unchecked(t) ==   \* mutant: after a poll the token is taken for granted
  /\ At(t, "look")
  /\ TakeOne /\ Took /\ Goto(t, AfterTake(t))
  /\ UNCHANGED left

look(t) ==
  /\ At(t, "look")
  /\ IF Available > 0 THEN TakeOne /\ Took /\ Goto(t, AfterTake(t))
                      ELSE Goto(t, "poll") /\ UNCHANGED <<objectVars, owed>>
  /\ UNCHANGED left

(* poll and kevent; the latter takes an EV_CLEAR trigger.  The timed waits *)
(* of the events look once more and give up.                               *)
AfterPoll(t) ==
  CASE call[t] = "for" /\ setup.kind # "eventfd_semaphore" -> "lastTry"
    [] call[t] = "until" /\ setup.kind \in ManualEvents -> "idle"
    [] OTHER -> "look"

poll_again(t) ==   \* mutant: a readable eventfd is polled again, not read
  /\ At(t, "poll") /\ setup.kind \notin OsSemaphores
  /\ event > 0
  /\ event' = IF Counted THEN 0 ELSE event
  /\ Goto(t, IF Counted THEN AfterPoll(t) ELSE "poll")
  /\ UNCHANGED <<count, waiters, owed, left>>

poll_returns(t) ==
  /\ At(t, "poll") /\ setup.kind \notin OsSemaphores
  /\ event > 0
  /\ event' = IF Counted THEN 0 ELSE event
  /\ Goto(t, AfterPoll(t))
  /\ UNCHANGED <<count, waiters, owed, left>>

(* wait() of the Apple event ignores what kevent returns, and so looks     *)
(* again after a signal that interrupts it; the other calls are repeated.  *)
kevent_interrupted(t) ==
  /\ At(t, "poll") /\ setup.kind = "auto_kqueue" /\ call[t] = "wait"
  /\ Goto(t, "look")
  /\ UNCHANGED <<objectVars, owed, left>>

(* The deadline passes.  The descriptor may be readable: the time left is  *)
(* looked at before every call.  The semaphores try once more; those of    *)
(* the system time out only when there is nothing to take.                 *)
deadline_passes(t) ==
  /\ At(t, "poll") /\ call[t] \in {"for", "until"}
  /\ setup.kind \in OsSemaphores => event <= 0
  /\ Goto(t, IF setup.kind \in {"eventfd_semaphore", "kqueue_semaphore"}
             THEN "lastTry" ELSE AfterFailure)
  /\ UNCHANGED <<objectVars, owed, left>>

last_try(t) ==
  /\ At(t, "lastTry")
  /\ IF Available > 0 THEN TakeOne /\ Took /\ Goto(t, AfterTake(t))
                      ELSE Goto(t, AfterFailure) /\ UNCHANGED <<objectVars, owed>>
  /\ UNCHANGED left

-----------------------------------------------------------------------------
Progress(t) ==
  \/ semaphore_post(t) \/ notify(t) \/ os_acquires(t)
  \/ claim_granted(t) \/ renotify(t) \/ unclaim(t) \/ take_late(t)
  \/ auto_probe(t) \/ auto_write(t) \/ auto_exchange(t) \/ auto_increment(t) \/ trigger(t)
  \/ raise_wait_count(t) \/ chain_wakeup(t) \/ chain_count(t) \/ chain_trigger(t)
  \/ lower_wait_count(t)
  \/ manual_write(t) \/ manual_drain(t) \/ manual_readd(t)
  \/ look(t) \/ poll_returns(t) \/ last_try(t)

Giving(t) ==
  \/ \E n \in ReleaseSizes :
       \/ eventfd_release(t, n) \/ kqueue_release(t, n) \/ posix_release(t, n)
       \/ mach_release(t, n) \/ dispatch_release(t, n) \/ win32_release(t, n)
  \/ auto_signal_linux(t) \/ auto_signal_apple(t)
  \/ manual_signal_linux(t) \/ manual_reset_linux(t)
  \/ manual_signal_apple(t) \/ manual_reset_apple(t)

Waiting(t) ==
  \/ try_wait(t)
  \/ eventfd_acquire(t) \/ eventfd_try_acquire_for(t) \/ eventfd_try_acquire_until(t)
  \/ kqueue_acquire(t) \/ kqueue_try_acquire_for(t) \/ kqueue_try_acquire_until(t)
  \/ posix_acquire(t) \/ posix_try_acquire_until_system(t) \/ mach_acquire(t)
  \/ mach_timed_wait(t) \/ dispatch_acquire(t) \/ dispatch_try_acquire_for(t)
  \/ win32_acquire(t) \/ win32_try_acquire_until(t)
  \/ auto_wait_linux(t) \/ auto_try_wait_for_linux(t)
  \/ auto_wait_apple(t) \/ auto_try_wait_for_apple(t)
  \/ manual_wait(t) \/ manual_try_wait_for(t) \/ manual_try_wait_until(t)

Next == \E t \in setup.threads :
  \/ Giving(t) \/ Waiting(t) \/ Progress(t)
  \/ deadline_passes(t) \/ claim_expires(t) \/ kevent_interrupted(t)

TypeOK ==
  /\ setup \in Setups
  /\ count \in Int /\ event \in Int /\ waiters \in Nat /\ owed \in Int
  /\ left \in [Threads -> Nat]
  /\ call \in [Threads -> Calls]
  /\ pc \in [Threads -> Labels]

===============================================================================
