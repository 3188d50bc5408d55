------------------------ MODULE ParkingAutoResetEvent ------------------------
(***************************************************************************)
(* parking_auto_reset_event<Policies...>: one signed word `state_`, 1 for  *)
(* a stored token, minus the number of waiters otherwise.  A waiter notes  *)
(* the value its own fetch_sub produced (its slot) and returns once the    *)
(* word is above it.  One action per atomic operation on the word.         *)
(*                                                                         *)
(* A behaviour has one `usage` out of Usages: which threads wait, whether  *)
(* with deadlines too, and the policy of the event.                        *)
(*                                                                         *)
(* Two history variables, `signals` and `wakeups`, count the tokens ever   *)
(* delivered (a signal on a set event delivers none) and the waits that    *)
(* ever succeeded.  MaxSignals bounds the first.                           *)
(***************************************************************************)
EXTENDS Integers, FiniteSets

CONSTANTS
  Threads,
  InitiallySet,    \* the constructor's argument
  MaxSignals,      \* bound on the tokens ever delivered
  Usages           \* see below

ASSUME EventThreads == IsFiniteSet(Threads)
ASSUME EventParameters == InitiallySet \in BOOLEAN /\ MaxSignals \in Nat
ASSUME EventUsages ==
  Usages \subseteq [waiting : SUBSET Threads,   \* callers of wait, try_wait_until
                    backoff : BOOLEAN,          \* policy with_backoff
                    deadlines : BOOLEAN]        \* is try_wait_until called?

VARIABLES
  usage,
  state,       \* the word state_
  cur,         \* per thread: its local `s` or `cur`
  my_slot,     \* per thread: its local `my_slot`
  mode,        \* per thread: the call it is in, "try", "wait" or "until"
  signals, wakeups,
  pc

vars == <<usage, state, cur, my_slot, mode, signals, wakeups, pc>>

(* "signal": before the exchange of signal; "notify": before its notify;   *)
(* "spin": before the load of a try_wait under backoff; "try": before the  *)
(* exchange of try_wait; "subtract": before fetch_sub; "load": has a slot, *)
(* before a load; "wait", "asleep", "expired": in atomic_wait(_until),     *)
(* before, inside and after the kernel; "lastLook", "giveUp": timed out,   *)
(* before the load and before the fetch_add.                               *)
Slotted == {"load", "wait", "asleep", "expired", "lastLook", "giveUp"}
Blocking == {"spin", "subtract"} \cup Slotted
Labels == {"idle", "signal", "notify", "try"} \cup Blocking
Modes == {"try", "wait", "until"}

At(t, label) == pc[t] = label
Goto(t, label) == pc' = [pc EXCEPT ![t] = label]
Read(t) == cur' = [cur EXCEPT ![t] = state]

(* The call of t returns with a token.                                     *)
Succeed(t) == wakeups' = wakeups + 1 /\ Goto(t, "idle")

Init ==
  /\ usage \in Usages
  /\ state = IF InitiallySet THEN 1 ELSE 0
  /\ cur = [t \in Threads |-> 0]
  /\ my_slot = [t \in Threads |-> 0]
  /\ mode = [t \in Threads |-> "try"]
  /\ signals = state
  /\ wakeups = 0
  /\ pc = [t \in Threads |-> "idle"]

-----------------------------------------------------------------------------
(* signal: nothing to do on a set event, otherwise add one and wake        *)
(* everybody if there were waiters.                                        *)
signal(t) ==
  /\ At(t, "idle")
  /\ state < 1 /\ signals < MaxSignals
  /\ Read(t)
  /\ Goto(t, "signal")
  /\ UNCHANGED <<usage, state, my_slot, mode, signals, wakeups>>

signal_exchange_last(t) ==   \* mutant: wakes only when no waiter is left
  /\ At(t, "signal")
  /\ state = cur[t]
  /\ state' = cur[t] + 1
  /\ signals' = signals + 1
  /\ Goto(t, IF cur[t] = -1 THEN "notify" ELSE "idle")
  /\ UNCHANGED <<usage, cur, my_slot, mode, wakeups>>

signal_exchange(t) ==
  /\ At(t, "signal")
  /\ state = cur[t]
  /\ state' = cur[t] + 1
  /\ signals' = signals + 1
  /\ Goto(t, IF cur[t] < 0 THEN "notify" ELSE "idle")
  /\ UNCHANGED <<usage, cur, my_slot, mode, wakeups>>

signal_retry(t) ==
  /\ At(t, "signal")
  /\ Read(t)
  /\ Goto(t, IF state >= 1 THEN "idle" ELSE "signal")
  /\ UNCHANGED <<usage, state, my_slot, mode, signals, wakeups>>

notify_all(t) ==
  /\ At(t, "notify")
  /\ pc' = [u \in Threads |-> IF u = t THEN "idle"
                              ELSE IF At(u, "asleep") THEN "wait" ELSE pc[u]]
  /\ UNCHANGED <<usage, state, cur, my_slot, mode, signals, wakeups>>

(* try_wait, alone or as the first step of try_wait_until.  Finding no     *)
(* token, the former returns false and the others go on to subtract.       *)
NoToken(t) == Goto(t, IF mode'[t] = "try" THEN "idle" ELSE "subtract")

try_wait(t) ==
  /\ At(t, "idle")
  /\ \E m \in {"try"} \cup (IF usage.deadlines /\ t \in usage.waiting THEN {"until"} ELSE {}) :
       mode' = [mode EXCEPT ![t] = m]
  /\ Read(t)
  /\ IF state > 0 THEN Goto(t, "try") ELSE NoToken(t)
  /\ UNCHANGED <<usage, state, my_slot, signals, wakeups>>

try_take(t) ==
  /\ At(t, "try")
  /\ state = cur[t]
  /\ state' = cur[t] - 1
  /\ Succeed(t)
  /\ UNCHANGED <<usage, cur, my_slot, mode, signals>>

try_retry(t) ==
  /\ At(t, "try")
  /\ Read(t)
  /\ UNCHANGED mode
  /\ IF state > 0 THEN UNCHANGED pc ELSE NoToken(t)
  /\ UNCHANGED <<usage, state, my_slot, signals, wakeups>>

(* wait: under backoff try_wait is repeated first; an attempt that finds   *)
(* no token changes nothing, so only the last of those is a step.          *)
wait(t) ==
  /\ At(t, "idle") /\ t \in usage.waiting
  /\ mode' = [mode EXCEPT ![t] = "wait"]
  /\ Goto(t, IF usage.backoff THEN "spin" ELSE "subtract")
  /\ UNCHANGED <<usage, state, cur, my_slot, signals, wakeups>>

spin(t) ==
  /\ At(t, "spin")
  /\ Read(t)
  /\ Goto(t, IF state > 0 THEN "try" ELSE "subtract")
  /\ UNCHANGED <<usage, state, my_slot, mode, signals, wakeups>>

subtract(t) ==
  /\ At(t, "subtract")
  /\ state' = state - 1
  /\ IF state > 0
     THEN Succeed(t) /\ UNCHANGED my_slot
     ELSE /\ my_slot' = [my_slot EXCEPT ![t] = state - 1]
          /\ Goto(t, "load")
          /\ UNCHANGED wakeups
  /\ UNCHANGED <<usage, cur, mode, signals>>

load_state_off_by_one(t) ==   \* mutant: while ( cur < my_slot )
  /\ At(t, "load")
  /\ Read(t)
  /\ IF state >= my_slot[t] THEN Succeed(t) ELSE Goto(t, "wait") /\ UNCHANGED wakeups
  /\ UNCHANGED <<usage, state, my_slot, mode, signals>>

load_state(t) ==
  /\ At(t, "load")
  /\ Read(t)
  /\ IF state > my_slot[t] THEN Succeed(t) ELSE Goto(t, "wait") /\ UNCHANGED wakeups
  /\ UNCHANGED <<usage, state, my_slot, mode, signals>>

futex_sleep_blindly(t) ==   \* mutant: sleeps without comparing the word
  /\ At(t, "wait")
  /\ Goto(t, "asleep")
  /\ UNCHANGED <<usage, state, cur, my_slot, mode, signals, wakeups>>

futex_sleep(t) ==
  /\ At(t, "wait")
  /\ state = cur[t]
  /\ Goto(t, "asleep")
  /\ UNCHANGED <<usage, state, cur, my_slot, mode, signals, wakeups>>

wait_returns(t) ==
  /\ At(t, "wait")
  /\ state # cur[t]
  /\ Goto(t, "load")
  /\ UNCHANGED <<usage, state, cur, my_slot, mode, signals, wakeups>>

spurious_wakeup(t) ==
  /\ At(t, "asleep")
  /\ Goto(t, "wait")
  /\ UNCHANGED <<usage, state, cur, my_slot, mode, signals, wakeups>>

deadline_passes(t) ==
  /\ mode[t] = "until"
  /\ At(t, "asleep") \/ (At(t, "wait") /\ state = cur[t])
  /\ Goto(t, "expired")
  /\ UNCHANGED <<usage, state, cur, my_slot, mode, signals, wakeups>>

wait_until_returns(t) ==
  /\ At(t, "expired")
  /\ Goto(t, IF state # cur[t] THEN "load" ELSE "lastLook")
  /\ UNCHANGED <<usage, state, cur, my_slot, mode, signals, wakeups>>

(* try_wait_until after a timeout: succeed if the word is above the slot   *)
(* by now, otherwise add the subtracted one again and fail.                *)
last_look(t) ==
  /\ At(t, "lastLook")
  /\ Read(t)
  /\ IF state > my_slot[t] THEN Succeed(t) ELSE Goto(t, "giveUp") /\ UNCHANGED wakeups
  /\ UNCHANGED <<usage, state, my_slot, mode, signals>>

give_up_silently(t) ==   \* mutant: the slot is not returned
  /\ At(t, "giveUp")
  /\ Goto(t, "idle")
  /\ UNCHANGED <<usage, state, cur, my_slot, mode, signals, wakeups>>

give_up(t) ==
  /\ At(t, "giveUp")
  /\ state' = state + 1
  /\ Goto(t, "idle")
  /\ UNCHANGED <<usage, cur, my_slot, mode, signals, wakeups>>

-----------------------------------------------------------------------------
Progress(t) ==
  \/ signal_exchange(t) \/ notify_all(t) \/ try_take(t)
  \/ spin(t) \/ subtract(t) \/ load_state(t) \/ futex_sleep(t) \/ wait_returns(t)
  \/ wait_until_returns(t) \/ last_look(t) \/ give_up(t)

Retry(t) == signal_retry(t) \/ try_retry(t)

Next == \E t \in Threads :
  \/ signal(t) \/ try_wait(t) \/ wait(t)
  \/ spurious_wakeup(t) \/ deadline_passes(t)
  \/ Progress(t) \/ Retry(t)

Spec == Init /\ [][Next]_vars

(* A thread inside the library runs; a weak exchange on a matching word    *)
(* eventually succeeds.  Calls and deadlines are not obliged to happen.    *)
FairSpec ==
  /\ Spec
  /\ \A t \in Threads :
       /\ WF_vars(Progress(t))
       /\ WF_vars(state # cur[t] /\ Retry(t))

-----------------------------------------------------------------------------
(* At most one token is stored.  (With deadlines two can be: a signal that *)
(* serves a waiter about to give up, another one, then the slot returned.) *)
TypeOK ==
  /\ usage \in Usages
  /\ state \in Int /\ (usage.deadlines \/ state <= 1)
  /\ cur \in [Threads -> Int]
  /\ my_slot \in [Threads -> Int]
  /\ mode \in [Threads -> Modes]
  /\ signals \in Nat /\ wakeups \in Nat
  /\ pc \in [Threads -> Labels]

Waiters == {t \in Threads : pc[t] \in Slotted}
Tokens == signals - wakeups

(* The word is exact: the tokens delivered and not consumed, minus the     *)
(* threads that hold a slot.                                               *)
StateIsExact == TypeOK /\ state = Tokens - Cardinality(Waiters)

(* "Each signal() delivers exactly one token": no wait succeeds without a  *)
(* token of its own, although a waiter decides by comparing the word with  *)
(* an old value of it and slots are reused.                                *)
NoPhantomWakeup == wakeups <= signals

(* A waiter asleep below the word, which may return, has a notify coming.  *)
NoLostWakeup ==
  \A t \in Threads : At(t, "asleep") /\ state > my_slot[t] =>
    \E u \in Threads : At(u, "notify")

(* The clients' view: tokens are put in one at a time and consumed once.   *)
Abstract == INSTANCE AbstractSemaphore
  WITH tokens <- Tokens, waiting <- {t \in Threads : pc[t] \in Blocking},
       InitialTokens <- IF InitiallySet THEN 1 ELSE 0, ReleaseSizes <- {1}

(* Every behaviour of the word is one of tokens delivered and consumed one *)
(* by one, although a waiter decides by comparing the word with an old     *)
(* value of it and slots are reused.                                       *)
ImplementsTokens == Abstract!SemaphoreSpec

(* "If a thread is blocked in wait(), it is woken and the token is         *)
(* consumed", where one thread waits among any number that signal and try: *)
(* a delivered token is eventually consumed.                               *)
TokenIsTakenByOne == Cardinality(usage.waiting) = 1 => Abstract!SFairness

=============================================================================
