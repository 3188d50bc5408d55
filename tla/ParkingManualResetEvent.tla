----------------------- MODULE ParkingManualResetEvent -----------------------
(***************************************************************************)
(* parking_manual_reset_event<Policies...>: one word `state_`, 0 or 1, and *)
(* the futex wait queue of its address.  One action per atomic operation   *)
(* on the word; try_wait is a load that changes nothing.                   *)
(***************************************************************************)
EXTENDS Integers, FiniteSets

CONSTANTS
  Threads,
  InitiallySet,   \* the constructor's argument
  Backoffs,       \* values of use_backoff: the policies considered
  SpinLimit       \* rounds of backoff before the spinning ends

ASSUME ManualEventParameters ==
  /\ IsFiniteSet(Threads)
  /\ InitiallySet \in BOOLEAN /\ Backoffs \subseteq BOOLEAN
  /\ SpinLimit \in Nat \ {0}

VARIABLES
  use_backoff,   \* the policy, fixed for a behaviour
  state,      \* the word state_
  backoff,    \* per thread: rounds of backoff done so far
  timed,      \* per thread: inside try_wait_until rather than wait
  pc

vars == <<use_backoff, state, backoff, timed, pc>>

(* "notify": in signal, before the notify; "spin": wait under backoff;     *)
(* "load": before the load of the waiting loop (or the first look);        *)
(* "wait", "asleep": in atomic_wait(_until), before and inside the kernel; *)
(* "expired": the wait timed out, before the last load.                    *)
Waiting == {"spin", "load", "wait", "asleep", "expired"}
Labels == {"idle", "notify"} \cup Waiting

At(t, label) == pc[t] = label
Goto(t, label) == pc' = [pc EXCEPT ![t] = label]

Init ==
  /\ use_backoff \in Backoffs
  /\ state = IF InitiallySet THEN 1 ELSE 0
  /\ backoff = [t \in Threads |-> 0]
  /\ timed = [t \in Threads |-> FALSE]
  /\ pc = [t \in Threads |-> "idle"]

(* run_with_exponential_backoff_until: only the result "retry" uses up a   *)
(* round of backoff.                                                       *)
AfterAttempt(result, rounds) == IF result = "retry" THEN rounds + 1 ELSE rounds

-----------------------------------------------------------------------------
signal_counts(t) ==   \* mutant: adds one instead of storing one
  /\ At(t, "idle")
  /\ state' = state + 1
  /\ Goto(t, IF state = 0 THEN "notify" ELSE "idle")
  /\ UNCHANGED <<use_backoff, backoff, timed>>

(* signal: exchange 1; the call that changed the word wakes everybody.     *)
signal(t) ==
  /\ At(t, "idle")
  /\ state' = 1
  /\ Goto(t, IF state = 0 THEN "notify" ELSE "idle")
  /\ UNCHANGED <<use_backoff, backoff, timed>>

notify_one(t) ==   \* mutant: wakes a single sleeper
  /\ At(t, "notify")
  /\ LET sleepers == {u \in Threads : At(u, "asleep")} IN
     IF sleepers = {}
     THEN Goto(t, "idle")
     ELSE \E w \in sleepers : pc' = [pc EXCEPT ![t] = "idle", ![w] = "wait"]
  /\ UNCHANGED <<use_backoff, state, backoff, timed>>

notify_all(t) ==
  /\ At(t, "notify")
  /\ pc' = [u \in Threads |-> IF u = t THEN "idle"
                              ELSE IF At(u, "asleep") THEN "wait" ELSE pc[u]]
  /\ UNCHANGED <<use_backoff, state, backoff, timed>>

(* reset: a plain store.                                                   *)
reset(t) ==
  /\ At(t, "idle")
  /\ state' = 0
  /\ UNCHANGED <<use_backoff, backoff, timed, pc>>

(* wait and try_wait_until.                                                *)
wait(t) ==
  /\ At(t, "idle")
  /\ timed' = [timed EXCEPT ![t] = FALSE]
  /\ backoff' = [backoff EXCEPT ![t] = 0]
  /\ Goto(t, IF use_backoff THEN "spin" ELSE "load")
  /\ UNCHANGED <<use_backoff, state>>

try_wait_until(t) ==
  /\ At(t, "idle")
  /\ timed' = [timed EXCEPT ![t] = TRUE]
  /\ Goto(t, "load")
  /\ UNCHANGED <<use_backoff, state, backoff>>

(* The spinning functor: on an event that is not set its result is         *)
(* "retry_without_backoff".                                                *)
spin(t) ==
  /\ At(t, "spin")
  /\ IF state # 0
     THEN Goto(t, "idle") /\ UNCHANGED backoff
     ELSE LET rounds == AfterAttempt("retry_without_backoff", backoff[t]) IN
          /\ backoff' = [backoff EXCEPT ![t] = rounds]
          /\ Goto(t, IF rounds < SpinLimit THEN "spin" ELSE "load")
  /\ UNCHANGED <<use_backoff, state, timed>>

load_state(t) ==
  /\ At(t, "load")
  /\ Goto(t, IF state # 0 THEN "idle" ELSE "wait")
  /\ UNCHANGED <<use_backoff, state, backoff, timed>>

futex_sleep_blindly(t) ==   \* mutant: sleeps without comparing the word
  /\ At(t, "wait")
  /\ Goto(t, "asleep")
  /\ UNCHANGED <<use_backoff, state, backoff, timed>>

futex_sleep(t) ==
  /\ At(t, "wait")
  /\ state = 0
  /\ Goto(t, "asleep")
  /\ UNCHANGED <<use_backoff, state, backoff, timed>>

wait_returns(t) ==
  /\ At(t, "wait")
  /\ state # 0
  /\ Goto(t, "load")
  /\ UNCHANGED <<use_backoff, state, backoff, timed>>

spurious_wakeup(t) ==
  /\ At(t, "asleep")
  /\ Goto(t, "wait")
  /\ UNCHANGED <<use_backoff, state, backoff, timed>>

(* The deadline passes; the result of the wait is still "changed" if the   *)
(* word is set when it looks, and one more load decides the call.  Each of *)
(* those loads returns true or goes on, so the last one stands for both.   *)
deadline_passes(t) ==
  /\ timed[t]
  /\ At(t, "asleep") \/ (At(t, "wait") /\ state = 0)
  /\ Goto(t, "expired")
  /\ UNCHANGED <<use_backoff, state, backoff, timed>>

wait_until_returns(t) ==
  /\ At(t, "expired")
  /\ Goto(t, IF state # 0 THEN "load" ELSE "idle")
  /\ UNCHANGED <<use_backoff, state, backoff, timed>>

-----------------------------------------------------------------------------
Progress(t) ==
  \/ notify_all(t) \/ spin(t) \/ load_state(t) \/ futex_sleep(t)
  \/ wait_returns(t) \/ wait_until_returns(t)

Next == \E t \in Threads :
  \/ signal(t) \/ reset(t) \/ wait(t) \/ try_wait_until(t)
  \/ spurious_wakeup(t) \/ deadline_passes(t)
  \/ Progress(t)

Spec == Init /\ [][Next]_vars

(* A thread inside the library runs; nobody is obliged to signal.          *)
FairSpec == Spec /\ \A t \in Threads : WF_vars(Progress(t))

-----------------------------------------------------------------------------
TypeOK ==
  /\ use_backoff \in Backoffs
  /\ state \in {0, 1}
  /\ backoff \in [Threads -> 0 .. SpinLimit]
  /\ timed \in [Threads -> BOOLEAN]
  /\ pc \in [Threads -> Labels]

(* A thread asleep on an event that is set has a notify coming, although   *)
(* only the signal that changed the word notifies and resets come between. *)
NoLostWakeup ==
  (state = 1 /\ \E t \in Threads : At(t, "asleep")) => \E u \in Threads : At(u, "notify")

(* An event that stays set releases every waiter, whatever signals and     *)
(* resets came before.                                                     *)
SetEventReleasesAll ==
  <>[](state = 1) => \A t \in Threads : []<>(pc[t] \notin Waiting)

=============================================================================
