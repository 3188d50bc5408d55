--------------------- MODULE ParkingManualResetEventProofs ---------------------
(***************************************************************************)
(* Proofs, for any set of threads, either initial state and any policies,  *)
(* of the safety invariants of ParkingManualResetEvent.  TypeOK and        *)
(* NoLostWakeup together are inductive: a signal notifies exactly if the   *)
(* word it replaced was 0, so the wakeup argument needs to know that the   *)
(* word is 0 or 1.                                                         *)
(***************************************************************************)
EXTENDS ParkingManualResetEvent, TLAPS

Inv == TypeOK /\ NoLostWakeup

\* A new event has nobody asleep on it.
THEOREM InitInv == Init => Inv
  BY ManualEventParameters DEF Init, Inv, TypeOK, NoLostWakeup, At, Labels, Waiting

\* Every step of signal, reset and the waits keeps the types; a functor that
\* never asks for a round of backoff never counts one.
LEMMA StepType == Inv /\ [Next]_vars => TypeOK'
<1> SUFFICES ASSUME Inv, [Next]_vars PROVE TypeOK'
  OBVIOUS
<1> USE ManualEventParameters DEF Inv, TypeOK, Labels, Waiting, At, Goto
<1>1. CASE UNCHANGED vars
  BY <1>1 DEF vars
<1>2. ASSUME NEW t \in Threads, signal(t) \/ reset(t) PROVE TypeOK'
  BY <1>2 DEF signal, reset
<1>3. ASSUME NEW t \in Threads, wait(t) \/ try_wait_until(t) PROVE TypeOK'
  <2>1. \E l \in Labels : Goto(t, l)
    BY <1>3 DEF wait, try_wait_until
  <2>2. timed' \in [Threads -> BOOLEAN]
    BY <1>3 DEF wait, try_wait_until
  <2>3. backoff' \in [Threads -> 0 .. SpinLimit] /\ UNCHANGED <<use_backoff, state>>
    BY <1>3 DEF wait, try_wait_until
  <2>4. QED
    BY <2>1, <2>2, <2>3
<1>4. ASSUME NEW t \in Threads, spin(t) PROVE TypeOK'
  BY <1>4 DEF spin, AfterAttempt
<1>5. ASSUME NEW t \in Threads,
             \/ load_state(t) \/ futex_sleep(t) \/ wait_returns(t) \/ spurious_wakeup(t)
             \/ deadline_passes(t) \/ wait_until_returns(t)
      PROVE  TypeOK'
  BY <1>5 DEF load_state, futex_sleep, wait_returns, spurious_wakeup, deadline_passes,
              wait_until_returns
<1>6. ASSUME NEW t \in Threads, notify_all(t) PROVE TypeOK'
  BY <1>6 DEF notify_all
<1>7. QED
  BY <1>1, <1>2, <1>3, <1>4, <1>5, <1>6 DEF Next, Progress

\* A thread that moves, on a word that stays, from a label that owes nobody a
\* notify to one that does not sleep, takes no wakeup away.
LEMMA QuietMove ==
  ASSUME Inv, NEW t \in Threads, NEW l \in Labels, Goto(t, l),
         state' = state, pc[t] # "notify", l # "asleep"
  PROVE  NoLostWakeup'
<1> SUFFICES ASSUME state = 1, NEW s \in Threads, pc'[s] = "asleep"
             PROVE  \E u \in Threads : pc'[u] = "notify"
  BY DEF NoLostWakeup, At
<1>1. pc[s] = "asleep"
  BY DEF Goto, Inv, TypeOK
<1>2. PICK u \in Threads : pc[u] = "notify"
  BY <1>1 DEF Inv, NoLostWakeup, At
<1>3. pc'[u] = "notify"
  BY <1>2 DEF Goto, Inv, TypeOK
<1>4. QED
  BY <1>3

\* Every step keeps the wakeup promise.
LEMMA StepWakeup == Inv /\ [Next]_vars => NoLostWakeup'
<1> SUFFICES ASSUME Inv, [Next]_vars PROVE NoLostWakeup'
  OBVIOUS
<1> USE DEF Labels, Waiting, At
<1>1. CASE UNCHANGED vars
  BY <1>1 DEF vars, Inv, NoLostWakeup
<1>2. ASSUME NEW t \in Threads, signal(t) PROVE NoLostWakeup'
  <2>1. CASE state = 0
    <3>1. pc'[t] = "notify"
      BY <1>2, <2>1 DEF signal, Goto, Inv, TypeOK
    <3>2. QED
      BY <3>1 DEF NoLostWakeup
  <2>2. CASE state = 1
    <3>1. Goto(t, "idle") /\ state' = state /\ pc[t] = "idle"
      BY <1>2, <2>2 DEF signal
    <3>2. QED
      BY <3>1, QuietMove
  <2>3. QED
    BY <2>1, <2>2 DEF Inv, TypeOK
<1>3. ASSUME NEW t \in Threads, reset(t) PROVE NoLostWakeup'
  BY <1>3 DEF reset, NoLostWakeup
<1>4. ASSUME NEW t \in Threads, futex_sleep(t) PROVE NoLostWakeup'
  BY <1>4 DEF futex_sleep, NoLostWakeup
<1>5. ASSUME NEW t \in Threads, notify_all(t) PROVE NoLostWakeup'
  BY <1>5 DEF notify_all, NoLostWakeup
<1>6. ASSUME NEW t \in Threads,
             \/ wait(t) \/ try_wait_until(t) \/ spin(t) \/ load_state(t) \/ wait_returns(t)
             \/ spurious_wakeup(t) \/ deadline_passes(t) \/ wait_until_returns(t)
      PROVE  NoLostWakeup'
  <2>1. \E l \in Labels : Goto(t, l) /\ l # "asleep"
    BY <1>6 DEF wait, try_wait_until, spin, load_state, wait_returns, spurious_wakeup,
                deadline_passes, wait_until_returns
  <2>2. state' = state /\ pc[t] # "notify"
    BY <1>6 DEF wait, try_wait_until, spin, load_state, wait_returns, spurious_wakeup,
                deadline_passes, wait_until_returns
  <2>3. QED
    BY <2>1, <2>2, QuietMove
<1>7. QED
  BY <1>1, <1>2, <1>3, <1>4, <1>5, <1>6 DEF Next, Progress

\* The word is 0 or 1 and every local variable keeps its type, whatever
\* signals, resets and waits do.
THEOREM TypeCorrect == Spec => []TypeOK
<1>1. Inv /\ [Next]_vars => Inv'
  BY StepType, StepWakeup DEF Inv
<1>2. Inv => TypeOK
  BY DEF Inv
<1>3. QED
  BY <1>1, <1>2, InitInv, PTL DEF Spec

\* No thread stays asleep on a set event without a notify on its way,
\* although only the signal that changed the word notifies and resets come in
\* between.
THEOREM WakeupKept == Spec => []NoLostWakeup
<1>1. Inv /\ [Next]_vars => Inv'
  BY StepType, StepWakeup DEF Inv
<1>2. Inv => NoLostWakeup
  BY DEF Inv
<1>3. QED
  BY <1>1, <1>2, InitInv, PTL DEF Spec

================================================================================
