-------------------------- MODULE ParkingMutexProofs --------------------------
(***************************************************************************)
(* Proofs, for any finite set of threads and any policies, of the safety   *)
(* invariants of ParkingMutex.  The inductive invariant is the conjunction *)
(* of these invariants: MutualExclusion needs WordIsExact (a thread        *)
(* acquires only on a word without the lock bit, which must mean that      *)
(* nobody owns the lock), WordIsExact needs MutualExclusion (unlocking     *)
(* clears the bit, which must mean that no owner is left), and             *)
(* NoLostWakeup needs WordIsExact (unlock notifies only if the count says  *)
(* that somebody may sleep).                                               *)
(***************************************************************************)
EXTENDS ParkingMutex, FiniteSetTheorems, TLAPS

Inv == TypeOK /\ MutualExclusion /\ WordIsExact /\ NoLostWakeup

\* The set of registered threads is finite, and gains or loses one thread
\* at a time.
LEMMA WaiterCount ==
  ASSUME NEW t \in Threads
  PROVE  /\ Cardinality(Waiters) \in Nat
         /\ t \in Waiters => Cardinality(Waiters \ {t}) = Cardinality(Waiters) - 1
         /\ t \in Waiters => Cardinality(Waiters) > 0
         /\ t \notin Waiters => Cardinality(Waiters \cup {t}) = Cardinality(Waiters) + 1
<1>1. IsFiniteSet(Waiters)
  BY ThreadsFinite, FS_Subset DEF Waiters
<1>2. Cardinality(Waiters) \in Nat
  BY <1>1, FS_CardinalityType
<1>3. ASSUME t \in Waiters
      PROVE  /\ Cardinality(Waiters \ {t}) = Cardinality(Waiters) - 1
             /\ Cardinality(Waiters) > 0
  <2>1. Cardinality(Waiters \ {t}) = Cardinality(Waiters) - 1
    BY <1>1, <1>3, FS_RemoveElement
  <2>2. Cardinality(Waiters) # 0
    BY <1>1, <1>3, FS_EmptySet
  <2>3. QED
    BY <1>2, <2>1, <2>2
<1>4. t \notin Waiters => Cardinality(Waiters \cup {t}) = Cardinality(Waiters) + 1
  BY <1>1, FS_AddElement
<1>5. QED
  BY <1>2, <1>3, <1>4

\* Reading the word: its parity tells whether somebody owns the lock, and a
\* registered thread finds at least its own registration in it.
LEMMA ReadWord ==
  ASSUME WordIsExact, NEW t \in Threads
  PROVE  /\ state \in Nat
         /\ Locked(state) <=> Holders # {}
         /\ t \in Waiters => state >= 2
         /\ t \in Waiters /\ Holders # {} => state >= 3
<1>1. Cardinality(Waiters) \in Nat /\ (t \in Waiters => Cardinality(Waiters) > 0)
  BY WaiterCount
<1>2. QED
  BY <1>1 DEF WordIsExact, Locked

\* Moving one thread to a new label changes the two sets by that thread only.
LEMMA MoveThread ==
  ASSUME TypeOK, NEW t \in Threads, NEW l \in Labels, Goto(t, l)
  PROVE  /\ pc' \in [Threads -> Labels]
         /\ Waiters' = IF l \in Registered THEN Waiters \cup {t} ELSE Waiters \ {t}
         /\ Holders' = IF l = "cs" THEN Holders \cup {t} ELSE Holders \ {t}
  BY DEF TypeOK, Goto, Waiters, Holders, At

THEOREM InitInv == Init => Inv
<1> SUFFICES ASSUME Init PROVE Inv
  OBVIOUS
<1>1. TypeOK
  BY DEF Init, TypeOK, Labels
<1>2. Waiters = {} /\ Holders = {} /\ Sleepers = {}
  BY DEF Init, Waiters, Holders, Sleepers, At, Registered
<1>3. Cardinality(Waiters) = 0
  BY <1>2, FS_EmptySet
<1>4. QED
  BY <1>1, <1>2, <1>3 DEF Init, Inv, MutualExclusion, WordIsExact, NoLostWakeup

\* A step that leaves the word alone and moves a thread neither into nor out
\* of the owner and the registered threads.
LEMMA QuietMove ==
  ASSUME Inv, NEW t \in Threads, NEW l \in Labels, Goto(t, l),
         state' = state, timed' \in [Threads -> BOOLEAN], expected' \in [Threads -> Nat],
         pc[t] # "cs", l # "cs", pc[t] \in Registered <=> l \in Registered
  PROVE  TypeOK' /\ MutualExclusion' /\ WordIsExact' /\ Waiters' = Waiters /\ Holders' = Holders
<1>1. /\ pc' \in [Threads -> Labels]
      /\ Waiters' = Waiters
      /\ Holders' = Holders
  BY MoveThread DEF Inv, Waiters, Holders, At
<1>2. QED
  BY <1>1 DEF Inv, TypeOK, MutualExclusion, WordIsExact

\* The wakeup promise survives a quiet move that ends awake inside the
\* registered region or that never was there.
LEMMA QuietWakeup ==
  ASSUME Inv, NEW t \in Threads, NEW l \in Labels, Goto(t, l), state' = state,
         \/ l \in {"notify"} \cup (Registered \ {"asleep"})
         \/ pc[t] \notin {"notify"} \cup Registered /\ l # "asleep"
  PROVE  NoLostWakeup'
<1> SUFFICES ASSUME Sleepers' # {}, ~Locked(state)
             PROVE  \E u \in Threads : pc'[u] \in {"notify"} \cup (Registered \ {"asleep"})
  BY DEF NoLostWakeup, Sleepers, Locked
<1>1. CASE l \in {"notify"} \cup (Registered \ {"asleep"})
  BY <1>1 DEF Goto, Inv, TypeOK
<1>2. CASE pc[t] \notin {"notify"} \cup Registered /\ l # "asleep"
  <2>1. Sleepers # {}
    BY <1>2 DEF Sleepers, At, Goto, Inv, TypeOK
  <2>2. PICK u \in Threads : pc[u] \in {"notify"} \cup (Registered \ {"asleep"})
    BY <2>1 DEF Inv, NoLostWakeup
  <2>3. pc'[u] = pc[u]
    BY <1>2, <2>2 DEF Goto, Inv, TypeOK
  <2>4. QED
    BY <2>2, <2>3
<1>3. QED
  BY <1>1, <1>2

\* A thread that acquires on a word without the lock bit becomes the only
\* owner; its registration, if it had one, is dropped with the same exchange.
LEMMA Acquire ==
  ASSUME Inv, NEW t \in Threads, ~Locked(state), Goto(t, "cs"),
         state' = IF pc[t] \in Registered THEN state - 1 ELSE state + 1,
         UNCHANGED <<expected, timed>>
  PROVE  Inv'
<1>1. Holders = {} /\ (t \in Waiters => state >= 2)
  BY ReadWord DEF Inv
<1>2. /\ pc' \in [Threads -> Labels]
      /\ Waiters' = Waiters \ {t}
      /\ Holders' = {t}
  BY <1>1, MoveThread DEF Inv, Labels, Acquiring, Registered
<1>3. t \in Waiters <=> pc[t] \in Registered
  BY DEF Waiters
<1>4. TypeOK'
  BY <1>1, <1>2, <1>3 DEF Inv, TypeOK
<1>5. WordIsExact'
  <2>1. CASE t \in Waiters
    <3>1. Cardinality(Waiters') = Cardinality(Waiters) - 1 /\ Cardinality(Waiters) \in Nat
      BY <1>2, <2>1, WaiterCount
    <3>2. QED
      BY <1>1, <1>2, <1>3, <1>4, <2>1, <3>1 DEF Inv, WordIsExact
  <2>2. CASE t \notin Waiters
    <3>1. Cardinality(Waiters') = Cardinality(Waiters) /\ Cardinality(Waiters) \in Nat
      BY <1>2, <2>2, WaiterCount
    <3>2. QED
      BY <1>1, <1>2, <1>3, <1>4, <2>2, <3>1 DEF Inv, WordIsExact
  <2>3. QED
    BY <2>1, <2>2
<1>6. NoLostWakeup'
  <2>1. Locked(state')
    <3>1. Cardinality(Waiters)' \in Nat
      BY <1>2, ThreadsFinite, FS_Subset, FS_CardinalityType DEF Waiters
    <3>2. QED
      BY <1>2, <1>5, <3>1 DEF WordIsExact, Locked
  <2>2. QED
    BY <2>1 DEF NoLostWakeup, Locked
<1>7. QED
  BY <1>2, <1>4, <1>5, <1>6 DEF Inv, MutualExclusion

\* A failed exchange changes nothing but a local variable.
LEMMA FailedExchange ==
  ASSUME Inv, NEW t \in Threads, CASFails(t)
  PROVE  Inv'
  BY DEF Inv, CASFails, TypeOK, MutualExclusion, WordIsExact, NoLostWakeup,
         Holders, Waiters, Sleepers, At, Locked

\* Every step of every operation preserves the invariant.
THEOREM StepInv == Inv /\ [Next]_vars => Inv'
<1> SUFFICES ASSUME Inv, [Next]_vars PROVE Inv'
  OBVIOUS
<1> USE DEF Labels, Acquiring, Registered, At
<1>1. CASE UNCHANGED vars
  BY <1>1 DEF vars, Inv, TypeOK, MutualExclusion, WordIsExact, NoLostWakeup,
              Holders, Waiters, Sleepers, Locked
<1>2. ASSUME NEW t \in Threads, lock(t) PROVE Inv'
  <2> DEFINE l == IF HasBackoff THEN "spin" ELSE "register"
  <2>1. Goto(t, l) /\ l \in Labels /\ state' = state /\ pc[t] = "idle"
    BY <1>2 DEF lock
  <2>2. expected' \in [Threads -> Nat] /\ timed' \in [Threads -> BOOLEAN]
    BY <1>2 DEF lock, Inv, TypeOK
  <2>3. l \in {"spin", "register"}
    OBVIOUS
  <2> HIDE DEF l
  <2>4. QED
    BY <2>1, <2>2, <2>3, QuietMove, QuietWakeup DEF Inv
<1>3. ASSUME NEW t \in Threads, try_lock(t) PROVE Inv'
  BY <1>3, Acquire DEF try_lock, Locked
<1>4. ASSUME NEW t \in Threads, try_lock_until(t) PROVE Inv'
  <2>1. timed' \in [Threads -> BOOLEAN] /\ expected' \in [Threads -> Nat]
    BY <1>4 DEF try_lock_until, Inv, TypeOK
  <2>2. QED
    BY <1>4, <2>1, QuietMove, QuietWakeup DEF try_lock_until, Inv
<1>5. ASSUME NEW t \in Threads, spin_acquire(t) PROVE Inv'
  BY <1>5, Acquire DEF spin_acquire
<1>6. ASSUME NEW t \in Threads, spin_retry(t) \/ acquire_retry(t) \/ undo_retry(t) PROVE Inv'
  BY <1>6, FailedExchange DEF spin_retry, acquire_retry, undo_retry
<1>7. ASSUME NEW t \in Threads, spin_exhausted(t) PROVE Inv'
  <2>1. timed' \in [Threads -> BOOLEAN] /\ expected' \in [Threads -> Nat]
    BY <1>7 DEF spin_exhausted, Inv, TypeOK
  <2>2. QED
    BY <1>7, <2>1, QuietMove, QuietWakeup DEF spin_exhausted, Inv
<1>8. ASSUME NEW t \in Threads, register_waiter(t) PROVE Inv'
  <2>1. /\ pc' \in [Threads -> Labels]
        /\ Waiters' = Waiters \cup {t}
        /\ Holders' = Holders
        /\ t \notin Waiters
    BY <1>8, MoveThread DEF register_waiter, Inv, Waiters, Holders
  <2>2. /\ Cardinality(Waiters') = Cardinality(Waiters) + 1
        /\ Cardinality(Waiters) \in Nat
    BY <2>1, WaiterCount
  <2>3. TypeOK' /\ MutualExclusion' /\ WordIsExact'
    BY <1>8, <2>1, <2>2 DEF register_waiter, Inv, TypeOK, MutualExclusion, WordIsExact
  <2>4. pc'[t] = "load"
    BY <1>8 DEF register_waiter, Goto, Inv, TypeOK
  <2>5. QED
    BY <2>3, <2>4 DEF Inv, NoLostWakeup
<1>9. ASSUME NEW t \in Threads, load_state(t) \/ undo_load(t) PROVE Inv'
  <2>1. timed' \in [Threads -> BOOLEAN] /\ expected' \in [Threads -> Nat]
    BY <1>9 DEF load_state, undo_load, Inv, TypeOK
  <2>2. QED
    BY <1>9, <2>1, QuietMove, QuietWakeup DEF load_state, undo_load, Inv
<1>10. ASSUME NEW t \in Threads, acquire_registered(t) PROVE Inv'
  <2>1. state' = state - 1
    BY <1>10 DEF acquire_registered, Inv, TypeOK
  <2>2. QED
    BY <1>10, <2>1, Acquire DEF acquire_registered
<1>11. ASSUME NEW t \in Threads, futex_sleep(t) PROVE Inv'
  <2>1. timed' \in [Threads -> BOOLEAN] /\ expected' \in [Threads -> Nat]
    BY <1>11 DEF futex_sleep, Inv, TypeOK
  <2>2. Locked(state')
    BY <1>11 DEF futex_sleep
  <2>3. NoLostWakeup'
    BY <2>2 DEF NoLostWakeup, Locked
  <2>4. QED
    BY <1>11, <2>1, <2>3, QuietMove DEF futex_sleep, Inv
<1>12. ASSUME NEW t \in Threads, wait_returns(t) \/ spurious_wakeup(t) \/ deadline_passes(t)
       PROVE  Inv'
  <2>1. timed' \in [Threads -> BOOLEAN] /\ expected' \in [Threads -> Nat]
    BY <1>12 DEF wait_returns, spurious_wakeup, deadline_passes, Inv, TypeOK
  <2>2. QED
    BY <1>12, <2>1, QuietMove, QuietWakeup
    DEF wait_returns, spurious_wakeup, deadline_passes, Inv
<1>13. ASSUME NEW t \in Threads, wait_until_returns(t) PROVE Inv'
  <2> DEFINE l == IF state # expected[t] THEN "load" ELSE "undoLoad"
  <2>1. Goto(t, l) /\ state' = state /\ pc[t] = "expired"
    BY <1>13 DEF wait_until_returns
  <2>2. timed' \in [Threads -> BOOLEAN] /\ expected' \in [Threads -> Nat]
    BY <1>13 DEF wait_until_returns, Inv, TypeOK
  <2>3. l \in {"load", "undoLoad"}
    OBVIOUS
  <2> HIDE DEF l
  <2>4. QED
    BY <2>1, <2>2, <2>3, QuietMove, QuietWakeup DEF Inv
<1>14. ASSUME NEW t \in Threads, undo_registration(t) PROVE Inv'
  <2>1. Holders # {} /\ state >= 3 /\ t \in Waiters
    BY <1>14, ReadWord DEF undo_registration, Inv, Waiters
  <2>2. /\ pc' \in [Threads -> Labels]
        /\ Waiters' = Waiters \ {t}
        /\ Holders' = Holders
    BY <1>14, MoveThread DEF undo_registration, Inv, Holders
  <2>3. /\ Cardinality(Waiters') = Cardinality(Waiters) - 1
        /\ Cardinality(Waiters) \in Nat
    BY <2>1, <2>2, WaiterCount
  <2>4. state' = state - 2
    BY <1>14 DEF undo_registration
  <2>5. TypeOK' /\ MutualExclusion' /\ WordIsExact'
    BY <1>14, <2>1, <2>2, <2>3, <2>4
    DEF undo_registration, Inv, TypeOK, MutualExclusion, WordIsExact
  <2>6. Locked(state')
    BY <1>14, <2>1, <2>4 DEF undo_registration, Locked, Inv, TypeOK
  <2>7. QED
    BY <2>5, <2>6 DEF Inv, NoLostWakeup, Locked
<1>15. ASSUME NEW t \in Threads, unlock(t) PROVE Inv'
  <2> DEFINE l == IF state > 1 THEN "notify" ELSE "idle"
  <2>1. l \in {"notify", "idle"} /\ Goto(t, l) /\ Holders = {t}
    BY <1>15 DEF unlock, Inv, MutualExclusion, Holders
  <2>2. /\ pc' \in [Threads -> Labels]
        /\ Waiters' = Waiters \ {t}
        /\ Holders' = {}
    <3> HIDE DEF l
    <3>1. QED
      BY <2>1, MoveThread DEF Inv
  <2>3. Waiters' = Waiters /\ Cardinality(Waiters) \in Nat
    BY <1>15, <2>2, WaiterCount DEF unlock, Waiters
  <2>4. state = 2 * Cardinality(Waiters) + 1 /\ state' = state - 1
    BY <1>15, <2>1, <2>3 DEF unlock, Inv, WordIsExact
  <2>5. TypeOK' /\ MutualExclusion' /\ WordIsExact'
    <3>1. TypeOK'
      <4>1. state' \in Nat
        BY <2>3, <2>4
      <4>2. QED
        BY <1>15, <2>2, <4>1 DEF unlock, Inv, TypeOK
    <3>2. Cardinality(Waiters') = Cardinality(Waiters)
      BY <2>3
    <3>3. WordIsExact'
      BY <2>2, <2>3, <2>4, <3>1, <3>2 DEF WordIsExact
    <3>4. QED
      BY <2>2, <3>1, <3>3 DEF MutualExclusion
  <2>6. ASSUME NEW w \in Sleepers' PROVE pc'[t] = "notify"
    <3>1. w \in Waiters /\ w \in Threads
      BY <2>3 DEF Sleepers, Waiters
    <3>2. state > 1
      <4>1. Cardinality(Waiters) > 0 /\ Cardinality(Waiters) \in Nat
        BY <3>1, WaiterCount
      <4>2. QED
        BY <2>4, <4>1
    <3>3. QED
      BY <2>1, <3>2 DEF Goto, Inv, TypeOK
  <2>7. QED
    BY <2>5, <2>6 DEF Inv, NoLostWakeup
<1>16. ASSUME NEW t \in Threads, notify_one(t) PROVE Inv'
  <2>1. CASE Sleepers = {}
    <3>1. Goto(t, "idle") /\ pc[t] = "notify" /\ state' = state
      BY <1>16, <2>1 DEF notify_one
    <3>2. timed' \in [Threads -> BOOLEAN] /\ expected' \in [Threads -> Nat]
      BY <1>16 DEF notify_one, Inv, TypeOK
    <3>3. Sleepers' = {}
      BY <2>1, <3>1 DEF Sleepers, Goto, Inv, TypeOK
    <3>4. QED
      BY <3>1, <3>2, <3>3, QuietMove DEF NoLostWakeup, Inv
  <2>2. CASE Sleepers # {}
    <3>1. PICK w \in Sleepers : pc' = [pc EXCEPT ![t] = "idle", ![w] = "loop"]
      BY <1>16, <2>2 DEF notify_one
    <3>2. pc[t] = "notify" /\ pc[w] = "asleep" /\ w \in Threads /\ UNCHANGED <<state, expected, timed>>
      BY <1>16 DEF notify_one, Sleepers
    <3>3. Waiters' = Waiters /\ Holders' = Holders /\ pc' \in [Threads -> Labels] /\ pc'[w] = "loop"
      BY <3>1, <3>2 DEF Waiters, Holders, Inv, TypeOK
    <3>4. TypeOK' /\ MutualExclusion' /\ WordIsExact'
      BY <3>2, <3>3 DEF Inv, TypeOK, MutualExclusion, WordIsExact
    <3>5. QED
      BY <3>2, <3>3, <3>4 DEF Inv, NoLostWakeup
  <2>3. QED
    BY <2>1, <2>2
<1>17. QED
  BY <1>1, <1>2, <1>3, <1>4, <1>5, <1>6, <1>7, <1>8, <1>9, <1>10, <1>11, <1>12,
     <1>13, <1>14, <1>15, <1>16
  DEF Next, lock_slow, lock_slow_until

\* The word, the program counters and the locals keep their types in every
\* reachable state of the parking mutex.
THEOREM TypeCorrect == Spec => []TypeOK
<1>1. Inv => TypeOK
  BY DEF Inv
<1>2. QED
  BY <1>1, InitInv, StepInv, PTL DEF Spec

\* The mutex excludes: however lock, try_lock, timed acquisitions and stealing
\* spinners of any number of threads interleave, one thread owns it.
THEOREM Exclusion == Spec => []MutualExclusion
<1>1. Inv => MutualExclusion
  BY DEF Inv
<1>2. QED
  BY <1>1, InitInv, StepInv, PTL DEF Spec

\* state_ always encodes exactly the owner and the number of registered
\* threads: no path through lock_slow or lock_slow_until leaks or steals a
\* registration.
THEOREM ExactWord == Spec => []WordIsExact
<1>1. Inv => WordIsExact
  BY DEF Inv
<1>2. QED
  BY <1>1, InitInv, StepInv, PTL DEF Spec

\* No unlock leaves a sleeping thread behind with nobody left to wake it.
THEOREM WakeupKept == Spec => []NoLostWakeup
<1>1. Inv => NoLostWakeup
  BY DEF Inv
<1>2. QED
  BY <1>1, InitInv, StepInv, PTL DEF Spec

\* An acquisition of the word is an acquisition of the abstract lock.
LEMMA AcquireRefines ==
  ASSUME Inv, NEW t \in Threads, ~Locked(state), Goto(t, "cs")
  PROVE  Abstract!AAcquire(t)
<1>1. Holders = {}
  BY ReadWord DEF Inv
<1>2. Holders' = {t}
  BY <1>1, MoveThread DEF Inv, Labels, Acquiring, Registered
<1>3. Contenders' = Contenders \ {t}
  BY DEF Contenders, Goto, Inv, TypeOK, Acquiring, Registered
<1>4. QED
  BY <1>1, <1>2, <1>3 DEF Abstract!AAcquire

\* A step that keeps a thread on its side of both sets is invisible.
LEMMA StepIsInvisible ==
  ASSUME Inv, NEW t \in Threads, NEW l \in Labels, Goto(t, l),
         pc[t] # "cs", l # "cs", pc[t] \in Acquiring <=> l \in Acquiring
  PROVE  UNCHANGED <<Holders, Contenders>>
  BY DEF Holders, Contenders, At, Goto, Inv, TypeOK

\* A blocking acquisition that leaves its fast path is a request.
LEMMA EnterRefines ==
  ASSUME Inv, NEW t \in Threads, NEW l \in Acquiring, pc[t] = "idle", Goto(t, l)
  PROVE  Abstract!ARequest(t)
<1>1. t \notin Holders /\ t \notin Contenders
  BY DEF Holders, Contenders, At, Acquiring, Registered
<1>2. Holders' = Holders
  BY DEF Holders, At, Goto, Inv, TypeOK, Acquiring, Registered
<1>3. Contenders' = Contenders \cup {t}
  BY DEF Contenders, Goto, Inv, TypeOK
<1>4. QED
  BY <1>1, <1>2, <1>3 DEF Abstract!ARequest

\* Every atomic operation of the parking mutex is a step of the abstract lock
\* or leaves it alone.
THEOREM StepRefines == Inv /\ [Next]_vars => [Abstract!ANext]_<<Holders, Contenders>>
<1> SUFFICES ASSUME Inv, [Next]_vars PROVE [Abstract!ANext]_<<Holders, Contenders>>
  OBVIOUS
<1> USE DEF Labels, Acquiring, Registered, At
<1>1. CASE UNCHANGED vars
  BY <1>1 DEF vars, Holders, Contenders
<1>2. ASSUME NEW t \in Threads, lock(t) \/ try_lock_until(t) PROVE Abstract!ANext
  <2>1. PICK l \in {"spin", "register"} : Goto(t, l)
    BY <1>2 DEF lock, try_lock_until
  <2>2. pc[t] = "idle"
    BY <1>2 DEF lock, try_lock_until
  <2>3. QED
    BY <2>1, <2>2, EnterRefines DEF Abstract!ANext
<1>3. ASSUME NEW t \in Threads, try_lock(t) \/ spin_acquire(t) \/ acquire_registered(t)
      PROVE  Abstract!ANext
  <2>1. ~Locked(state) /\ Goto(t, "cs")
    BY <1>3 DEF try_lock, spin_acquire, acquire_registered, Locked
  <2>2. QED
    BY <2>1, AcquireRefines DEF Abstract!ANext
<1>4. ASSUME NEW t \in Threads, spin_retry(t) \/ acquire_retry(t) \/ undo_retry(t)
      PROVE  UNCHANGED <<Holders, Contenders>>
  BY <1>4 DEF spin_retry, acquire_retry, undo_retry, CASFails, Holders, Contenders
<1>5. ASSUME NEW t \in Threads,
             \/ spin_exhausted(t) \/ register_waiter(t) \/ load_state(t) \/ futex_sleep(t)
             \/ wait_returns(t) \/ spurious_wakeup(t) \/ deadline_passes(t)
             \/ wait_until_returns(t) \/ undo_load(t)
      PROVE  UNCHANGED <<Holders, Contenders>>
  <2>1. pc[t] \in Acquiring /\ \E l \in Acquiring : Goto(t, l)
    BY <1>5 DEF spin_exhausted, register_waiter, load_state, futex_sleep, wait_returns,
                spurious_wakeup, deadline_passes, wait_until_returns, undo_load
  <2>2. QED
    BY <2>1, StepIsInvisible
<1>6. ASSUME NEW t \in Threads, undo_registration(t) PROVE Abstract!ANext
  <2>1. Goto(t, "idle") /\ pc[t] = "undo"
    BY <1>6 DEF undo_registration
  <2>2. /\ t \in Contenders
        /\ Contenders' = Contenders \ {t}
        /\ Holders' = Holders
    BY <2>1 DEF Contenders, Holders, Goto, Inv, TypeOK
  <2>3. QED
    BY <2>2 DEF Abstract!ANext, Abstract!AGiveUp
<1>7. ASSUME NEW t \in Threads, unlock(t) PROVE Abstract!ANext
  <2>1. PICK l \in {"notify", "idle"} : Goto(t, l)
    BY <1>7 DEF unlock
  <2>2. pc[t] = "cs" /\ Holders = {t}
    BY <1>7 DEF unlock, Inv, MutualExclusion, Holders
  <2>3. Holders' = {} /\ Contenders' = Contenders
    BY <2>1, <2>2 DEF Holders, Contenders, Goto, Inv, TypeOK
  <2>4. QED
    BY <2>2, <2>3 DEF Abstract!ANext, Abstract!ARelease
<1>8. ASSUME NEW t \in Threads, notify_one(t) PROVE UNCHANGED <<Holders, Contenders>>
  <2>1. CASE Sleepers = {}
    <3>1. pc[t] = "notify" /\ Goto(t, "idle")
      BY <1>8, <2>1 DEF notify_one
    <3>2. QED
      BY <3>1, StepIsInvisible
  <2>2. CASE Sleepers # {}
    <3>1. PICK w \in Sleepers : pc' = [pc EXCEPT ![t] = "idle", ![w] = "loop"]
      BY <1>8, <2>2 DEF notify_one
    <3>2. pc[t] = "notify" /\ pc[w] = "asleep" /\ w \in Threads
      BY <1>8 DEF notify_one, Sleepers
    <3>3. QED
      BY <3>1, <3>2 DEF Holders, Contenders, Inv, TypeOK
  <2>3. QED
    BY <2>1, <2>2
<1>9. QED
  BY <1>1, <1>2, <1>3, <1>4, <1>5, <1>6, <1>7, <1>8 DEF Next, lock_slow, lock_slow_until

\* The parking mutex implements the lock its clients see, for any number of
\* threads: what they observe is a behaviour of AbstractMutex.
THEOREM Refinement == Spec => ImplementsMutex
<1>1. Init => Abstract!AInit
  BY DEF Init, Abstract!AInit, Holders, Contenders, At, Acquiring, Registered
<1>2. QED
  BY <1>1, InitInv, StepInv, StepRefines, PTL
  DEF Spec, ImplementsMutex, Abstract!AbstractSpec, Abstract!avars

===============================================================================
