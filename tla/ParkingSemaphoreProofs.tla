------------------------ MODULE ParkingSemaphoreProofs ------------------------
(***************************************************************************)
(* Proofs, for any finite set of threads, any initial tokens, release      *)
(* sizes and usages, of the safety properties of ParkingSemaphore.         *)
(*                                                                         *)
(* The inductive invariant adds to the exact word what the local variables *)
(* say: a thread in try_acquire has read a positive word, one that sleeps  *)
(* or is about to has read a negative one, and only who called             *)
(* try_acquire_until has a deadline.  The exact word then gives the        *)
(* refinement: a positive word means a token, and so does a word that is   *)
(* not negative for a thread that is counted in it.                        *)
(***************************************************************************)
EXTENDS ParkingSemaphore, FiniteSetTheorems, TLAPS

LocalsFit == \A t \in Threads :
  /\ timed[t] => usage.timed /\ t \in usage.acquirers
  /\ At(t, "retake") \/ At(t, "restore") \/ At(t, "expired") => timed[t]
  /\ pc[t] \in Blocking => t \in usage.acquirers
  /\ At(t, "try") => c[t] > 0
  /\ At(t, "wait") \/ At(t, "asleep") => c[t] < 0

Inv == CountIsExact /\ LocalsFit

\* When one thread moves, the number of registered threads changes by that
\* thread only; a registered thread is counted.
LEMMA WaiterMove ==
  ASSUME TypeOK, NEW t \in Threads, NEW l \in Labels, Goto(t, l)
  PROVE  /\ pc' \in [Threads -> Labels]
         /\ Cardinality(Waiters) \in Nat
         /\ pc[t] \in Registered => Cardinality(Waiters) > 0
         /\ Cardinality(Waiters') = Cardinality(Waiters)
              + (IF l \in Registered THEN 1 ELSE 0) - (IF pc[t] \in Registered THEN 1 ELSE 0)
<1>1. pc' \in [Threads -> Labels]
  BY DEF TypeOK, Goto
<1>2. IsFiniteSet(Waiters) /\ Cardinality(Waiters) \in Nat
  BY SemaphoreThreads, FS_Subset, FS_CardinalityType DEF Waiters
<1>3. t \in Waiters <=> pc[t] \in Registered
  BY DEF Waiters
<1>4. Cardinality(Waiters) = 0 <=> Waiters = {}
  BY <1>2, FS_EmptySet
<1>5. Waiters' = IF l \in Registered THEN Waiters \cup {t} ELSE Waiters \ {t}
  BY DEF Waiters, TypeOK, Goto
<1>6. /\ Cardinality(Waiters \cup {t}) = IF t \in Waiters THEN Cardinality(Waiters)
                                                          ELSE Cardinality(Waiters) + 1
      /\ Cardinality(Waiters \ {t}) = IF t \in Waiters THEN Cardinality(Waiters) - 1
                                                       ELSE Cardinality(Waiters)
  BY <1>2, FS_AddElement, FS_RemoveElement
<1>7. QED
  BY <1>1, <1>2, <1>3, <1>4, <1>5, <1>6

\* A new semaphore holds its initial tokens and nobody waits.
THEOREM InitInv == Init => Inv
<1> SUFFICES ASSUME Init PROVE Inv
  OBVIOUS
<1>1. Waiters = {} /\ Cardinality(Waiters) = 0
  BY FS_EmptySet DEF Init, Waiters, Registered
<1>2. TypeOK
  BY SemaphoreTokens DEF Init, TypeOK, Labels
<1>3. LocalsFit
  BY DEF Init, LocalsFit, At, Blocking, Registered
<1>4. QED
  BY <1>1, <1>2, <1>3, SemaphoreTokens DEF Init, Inv, CountIsExact, Available

\* Waking sleepers changes neither who is registered nor a local variable.
LEMMA WakeQuietly ==
  ASSUME Inv, NEW t \in Threads, pc[t] \in {"wakeOne", "wakeAll"},
         NEW W \in SUBSET Sleepers,
         pc' = [u \in Threads |-> IF u = t THEN "idle" ELSE IF u \in W THEN "wait" ELSE pc[u]],
         UNCHANGED <<usage, count, c, timed, released, acquired>>
  PROVE  Inv'
<1> USE DEF Inv, CountIsExact, TypeOK, Labels, Blocking, Registered
<1>1. TypeOK'
  BY DEF Sleepers
<1>2. Waiters' = Waiters
  BY DEF Waiters, Sleepers, At
<1>3. LocalsFit'
  BY DEF LocalsFit, Sleepers, At
<1>4. QED
  BY <1>1, <1>2, <1>3 DEF Available

\* A step in which one thread moves keeps the invariant if the word and the
\* histories change by what the registration changes.
LEMMA OneMoves ==
  ASSUME Inv, NEW t \in Threads, NEW l \in Labels, Goto(t, l), usage' = usage,
         c' \in [Threads -> Int], timed' \in [Threads -> BOOLEAN],
         count' \in Int, released' \in Nat, acquired' \in Nat,
         count' - count = (released' - released) - (acquired' - acquired)
              - (IF l \in Registered THEN 1 ELSE 0) + (IF pc[t] \in Registered THEN 1 ELSE 0)
  PROVE  CountIsExact'
<1>1. /\ pc' \in [Threads -> Labels]
      /\ Cardinality(Waiters) \in Nat
      /\ Cardinality(Waiters') = Cardinality(Waiters)
              + (IF l \in Registered THEN 1 ELSE 0) - (IF pc[t] \in Registered THEN 1 ELSE 0)
  BY WaiterMove DEF Inv, CountIsExact
<1>2. count' = released' - acquired' - Cardinality(Waiters')
  <2>1. PICK n \in Nat, m \in Int : n = Cardinality(Waiters) /\ m = Cardinality(Waiters')
    BY <1>1
  <2>2. count = released - acquired - n /\ count \in Int /\ released \in Nat /\ acquired \in Nat
    BY <2>1 DEF Inv, CountIsExact, TypeOK, Available
  <2>3. CASE l \in Registered /\ pc[t] \in Registered
    BY <1>1, <2>1, <2>2, <2>3
  <2>4. CASE l \in Registered /\ pc[t] \notin Registered
    BY <1>1, <2>1, <2>2, <2>4
  <2>5. CASE l \notin Registered /\ pc[t] \in Registered
    BY <1>1, <2>1, <2>2, <2>5
  <2>6. CASE l \notin Registered /\ pc[t] \notin Registered
    BY <1>1, <2>1, <2>2, <2>6
  <2>7. QED
    BY <2>3, <2>4, <2>5, <2>6
<1>3. Cardinality(Waiters') \in Nat
  <2>1. Waiters' \in SUBSET Threads
    BY DEF Waiters
  <2>2. QED
    BY <2>1, SemaphoreThreads, FS_Subset, FS_CardinalityType
<1>4. count' <= released'
  BY <1>2, <1>3
<1>5. QED
  BY <1>1, <1>2, <1>4 DEF Inv, CountIsExact, TypeOK, Available

\* Every step of every operation preserves the invariant.
THEOREM StepInv == Inv /\ [Next]_vars => Inv'
<1> SUFFICES ASSUME Inv, [Next]_vars PROVE Inv'
  OBVIOUS
<1> USE DEF Labels, Blocking, Registered, At
<1>0. /\ count \in Int /\ released \in Nat /\ acquired \in Nat /\ usage \in Usages
      /\ c \in [Threads -> Int] /\ timed \in [Threads -> BOOLEAN]
      /\ pc \in [Threads -> Labels] /\ TypeOK
  BY DEF Inv, CountIsExact, TypeOK
<1>1. CASE UNCHANGED vars
  BY <1>1 DEF vars, Inv, CountIsExact, TypeOK, LocalsFit, Waiters, Available
<1>2. ASSUME NEW t \in Threads, NEW n \in ReleaseSizes, release(t, n) PROVE Inv'
  <2>1. PICK l \in {"idle", "wakeOne", "wakeAll"} : Goto(t, l)
    BY <1>2 DEF release
  <2>2. /\ pc[t] = "idle" /\ count' = count + n /\ released' = released + n /\ n \in Nat
        /\ UNCHANGED <<usage, c, timed, acquired>>
    BY <1>2, SemaphoreTokens DEF release
  <2>3. CountIsExact'
    BY <1>0, <2>1, <2>2, OneMoves
  <2>4. LocalsFit'
    BY <1>0, <2>1, <2>2 DEF Inv, LocalsFit, Goto
  <2>5. QED
    BY <2>3, <2>4 DEF Inv
<1>3. ASSUME NEW t \in Threads, notify_one(t) PROVE Inv'
  <2>1. CASE Sleepers = {}
    <3>1. pc' = [u \in Threads |-> IF u = t THEN "idle" ELSE IF u \in {} THEN "wait" ELSE pc[u]]
      BY <1>0, <1>3, <2>1 DEF notify_one, Goto
    <3>2. {} \in SUBSET Sleepers
      OBVIOUS
    <3>3. QED
      BY <1>3, <3>1, <3>2, WakeQuietly DEF notify_one
  <2>2. CASE Sleepers # {}
    <3>1. PICK w \in Sleepers : pc' = [pc EXCEPT ![t] = "idle", ![w] = "wait"]
      BY <1>3, <2>2 DEF notify_one
    <3>2. w # t /\ w \in Threads
      BY <1>3 DEF notify_one, Sleepers
    <3>3. pc' = [u \in Threads |-> IF u = t THEN "idle" ELSE IF u \in {w} THEN "wait" ELSE pc[u]]
      BY <1>0, <3>1, <3>2
    <3>4. QED
      BY <1>3, <3>3, WakeQuietly DEF notify_one
  <2>3. QED
    BY <2>1, <2>2
<1>4. ASSUME NEW t \in Threads, notify_all(t) PROVE Inv'
  BY <1>4, WakeQuietly DEF notify_all
<1>5. ASSUME NEW t \in Threads, acquire(t) PROVE Inv'
  <2>1. PICK l \in {"spin", "subtract"} : Goto(t, l)
    BY <1>5 DEF acquire
  <2>2. /\ pc[t] = "idle" /\ t \in usage.acquirers /\ timed' = [timed EXCEPT ![t] = FALSE]
        /\ c' \in [Threads -> Int] /\ \A u \in Threads : u # t => c'[u] = c[u]
        /\ UNCHANGED <<usage, count, released, acquired>>
    BY <1>0, <1>5 DEF acquire
  <2>3. CountIsExact'
    BY <1>0, <2>1, <2>2, OneMoves
  <2>4. LocalsFit'
    BY <1>0, <2>1, <2>2 DEF Inv, LocalsFit, Goto
  <2>5. QED
    BY <2>3, <2>4 DEF Inv
<1>6. ASSUME NEW t \in Threads, spin_take(t) \/ try_take(t) PROVE Inv'
  <2>1. /\ pc[t] \in {"spin", "try"} /\ Goto(t, "idle") /\ count' = count - 1
        /\ acquired' = acquired + 1 /\ UNCHANGED <<usage, c, timed, released>>
    BY <1>6 DEF spin_take, try_take, Succeed
  <2>2. CountIsExact'
    BY <1>0, <2>1, OneMoves
  <2>3. LocalsFit'
    BY <1>0, <2>1 DEF Inv, LocalsFit, Goto
  <2>4. QED
    BY <2>2, <2>3 DEF Inv
<1>7. ASSUME NEW t \in Threads, spin_retry(t) PROVE Inv'
  <2>1. /\ pc[t] = "spin" /\ c' = [c EXCEPT ![t] = count]
        /\ UNCHANGED <<usage, count, timed, released, acquired, pc>>
    BY <1>7 DEF spin_retry
  <2>2. CountIsExact'
    BY <1>0, <2>1 DEF Inv, CountIsExact, TypeOK, Waiters, Available
  <2>3. LocalsFit'
    BY <1>0, <2>1 DEF Inv, LocalsFit
  <2>4. QED
    BY <2>2, <2>3 DEF Inv
<1>8. ASSUME NEW t \in Threads, spin_exhausted(t) PROVE Inv'
  <2>1. /\ pc[t] = "spin" /\ Goto(t, "subtract")
        /\ UNCHANGED <<usage, count, c, timed, released, acquired>>
    BY <1>8 DEF spin_exhausted
  <2>2. CountIsExact'
    BY <1>0, <2>1, OneMoves
  <2>3. LocalsFit'
    BY <1>0, <2>1 DEF Inv, LocalsFit, Goto
  <2>4. QED
    BY <2>2, <2>3 DEF Inv
<1>9. ASSUME NEW t \in Threads, try_acquire(t) PROVE Inv'
  <2>1. PICK until \in {FALSE, usage.timed /\ t \in usage.acquirers} :
             timed' = [timed EXCEPT ![t] = until]
    BY <1>9 DEF try_acquire
  <2>2. /\ timed' \in [Threads -> BOOLEAN]
        /\ \A u \in Threads : u # t => timed'[u] = timed[u]
        /\ timed'[t] => usage.timed /\ t \in usage.acquirers
    BY <1>0, <2>1, Zenon
  <2>3. /\ pc[t] = "idle" /\ c' = [c EXCEPT ![t] = count]
        /\ UNCHANGED <<usage, count, released, acquired>>
    BY <1>9 DEF try_acquire
  <2>4. PICK l \in {"try", "subtract", "idle"} :
          /\ Goto(t, l)
          /\ l = "try" => count > 0
          /\ l = "subtract" => timed'[t]
    <3>1. CASE count > 0
      BY <1>9, <3>1 DEF try_acquire
    <3>2. CASE ~(count > 0)
      BY <1>9, <3>2 DEF try_acquire, NoToken
    <3>3. QED
      BY <3>1, <3>2
  <2>5. CountIsExact'
    BY <1>0, <2>2, <2>3, <2>4, OneMoves
  <2>6. LocalsFit'
    BY <1>0, <2>2, <2>3, <2>4 DEF Inv, LocalsFit, Goto
  <2>7. QED
    BY <2>5, <2>6 DEF Inv
<1>10. ASSUME NEW t \in Threads, try_retry(t) PROVE Inv'
  <2>1. /\ pc[t] = "try" /\ c' = [c EXCEPT ![t] = count]
        /\ UNCHANGED <<usage, count, timed, released, acquired>>
    BY <1>10 DEF try_retry
  <2>2. PICK l \in {"try", "subtract", "idle"} :
          /\ Goto(t, l)
          /\ l = "try" => count > 0
          /\ l = "subtract" => timed[t]
    <3>1. CASE count > 0
      <4>1. pc' = [pc EXCEPT ![t] = "try"]
        BY <1>0, <1>10, <3>1 DEF try_retry
      <4>2. QED
        BY <3>1, <4>1 DEF Goto
    <3>2. CASE ~(count > 0)
      BY <1>10, <3>2 DEF try_retry, NoToken
    <3>3. QED
      BY <3>1, <3>2
  <2>3. CountIsExact'
    BY <1>0, <2>1, <2>2, OneMoves
  <2>4. LocalsFit'
    BY <1>0, <2>1, <2>2 DEF Inv, LocalsFit, Goto
  <2>5. QED
    BY <2>3, <2>4 DEF Inv
<1>11. ASSUME NEW t \in Threads, subtract(t) PROVE Inv'
  <2>1. /\ pc[t] = "subtract" /\ count' = count - 1
        /\ UNCHANGED <<usage, c, timed, released>>
    BY <1>11 DEF subtract
  <2>2. \/ acquired' = acquired + 1 /\ Goto(t, "idle")
        \/ acquired' = acquired /\ Goto(t, "load")
    BY <1>11 DEF subtract, Succeed
  <2>3. CountIsExact'
    BY <1>0, <2>1, <2>2, OneMoves
  <2>4. LocalsFit'
    BY <1>0, <2>1, <2>2 DEF Inv, LocalsFit, Goto
  <2>5. QED
    BY <2>3, <2>4 DEF Inv
<1>12. ASSUME NEW t \in Threads, load_count(t) PROVE Inv'
  <2>1. /\ pc[t] = "load" /\ c' = [c EXCEPT ![t] = count]
        /\ UNCHANGED <<usage, count, timed, released>>
    BY <1>12 DEF load_count
  <2>2. \/ acquired' = acquired + 1 /\ Goto(t, "idle")
        \/ acquired' = acquired /\ Goto(t, "wait") /\ count < 0
    BY <1>0, <1>12 DEF load_count, Succeed
  <2>3. CountIsExact'
    BY <1>0, <2>1, <2>2, OneMoves
  <2>4. LocalsFit'
    BY <1>0, <2>1, <2>2 DEF Inv, LocalsFit, Goto
  <2>5. QED
    BY <2>3, <2>4 DEF Inv
<1>13. ASSUME NEW t \in Threads,
              \/ futex_sleep(t) \/ wait_returns(t) \/ spurious_wakeup(t) \/ deadline_passes(t)
              \/ wait_until_returns(t)
       PROVE  Inv'
  <2>1. UNCHANGED <<usage, count, c, timed, released, acquired>>
    BY <1>13 DEF futex_sleep, wait_returns, spurious_wakeup, deadline_passes, wait_until_returns
  <2>2. PICK l \in {"asleep", "wait", "load", "expired", "restore"} :
          /\ Goto(t, l) /\ pc[t] \in {"wait", "asleep", "expired"}
          /\ l \in {"asleep", "wait"} => pc[t] \in {"wait", "asleep"}
          /\ l \in {"expired", "restore"} => timed[t] \/ pc[t] = "expired"
    BY <1>13 DEF futex_sleep, wait_returns, spurious_wakeup, deadline_passes, wait_until_returns
  <2>3. CountIsExact'
    BY <1>0, <2>1, <2>2, OneMoves
  <2>4. LocalsFit'
    BY <1>0, <2>1, <2>2 DEF Inv, LocalsFit, Goto
  <2>5. QED
    BY <2>3, <2>4 DEF Inv
<1>14. ASSUME NEW t \in Threads, restore(t) PROVE Inv'
  <2>1. PICK l \in {"retake", "idle"} : Goto(t, l)
    BY <1>14 DEF restore
  <2>2. /\ pc[t] = "restore" /\ count' = count + 1
        /\ UNCHANGED <<usage, c, timed, released, acquired>>
    BY <1>14 DEF restore
  <2>3. CountIsExact'
    BY <1>0, <2>1, <2>2, OneMoves
  <2>4. LocalsFit'
    BY <1>0, <2>1, <2>2 DEF Inv, LocalsFit, Goto
  <2>5. QED
    BY <2>3, <2>4 DEF Inv
<1>15. ASSUME NEW t \in Threads, retake(t) PROVE Inv'
  <2>1. /\ pc[t] = "retake" /\ Goto(t, "idle") /\ count' = count - 1
        /\ acquired' = acquired + 1 /\ UNCHANGED <<usage, c, timed, released>>
    BY <1>15 DEF retake, Succeed
  <2>2. CountIsExact'
    BY <1>0, <2>1, OneMoves
  <2>3. LocalsFit'
    BY <1>0, <2>1 DEF Inv, LocalsFit, Goto
  <2>4. QED
    BY <2>2, <2>3 DEF Inv
<1>16. QED
  BY <1>1, <1>2, <1>3, <1>4, <1>5, <1>6, <1>7, <1>8, <1>9, <1>10, <1>11, <1>12, <1>13,
     <1>14, <1>15
  DEF Next, Progress

\* The word is the tokens that are left minus the registered waiters, in every
\* reachable state, through timeouts that undo a registration too.
THEOREM ExactCount == Spec => []CountIsExact
<1>1. Inv => CountIsExact
  BY DEF Inv
<1>2. QED
  BY <1>1, InitInv, StepInv, PTL DEF Spec

-----------------------------------------------------------------------------
(* No sleeper is stranded.  With one acquirer the only thread that can be  *)
(* awake and registered is the sleeper itself, so what is inductive is     *)
(* that a notify is still to come.                                         *)

Waking == {"wakeOne", "wakeAll"}
WakeIsDue ==
  (\E x \in Threads : usage.acquirers = {x} /\ At(x, "asleep")) /\ count >= 0 =>
     \E t \in Threads : pc[t] \in Waking

\* The step of a thread that is not in a notify keeps a due wakeup due, if
\* the thread goes to sleep on a negative word only and the word does not
\* grow while the acquirer sleeps.
LEMMA WakeStaysDue ==
  ASSUME Inv, WakeIsDue, NEW t \in Threads, NEW l \in Labels, Goto(t, l), usage' = usage,
         pc[t] \notin Waking, l = "asleep" => count' < 0,
         count' \in Int, count' <= count \/ pc[t] \in Blocking
  PROVE  WakeIsDue'
<1> SUFFICES ASSUME NEW x \in Threads, usage.acquirers = {x}, pc'[x] = "asleep", count' >= 0
             PROVE  \E s \in Threads : pc'[s] \in Waking
  BY DEF WakeIsDue, At
<1> USE DEF Inv, CountIsExact, TypeOK
<1>1. x # t
  BY DEF Goto
<1>2. pc[x] = "asleep" /\ pc[t] \notin Blocking
  BY <1>1 DEF Goto, LocalsFit
<1>3. count >= 0
  BY <1>2
<1>4. PICK s \in Threads : pc[s] \in Waking
  BY <1>2, <1>3 DEF WakeIsDue, At
<1>5. QED
  BY <1>4 DEF Goto

\* Every step keeps a due wakeup due.
THEOREM StepWake == Inv /\ WakeIsDue /\ [Next]_vars => WakeIsDue'
<1> SUFFICES ASSUME Inv, WakeIsDue, [Next]_vars PROVE WakeIsDue'
  OBVIOUS
<1> USE DEF Labels, Blocking, Registered, At, Waking
<1>0. /\ count \in Int /\ released \in Nat /\ acquired \in Nat
      /\ pc \in [Threads -> Labels] /\ LocalsFit
  BY DEF Inv, CountIsExact, TypeOK
<1>1. CASE UNCHANGED vars
  BY <1>1 DEF vars, WakeIsDue
<1>2. ASSUME NEW t \in Threads, NEW n \in ReleaseSizes, release(t, n) PROVE WakeIsDue'
  <2>1. pc[t] = "idle" /\ count' = count + n /\ usage' = usage /\ n \in Nat
    BY <1>2, SemaphoreTokens DEF release
  <2>2. CASE count >= 0
    <3>1. Goto(t, "idle")
      BY <1>2, <2>2 DEF release
    <3>2. QED
      BY <1>0, <2>1, <2>2, <3>1 DEF WakeIsDue, Goto
  <2>3. CASE ~(count >= 0)
    <3>1. pc'[t] \in Waking
      BY <1>0, <1>2, <2>3 DEF release, Goto
    <3>2. QED
      BY <3>1 DEF WakeIsDue
  <2>4. QED
    BY <2>2, <2>3
<1>3. ASSUME NEW t \in Threads, notify_one(t) PROVE WakeIsDue'
  <2> SUFFICES ASSUME NEW x \in Threads, usage.acquirers = {x}, pc'[x] = "asleep"
               PROVE  FALSE
    BY <1>3 DEF WakeIsDue, notify_one
  <2>1. CASE Sleepers = {}
    BY <1>0, <1>3, <2>1 DEF notify_one, Goto, Sleepers
  <2>2. CASE Sleepers # {}
    <3>1. PICK w \in Sleepers : pc' = [pc EXCEPT ![t] = "idle", ![w] = "wait"]
      BY <1>3, <2>2 DEF notify_one
    <3>2. w = x
      BY <1>0 DEF Sleepers, LocalsFit
    <3>3. QED
      BY <1>0, <3>1, <3>2
  <2>3. QED
    BY <2>1, <2>2
<1>4. ASSUME NEW t \in Threads, notify_all(t) PROVE WakeIsDue'
  BY <1>0, <1>4 DEF notify_all, WakeIsDue, Sleepers
<1>5. ASSUME NEW t \in Threads, acquire(t) \/ try_acquire(t) \/ spin_exhausted(t)
      PROVE  WakeIsDue'
  <2>1. /\ pc[t] \in {"idle", "spin"} /\ usage' = usage /\ count' = count
        /\ \E l \in {"spin", "subtract", "try", "idle"} : Goto(t, l)
    BY <1>5 DEF acquire, try_acquire, spin_exhausted, NoToken
  <2>2. QED
    BY <1>0, <2>1, WakeStaysDue
<1>6. ASSUME NEW t \in Threads, spin_take(t) \/ try_take(t) \/ retake(t) PROVE WakeIsDue'
  <2>1. /\ pc[t] \in {"spin", "try", "retake"} /\ usage' = usage /\ count' = count - 1
        /\ Goto(t, "idle")
    BY <1>6 DEF spin_take, try_take, retake, Succeed
  <2>2. QED
    BY <1>0, <2>1, WakeStaysDue
<1>7. ASSUME NEW t \in Threads, spin_retry(t) PROVE WakeIsDue'
  BY <1>7 DEF spin_retry, WakeIsDue
<1>8. ASSUME NEW t \in Threads, try_retry(t) PROVE WakeIsDue'
  <2>1. pc[t] = "try" /\ usage' = usage /\ count' = count
    BY <1>8 DEF try_retry
  <2>2. \/ pc' = pc
        \/ \E l \in {"subtract", "idle"} : Goto(t, l)
    BY <1>8 DEF try_retry, NoToken
  <2>3. CASE pc' = pc
    BY <2>1, <2>3 DEF WakeIsDue
  <2>4. QED
    BY <1>0, <2>1, <2>2, <2>3, WakeStaysDue
<1>9. ASSUME NEW t \in Threads, subtract(t) \/ load_count(t) PROVE WakeIsDue'
  <2>1. /\ pc[t] \in {"subtract", "load"} /\ usage' = usage
        /\ count' = count - 1 \/ count' = count
        /\ \E l \in {"idle", "load", "wait"} : Goto(t, l)
    BY <1>9 DEF subtract, load_count, Succeed
  <2>2. QED
    BY <1>0, <2>1, WakeStaysDue
<1>10. ASSUME NEW t \in Threads, futex_sleep(t) PROVE WakeIsDue'
  <2>1. /\ pc[t] = "wait" /\ usage' = usage /\ count' = count /\ count < 0
        /\ Goto(t, "asleep")
    BY <1>0, <1>10 DEF futex_sleep, LocalsFit
  <2>2. QED
    BY <1>0, <2>1, WakeStaysDue
<1>11. ASSUME NEW t \in Threads,
              \/ wait_returns(t) \/ spurious_wakeup(t) \/ deadline_passes(t)
              \/ wait_until_returns(t)
       PROVE  WakeIsDue'
  <2>1. /\ pc[t] \in {"wait", "asleep", "expired"} /\ usage' = usage /\ count' = count
        /\ \E l \in {"load", "wait", "expired", "restore"} : Goto(t, l)
    BY <1>11 DEF wait_returns, spurious_wakeup, deadline_passes, wait_until_returns
  <2>2. QED
    BY <1>0, <2>1, WakeStaysDue
<1>12. ASSUME NEW t \in Threads, restore(t) PROVE WakeIsDue'
  <2>1. /\ pc[t] = "restore" /\ usage' = usage /\ count' = count + 1
        /\ \E l \in {"retake", "idle"} : Goto(t, l)
    BY <1>12 DEF restore
  <2>2. QED
    BY <1>0, <2>1, WakeStaysDue
<1>13. QED
  BY <1>1, <1>2, <1>3, <1>4, <1>5, <1>6, <1>7, <1>8, <1>9, <1>10, <1>11, <1>12
  DEF Next, Progress

\* A single blocking acquirer never sleeps on a word that has a token for it
\* without a notify on its way, among any number of threads that release and
\* try_acquire.
THEOREM SleeperIsWoken == Spec => []NoStrandedSleeper
<1>1. Init => WakeIsDue
  BY DEF Init, WakeIsDue, At
<1>2. Inv /\ WakeIsDue => NoStrandedSleeper
  <2> SUFFICES ASSUME Inv, WakeIsDue, Cardinality(usage.acquirers) = 1,
                      NEW s \in Sleepers, count >= 0
               PROVE  \E t \in Threads : pc[t] \in {"wakeOne", "wakeAll"}
    BY DEF NoStrandedSleeper
  <2>1. IsFiniteSet(usage.acquirers)
    BY SemaphoreUsages, SemaphoreThreads, FS_Subset DEF Inv, CountIsExact, TypeOK
  <2>2. PICK x : usage.acquirers = {x}
    BY <2>1, FS_Singleton
  <2>3. s = x /\ s \in Threads /\ At(s, "asleep")
    BY <2>2 DEF Sleepers, Inv, LocalsFit, At, Blocking, Registered
  <2>4. QED
    BY <2>2, <2>3 DEF WakeIsDue, Waking
<1>3. QED
  BY <1>1, <1>2, InitInv, StepInv, StepWake, PTL DEF Spec

-----------------------------------------------------------------------------
(* The clients' view.                                                      *)

Blocked == {t \in Threads : pc[t] \in Blocking}

\* With the exact word, a positive word is an available token; for a thread
\* that the word counts, so is a word that is not negative.
LEMMA WordMeansToken ==
  ASSUME Inv, NEW t \in Threads, count > 0 \/ (count >= 0 /\ pc[t] \in Registered)
  PROVE  Available > 0
<1>1. IsFiniteSet(Waiters) /\ Cardinality(Waiters) \in Nat
  BY SemaphoreThreads, FS_Subset, FS_CardinalityType DEF Waiters
<1>2. pc[t] \in Registered => Cardinality(Waiters) # 0
  BY <1>1, FS_EmptySet DEF Waiters
<1>3. /\ count = Available - Cardinality(Waiters)
      /\ count \in Int /\ Available \in Int
  BY DEF Inv, CountIsExact, TypeOK, Available
<1> HIDE DEF Available, Waiters, Registered
<1>4. QED
  BY <1>1, <1>2, <1>3

\* A successful acquisition that finds a token takes it.
LEMMA TakeRefines ==
  ASSUME Inv, NEW t \in Threads, Available > 0, acquired' = acquired + 1,
         released' = released, Goto(t, "idle")
  PROVE  Abstract!STake(t)
<1>1. Available' = Available - 1
  BY DEF Available, Inv, CountIsExact, TypeOK
<1>2. Blocked' = Blocked \ {t}
  BY DEF Blocked, Goto, Inv, CountIsExact, TypeOK, Blocking, Registered
<1>3. QED
  BY <1>1, <1>2 DEF Abstract!STake, Blocked

\* Every step of a semaphore without deadlines is a step of the counting
\* semaphore or leaves it alone.
THEOREM StepRefines ==
  Inv /\ [Next]_vars => [~usage.timed => Abstract!SNext]_<<Available, Blocked>>
<1> SUFFICES ASSUME Inv, [Next]_vars, ~usage.timed
             PROVE  Abstract!SNext \/ UNCHANGED <<Available, Blocked>>
  OBVIOUS
<1> USE DEF At
<1>0. /\ count \in Int /\ released \in Nat /\ acquired \in Nat
      /\ pc \in [Threads -> Labels] /\ LocalsFit
  BY DEF Inv, CountIsExact, TypeOK
<1>1. CASE UNCHANGED vars
  BY <1>1 DEF vars, Available, Blocked
<1>2. ASSUME NEW t \in Threads, NEW n \in ReleaseSizes, release(t, n) PROVE Abstract!SNext
  <2>1. PICK l \in {"idle", "wakeOne", "wakeAll"} : Goto(t, l)
    BY <1>2 DEF release
  <2>2. pc[t] = "idle" /\ released' = released + n /\ acquired' = acquired /\ n \in Nat
    BY <1>2, SemaphoreTokens DEF release
  <2>3. Blocked' = Blocked
    BY <1>0, <2>1, <2>2 DEF Blocked, Goto, Blocking, Registered
  <2>4. Available' = Available + n
    BY <1>0, <2>2 DEF Available
  <2>5. QED
    BY <2>3, <2>4 DEF Abstract!SNext, Abstract!SRelease, Blocked
<1>3. ASSUME NEW t \in Threads, notify_one(t) \/ notify_all(t)
      PROVE  UNCHANGED <<Available, Blocked>>
  <2>1. Available' = Available
    BY <1>3 DEF notify_one, notify_all, Available
  <2>2. CASE notify_one(t) /\ Sleepers = {}
    BY <1>0, <2>1, <2>2 DEF notify_one, Blocked, Goto, Blocking, Registered
  <2>3. CASE notify_one(t) /\ Sleepers # {}
    <3>1. PICK w \in Sleepers : pc' = [pc EXCEPT ![t] = "idle", ![w] = "wait"]
      BY <2>3 DEF notify_one
    <3>2. pc[w] = "asleep" /\ w \in Threads /\ pc[t] = "wakeOne"
      BY <2>3 DEF Sleepers, notify_one
    <3>3. QED
      BY <1>0, <2>1, <3>1, <3>2 DEF Blocked, Blocking, Registered
  <2>4. CASE notify_all(t)
    BY <1>0, <2>1, <2>4 DEF notify_all, Sleepers, Blocked, Blocking, Registered
  <2>5. QED
    BY <1>3, <2>2, <2>3, <2>4
<1>4. ASSUME NEW t \in Threads, acquire(t) PROVE Abstract!SNext
  <2>1. PICK l \in {"spin", "subtract"} : Goto(t, l)
    BY <1>4 DEF acquire
  <2>2. pc[t] = "idle" /\ UNCHANGED <<released, acquired>>
    BY <1>4 DEF acquire
  <2>3. t \notin Blocked /\ Blocked' = Blocked \cup {t} /\ Available' = Available
    BY <1>0, <2>1, <2>2 DEF Blocked, Goto, Blocking, Registered, Available
  <2>4. QED
    BY <2>3 DEF Abstract!SNext, Abstract!SRequest, Blocked
<1>5. ASSUME NEW t \in Threads, spin_take(t) \/ try_take(t) PROVE Abstract!SNext
  <2>1. /\ count > 0 /\ Goto(t, "idle") /\ acquired' = acquired + 1 /\ released' = released
    BY <1>0, <1>5 DEF spin_take, try_take, Succeed, LocalsFit
  <2>2. Available > 0
    BY <2>1, WordMeansToken
  <2>3. QED
    BY <2>1, <2>2, TakeRefines DEF Abstract!SNext
<1>6. ASSUME NEW t \in Threads, subtract(t) \/ load_count(t)
      PROVE  Abstract!SNext \/ UNCHANGED <<Available, Blocked>>
  <2>1. CASE acquired' = acquired + 1 /\ Goto(t, "idle")
    <3>1. released' = released /\ (count > 0 \/ (count >= 0 /\ pc[t] \in Registered))
      BY <1>0, <1>6, <2>1 DEF subtract, load_count, Registered
    <3>2. Available > 0
      BY <3>1, WordMeansToken
    <3>3. QED
      BY <2>1, <3>1, <3>2, TakeRefines DEF Abstract!SNext
  <2>2. CASE acquired' = acquired /\ \E l \in {"load", "wait"} : Goto(t, l)
    <3>1. pc[t] \in {"subtract", "load"} /\ released' = released
      BY <1>6 DEF subtract, load_count
    <3>2. QED
      BY <1>0, <2>2, <3>1 DEF Available, Blocked, Goto, Blocking, Registered
  <2>3. QED
    BY <1>6, <2>1, <2>2 DEF subtract, load_count, Succeed
<1>7. ASSUME NEW t \in Threads, try_acquire(t) PROVE UNCHANGED <<Available, Blocked>>
  <2>1. ~timed'[t]
    BY <1>0, <1>7, Zenon DEF try_acquire, Inv, CountIsExact, TypeOK
  <2>2. pc[t] = "idle" /\ UNCHANGED <<released, acquired>>
    BY <1>7 DEF try_acquire
  <2>3. Goto(t, "try") \/ Goto(t, "idle")
    BY <1>7, <2>1 DEF try_acquire, NoToken
  <2>4. QED
    BY <1>0, <2>2, <2>3 DEF Available, Blocked, Goto, Blocking, Registered
<1>8. ASSUME NEW t \in Threads, try_retry(t) PROVE UNCHANGED <<Available, Blocked>>
  <2>1. ~timed[t]
    BY <1>0 DEF LocalsFit
  <2>2. pc[t] = "try" /\ UNCHANGED <<released, acquired, timed>>
    BY <1>8 DEF try_retry
  <2>3. pc' = pc \/ Goto(t, "idle")
    BY <1>8, <2>1, <2>2 DEF try_retry, NoToken
  <2>4. QED
    BY <1>0, <2>2, <2>3 DEF Available, Blocked, Goto, Blocking, Registered
<1>9. ASSUME NEW t \in Threads, spin_retry(t) PROVE UNCHANGED <<Available, Blocked>>
  BY <1>9 DEF spin_retry, Available, Blocked
<1>10. ASSUME NEW t \in Threads,
              \/ spin_exhausted(t) \/ futex_sleep(t) \/ wait_returns(t) \/ spurious_wakeup(t)
       PROVE  UNCHANGED <<Available, Blocked>>
  <2>1. /\ pc[t] \in {"spin", "wait", "asleep"} /\ UNCHANGED <<released, acquired>>
        /\ \E l \in {"subtract", "asleep", "load", "wait"} : Goto(t, l)
    BY <1>10 DEF spin_exhausted, futex_sleep, wait_returns, spurious_wakeup
  <2>2. QED
    BY <1>0, <2>1 DEF Available, Blocked, Goto, Blocking, Registered
<1>11. ASSUME NEW t \in Threads,
              deadline_passes(t) \/ wait_until_returns(t) \/ restore(t) \/ retake(t)
       PROVE  FALSE
  <2>1. timed[t]
    BY <1>0, <1>11
    DEF deadline_passes, wait_until_returns, restore, retake, LocalsFit
  <2>2. QED
    BY <1>0, <2>1 DEF LocalsFit
<1>12. QED
  BY <1>1, <1>2, <1>3, <1>4, <1>5, <1>6, <1>7, <1>8, <1>9, <1>10, <1>11 DEF Next, Progress

\* A parking_semaphore implements the counting semaphore its clients see, for
\* any number of threads: no token is consumed twice.
THEOREM Refinement == Spec => ImplementsSemaphore
<1>1. Init => Abstract!SInit
  BY SemaphoreTokens DEF Init, Abstract!SInit, Available, Blocking, Registered
<1>2. QED
  BY <1>1, InitInv, StepInv, StepRefines, PTL
  DEF Spec, ImplementsSemaphore, Abstract!svars, Blocked

==============================================================================
