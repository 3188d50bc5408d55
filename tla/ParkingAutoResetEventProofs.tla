--------------------- MODULE ParkingAutoResetEventProofs ---------------------
(***************************************************************************)
(* Proofs, for any finite set of threads, of the safety properties of      *)
(* ParkingAutoResetEvent.                                                  *)
(*                                                                         *)
(* The word is exact for every usage.  That a waiter which finds the word  *)
(* above its slot has a token of its own, and that the wakeup it needs is  *)
(* coming, holds where deadlines are used by a single waiter only: the     *)
(* hypothesis LoneDeadlines.  The invariant behind the former is           *)
(* SlotsServed: however far the word is below zero, enough waiters have    *)
(* their slot at or above it, so one whose slot is below the word is not   *)
(* among those the word stands for.                                        *)
(***************************************************************************)
EXTENDS ParkingAutoResetEvent, FiniteSetTheorems, TLAPS

LocalsFit == \A t \in Threads :
  /\ mode[t] # "try" => t \in usage.waiting
  /\ mode[t] = "until" => usage.deadlines
  /\ pc[t] \in {"expired", "lastLook", "giveUp"} => mode[t] = "until"
  /\ pc[t] \in Blocking => mode[t] # "try"
  /\ At(t, "signal") => cur[t] < 1
  /\ At(t, "try") => cur[t] > 0
  /\ pc[t] \in Slotted => my_slot[t] < 0
  /\ At(t, "wait") \/ At(t, "asleep") => cur[t] <= my_slot[t]

Inv == StateIsExact /\ LocalsFit

(* Only an event with a single waiter is used with deadlines.              *)
LoneDeadlines == \A u \in Usages : u.deadlines => Cardinality(u.waiting) <= 1

\* When one thread moves, the number of slots in use changes by that thread's
\* only; a slot in use is counted.
LEMMA WaiterMove ==
  ASSUME TypeOK, NEW t \in Threads, NEW l \in Labels, Goto(t, l)
  PROVE  /\ pc' \in [Threads -> Labels]
         /\ Cardinality(Waiters) \in Nat
         /\ pc[t] \in Slotted => Cardinality(Waiters) > 0
         /\ Cardinality(Waiters') = Cardinality(Waiters)
              + (IF l \in Slotted THEN 1 ELSE 0) - (IF pc[t] \in Slotted THEN 1 ELSE 0)
<1>1. pc' \in [Threads -> Labels]
  BY DEF TypeOK, Goto
<1>2. IsFiniteSet(Waiters) /\ Cardinality(Waiters) \in Nat
  BY EventThreads, FS_Subset, FS_CardinalityType DEF Waiters
<1>3. t \in Waiters <=> pc[t] \in Slotted
  BY DEF Waiters
<1>4. Cardinality(Waiters) = 0 <=> Waiters = {}
  BY <1>2, FS_EmptySet
<1>5. Waiters' = IF l \in Slotted THEN Waiters \cup {t} ELSE Waiters \ {t}
  BY DEF Waiters, TypeOK, Goto
<1>6. /\ Cardinality(Waiters \cup {t}) = IF t \in Waiters THEN Cardinality(Waiters)
                                                          ELSE Cardinality(Waiters) + 1
      /\ Cardinality(Waiters \ {t}) = IF t \in Waiters THEN Cardinality(Waiters) - 1
                                                       ELSE Cardinality(Waiters)
  BY <1>2, FS_AddElement, FS_RemoveElement
<1>7. QED
  BY <1>1, <1>2, <1>3, <1>4, <1>5, <1>6

\* A new event holds the token it was constructed with and nobody waits.
THEOREM InitInv == Init => Inv
<1> SUFFICES ASSUME Init PROVE Inv
  OBVIOUS
<1>1. Waiters = {} /\ Cardinality(Waiters) = 0
  BY FS_EmptySet DEF Init, Waiters, Slotted
<1>2. state \in {0, 1}
  BY EventParameters DEF Init
<1>3. TypeOK
  BY <1>2 DEF Init, TypeOK, Labels, Modes
<1>4. LocalsFit
  BY DEF Init, LocalsFit, At, Blocking, Slotted
<1>5. QED
  BY <1>1, <1>2, <1>3, <1>4 DEF Init, Inv, StateIsExact, Tokens

\* A step in which one thread moves keeps the word exact if the word and the
\* histories change by what the slots in use change.
LEMMA OneMoves ==
  ASSUME Inv, NEW t \in Threads, NEW l \in Labels, Goto(t, l), usage' = usage,
         cur' \in [Threads -> Int], my_slot' \in [Threads -> Int], mode' \in [Threads -> Modes],
         state' \in Int, usage.deadlines \/ state' <= 1, signals' \in Nat, wakeups' \in Nat,
         state' - state = (signals' - signals) - (wakeups' - wakeups)
              - (IF l \in Slotted THEN 1 ELSE 0) + (IF pc[t] \in Slotted THEN 1 ELSE 0)
  PROVE  StateIsExact'
<1>1. /\ pc' \in [Threads -> Labels]
      /\ Cardinality(Waiters) \in Nat
      /\ Cardinality(Waiters') = Cardinality(Waiters)
              + (IF l \in Slotted THEN 1 ELSE 0) - (IF pc[t] \in Slotted THEN 1 ELSE 0)
  BY WaiterMove DEF Inv, StateIsExact
<1>2. state' = signals' - wakeups' - Cardinality(Waiters')
  <2>1. PICK n \in Nat, m \in Int : n = Cardinality(Waiters) /\ m = Cardinality(Waiters')
    BY <1>1
  <2>2. state = signals - wakeups - n /\ state \in Int /\ signals \in Nat /\ wakeups \in Nat
    BY <2>1 DEF Inv, StateIsExact, TypeOK, Tokens
  <2>3. CASE l \in Slotted /\ pc[t] \in Slotted
    BY <1>1, <2>1, <2>2, <2>3
  <2>4. CASE l \in Slotted /\ pc[t] \notin Slotted
    BY <1>1, <2>1, <2>2, <2>4
  <2>5. CASE l \notin Slotted /\ pc[t] \in Slotted
    <3>1. m = n - 1 /\ state' - state = (signals' - signals) - (wakeups' - wakeups) + 1
      BY <1>1, <2>1, <2>2, <2>5
    <3>2. QED
      BY <2>1, <2>2, <3>1
  <2>6. CASE l \notin Slotted /\ pc[t] \notin Slotted
    BY <1>1, <2>1, <2>2, <2>6
  <2>7. QED
    BY <2>3, <2>4, <2>5, <2>6
<1>3. QED
  BY <1>1, <1>2 DEF Inv, StateIsExact, TypeOK, Tokens

\* Every step of every operation preserves the invariant.
THEOREM StepInv == Inv /\ [Next]_vars => Inv'
<1> SUFFICES ASSUME Inv, [Next]_vars PROVE Inv'
  OBVIOUS
<1> USE DEF Labels, Blocking, Slotted, At, Modes
<1>0. /\ state \in Int /\ signals \in Nat /\ wakeups \in Nat /\ usage \in Usages
      /\ (usage.deadlines \/ state <= 1)
      /\ cur \in [Threads -> Int] /\ my_slot \in [Threads -> Int] /\ mode \in [Threads -> Modes]
      /\ pc \in [Threads -> Labels] /\ LocalsFit
  BY DEF Inv, StateIsExact, TypeOK
<1>1. CASE UNCHANGED vars
  BY <1>1 DEF vars, Inv, StateIsExact, TypeOK, LocalsFit, Waiters, Tokens
<1>2. ASSUME NEW t \in Threads, signal(t) \/ signal_retry(t) PROVE Inv'
  <2>1. PICK l \in {"signal", "idle"} : Goto(t, l) /\ (l = "signal" => state < 1)
    BY <1>0, <1>2 DEF signal, signal_retry
  <2>2. /\ pc[t] \in {"idle", "signal"} /\ cur' = [cur EXCEPT ![t] = state]
        /\ UNCHANGED <<usage, state, my_slot, mode, signals, wakeups>>
    BY <1>2 DEF signal, signal_retry, Read
  <2>3. StateIsExact'
    BY <1>0, <2>1, <2>2, OneMoves
  <2>4. LocalsFit'
    BY <1>0, <2>1, <2>2 DEF LocalsFit, Goto
  <2>5. QED
    BY <2>3, <2>4 DEF Inv
<1>3. ASSUME NEW t \in Threads, signal_exchange(t) PROVE Inv'
  <2>1. PICK l \in {"notify", "idle"} : Goto(t, l)
    BY <1>3 DEF signal_exchange
  <2>2. /\ pc[t] = "signal" /\ state < 1 /\ state' = state + 1 /\ signals' = signals + 1
        /\ UNCHANGED <<usage, cur, my_slot, mode, wakeups>>
    BY <1>0, <1>3 DEF signal_exchange, LocalsFit
  <2>3. StateIsExact'
    BY <1>0, <2>1, <2>2, OneMoves
  <2>4. LocalsFit'
    BY <1>0, <2>1, <2>2 DEF LocalsFit, Goto
  <2>5. QED
    BY <2>3, <2>4 DEF Inv
<1>4. ASSUME NEW t \in Threads, notify_all(t) PROVE Inv'
  <2>1. TypeOK'
    BY <1>0, <1>4 DEF notify_all, TypeOK
  <2>2. Waiters' = Waiters
    BY <1>0, <1>4 DEF notify_all, Waiters
  <2>3. LocalsFit'
    BY <1>0, <1>4 DEF notify_all, LocalsFit
  <2>4. QED
    BY <1>4, <2>1, <2>2, <2>3 DEF notify_all, Inv, StateIsExact, Tokens
<1>5. ASSUME NEW t \in Threads, try_wait(t) PROVE Inv'
  <2>1. PICK m \in {"try", "until"} :
          mode' = [mode EXCEPT ![t] = m] /\ (m = "until" => usage.deadlines /\ t \in usage.waiting)
    BY <1>5 DEF try_wait
  <2>2. /\ pc[t] = "idle" /\ cur' = [cur EXCEPT ![t] = state]
        /\ UNCHANGED <<usage, state, my_slot, signals, wakeups>>
    BY <1>5 DEF try_wait, Read
  <2>3. PICK l \in {"try", "subtract", "idle"} :
          Goto(t, l) /\ (l = "try" => state > 0) /\ (l = "subtract" => m = "until")
    BY <1>0, <1>5, <2>1 DEF try_wait, NoToken
  <2>4. StateIsExact'
    BY <1>0, <2>1, <2>2, <2>3, OneMoves
  <2>5. LocalsFit'
    BY <1>0, <2>1, <2>2, <2>3 DEF LocalsFit, Goto
  <2>6. QED
    BY <2>4, <2>5 DEF Inv
<1>6. ASSUME NEW t \in Threads, try_take(t) PROVE Inv'
  <2>1. /\ pc[t] = "try" /\ Goto(t, "idle") /\ state' = state - 1 /\ wakeups' = wakeups + 1
        /\ UNCHANGED <<usage, cur, my_slot, mode, signals>>
    BY <1>6 DEF try_take, Succeed
  <2>2. StateIsExact'
    BY <1>0, <2>1, OneMoves
  <2>3. LocalsFit'
    BY <1>0, <2>1 DEF LocalsFit, Goto
  <2>4. QED
    BY <2>2, <2>3 DEF Inv
<1>7. ASSUME NEW t \in Threads, try_retry(t) \/ spin(t) PROVE Inv'
  <2>1. /\ pc[t] \in {"try", "spin"} /\ cur' = [cur EXCEPT ![t] = state]
        /\ UNCHANGED <<usage, state, my_slot, mode, signals, wakeups>>
    BY <1>7 DEF try_retry, spin, Read
  <2>2. PICK l \in {"try", "subtract", "idle"} :
          Goto(t, l) /\ (l = "try" => state > 0) /\ (l = "subtract" => mode[t] # "try")
    <3>1. CASE try_retry(t) /\ state > 0
      <4>1. pc' = [pc EXCEPT ![t] = "try"]
        BY <1>0, <3>1 DEF try_retry
      <4>2. QED
        BY <3>1, <4>1 DEF Goto
    <3>2. CASE try_retry(t) /\ ~(state > 0)
      BY <2>1, <3>2 DEF try_retry, NoToken
    <3>3. CASE spin(t)
      BY <1>0, <3>3 DEF spin, LocalsFit
    <3>4. QED
      BY <1>7, <3>1, <3>2, <3>3
  <2>3. StateIsExact'
    BY <1>0, <2>1, <2>2, OneMoves
  <2>4. LocalsFit'
    BY <1>0, <2>1, <2>2 DEF LocalsFit, Goto
  <2>5. QED
    BY <2>3, <2>4 DEF Inv
<1>8. ASSUME NEW t \in Threads, wait(t) PROVE Inv'
  <2>1. PICK l \in {"spin", "subtract"} : Goto(t, l)
    BY <1>8 DEF wait
  <2>2. /\ pc[t] = "idle" /\ t \in usage.waiting /\ mode' = [mode EXCEPT ![t] = "wait"]
        /\ UNCHANGED <<usage, state, cur, my_slot, signals, wakeups>>
    BY <1>8 DEF wait
  <2>3. StateIsExact'
    BY <1>0, <2>1, <2>2, OneMoves
  <2>4. LocalsFit'
    BY <1>0, <2>1, <2>2 DEF LocalsFit, Goto
  <2>5. QED
    BY <2>3, <2>4 DEF Inv
<1>9. ASSUME NEW t \in Threads, subtract(t) PROVE Inv'
  <2>1. /\ pc[t] = "subtract" /\ state' = state - 1
        /\ UNCHANGED <<usage, cur, mode, signals>>
    BY <1>9 DEF subtract
  <2>2. CASE state > 0
    <3>1. wakeups' = wakeups + 1 /\ Goto(t, "idle") /\ my_slot' = my_slot
      BY <1>9, <2>2 DEF subtract, Succeed
    <3>2. StateIsExact'
      BY <1>0, <2>1, <3>1, OneMoves
    <3>3. LocalsFit'
      BY <1>0, <2>1, <3>1 DEF LocalsFit, Goto
    <3>4. QED
      BY <3>2, <3>3 DEF Inv
  <2>3. CASE ~(state > 0)
    <3>1. wakeups' = wakeups /\ Goto(t, "load") /\ my_slot' = [my_slot EXCEPT ![t] = state - 1]
      BY <1>9, <2>3 DEF subtract
    <3>2. StateIsExact'
      BY <1>0, <2>1, <3>1, OneMoves
    <3>3. LocalsFit'
      BY <1>0, <2>1, <2>3, <3>1 DEF LocalsFit, Goto
    <3>4. QED
      BY <3>2, <3>3 DEF Inv
  <2>4. QED
    BY <2>2, <2>3
<1>10. ASSUME NEW t \in Threads, load_state(t) \/ last_look(t) PROVE Inv'
  <2>1. /\ pc[t] \in {"load", "lastLook"} /\ cur' = [cur EXCEPT ![t] = state]
        /\ UNCHANGED <<usage, state, my_slot, mode, signals>>
    BY <1>10 DEF load_state, last_look, Read
  <2>2. \/ wakeups' = wakeups + 1 /\ Goto(t, "idle")
        \/ wakeups' = wakeups /\ Goto(t, "wait") /\ state <= my_slot[t]
        \/ wakeups' = wakeups /\ Goto(t, "giveUp") /\ pc[t] = "lastLook"
    BY <1>0, <1>10 DEF load_state, last_look, Succeed
  <2>3. StateIsExact'
    BY <1>0, <2>1, <2>2, OneMoves
  <2>4. LocalsFit'
    BY <1>0, <2>1, <2>2 DEF LocalsFit, Goto
  <2>5. QED
    BY <2>3, <2>4 DEF Inv
<1>11. ASSUME NEW t \in Threads,
              \/ futex_sleep(t) \/ wait_returns(t) \/ spurious_wakeup(t) \/ deadline_passes(t)
              \/ wait_until_returns(t)
       PROVE  Inv'
  <2>1. UNCHANGED <<usage, state, cur, my_slot, mode, signals, wakeups>>
    BY <1>11 DEF futex_sleep, wait_returns, spurious_wakeup, deadline_passes, wait_until_returns
  <2>2. PICK l \in {"asleep", "wait", "load", "expired", "lastLook"} :
          /\ Goto(t, l) /\ pc[t] \in {"wait", "asleep", "expired"}
          /\ l \in {"asleep", "wait"} => pc[t] \in {"wait", "asleep"}
          /\ l \in {"expired", "lastLook"} => mode[t] = "until" \/ pc[t] = "expired"
    BY <1>11 DEF futex_sleep, wait_returns, spurious_wakeup, deadline_passes, wait_until_returns
  <2>3. StateIsExact'
    BY <1>0, <2>1, <2>2, OneMoves
  <2>4. LocalsFit'
    BY <1>0, <2>1, <2>2 DEF LocalsFit, Goto
  <2>5. QED
    BY <2>3, <2>4 DEF Inv
<1>12. ASSUME NEW t \in Threads, give_up(t) PROVE Inv'
  <2>1. /\ pc[t] = "giveUp" /\ Goto(t, "idle") /\ state' = state + 1
        /\ UNCHANGED <<usage, cur, my_slot, mode, signals, wakeups>>
    BY <1>12 DEF give_up
  <2>2. usage.deadlines
    BY <1>0, <2>1 DEF LocalsFit
  <2>3. StateIsExact'
    BY <1>0, <2>1, <2>2, OneMoves
  <2>4. LocalsFit'
    BY <1>0, <2>1 DEF LocalsFit, Goto
  <2>5. QED
    BY <2>3, <2>4 DEF Inv
<1>13. QED
  BY <1>1, <1>2, <1>3, <1>4, <1>5, <1>6, <1>7, <1>8, <1>9, <1>10, <1>11, <1>12
  DEF Next, Progress, Retry

\* The word is the tokens delivered and not consumed minus the slots in use,
\* and without deadlines at most one token is stored, for every usage.
THEOREM ExactState == Spec => []StateIsExact
<1>1. Inv => StateIsExact
  BY DEF Inv
<1>2. QED
  BY <1>1, InitInv, StepInv, PTL DEF Spec

-----------------------------------------------------------------------------
(* Slots.                                                                  *)

Above(v) == {w \in Waiters : my_slot[w] >= v}
SlotsServed == \A v \in Int : state <= v /\ v <= 0 => Cardinality(Above(v)) >= -v

\* The waiters and those of them at or above a value are finite sets.
LEMMA SlotsFinite ==
  ASSUME NEW v
  PROVE  /\ IsFiniteSet(Waiters) /\ Cardinality(Waiters) \in Nat
         /\ IsFiniteSet(Above(v)) /\ Cardinality(Above(v)) \in Nat
         /\ Cardinality(Above(v)) <= Cardinality(Waiters)
<1>1. IsFiniteSet(Waiters)
  BY EventThreads, FS_Subset DEF Waiters
<1>2. Above(v) \subseteq Waiters
  BY DEF Above
<1>3. QED
  BY <1>1, <1>2, FS_Subset, FS_CardinalityType

\* The same after a step.
LEMMA SlotsFiniteNext ==
  ASSUME NEW v
  PROVE  IsFiniteSet(Above(v)') /\ Cardinality(Above(v)') \in Nat
<1>1. Above(v)' \subseteq Threads
  BY DEF Above, Waiters
<1>2. QED
  BY <1>1, EventThreads, FS_Subset, FS_CardinalityType

\* Where the word is not negative nobody needs to be at or above it.
LEMMA SlotsIdle ==
  ASSUME state' \in Int, state' >= 0
  PROVE  SlotsServed'
<1> SUFFICES ASSUME NEW v \in Int, state' <= v, v <= 0
             PROVE  Cardinality(Above(v)') >= -v
  BY DEF SlotsServed
<1>1. Cardinality(Above(v)') \in Nat
  BY SlotsFiniteNext
<1>2. QED
  BY <1>1

\* A step that does not lower the word, and in which only a thread whose slot
\* is below the word gives its slot back, leaves enough slots above.
LEMMA SlotsKept ==
  ASSUME Inv, SlotsServed, NEW t \in Threads, NEW l \in Labels, Goto(t, l),
         state' \in Int, state' >= state, my_slot' = my_slot,
         pc[t] \in Slotted => l \in Slotted \/ my_slot[t] < state'
  PROVE  SlotsServed'
<1> SUFFICES ASSUME NEW v \in Int, state' <= v, v <= 0
             PROVE  Cardinality(Above(v)') >= -v
  BY DEF SlotsServed
<1>0. state \in Int /\ my_slot \in [Threads -> Int] /\ pc \in [Threads -> Labels]
  BY DEF Inv, StateIsExact, TypeOK
<1>1. Cardinality(Above(v)) >= -v
  BY <1>0 DEF SlotsServed
<1>2. Above(v) \subseteq Above(v)'
  BY <1>0 DEF Above, Waiters, Goto
<1>3. Cardinality(Above(v)) <= Cardinality(Above(v)')
  BY <1>2, SlotsFiniteNext, FS_Subset
<1>4. QED
  BY <1>1, <1>3, SlotsFinite, SlotsFiniteNext

\* A thread that gives its slot back is, with lone deadlines, the only one in
\* a blocking call.
LEMMA LoneWaiter ==
  ASSUME LoneDeadlines, Inv, NEW t \in Threads, pc[t] = "giveUp"
  PROVE  \A u \in Threads : pc[u] \in Blocking => u = t
<1>1. usage \in Usages /\ usage.deadlines /\ t \in usage.waiting /\ usage.waiting \subseteq Threads
  BY EventUsages DEF Inv, StateIsExact, TypeOK, LocalsFit
<1>2. IsFiniteSet(usage.waiting) /\ Cardinality(usage.waiting) <= 1
  BY <1>1, EventThreads, FS_Subset DEF LoneDeadlines
<1>3. Cardinality(usage.waiting) = 1
  BY <1>1, <1>2, FS_EmptySet, FS_CardinalityType
<1>4. usage.waiting = {t}
  BY <1>1, <1>2, <1>3, FS_Singleton
<1>5. QED
  BY <1>4 DEF Inv, LocalsFit

\* A waiter that finds the word above its slot, and a thread that finds it
\* positive, has a token to consume: the slots at or above the word account
\* for the word alone.
LEMMA TokenIsThere ==
  ASSUME Inv, SlotsServed, NEW t \in Threads,
         state > 0 \/ (pc[t] \in Slotted /\ state > my_slot[t])
  PROVE  Tokens > 0
<1>0. /\ state \in Int /\ Tokens \in Int /\ state = Tokens - Cardinality(Waiters)
      /\ my_slot \in [Threads -> Int]
  BY DEF Inv, StateIsExact, TypeOK, Tokens
<1>1. Cardinality(Waiters) \in Nat /\ IsFiniteSet(Waiters)
  BY SlotsFinite
<1>2. CASE state > 0
  <2> HIDE DEF Tokens, Waiters
  <2> QED
    BY <1>0, <1>1, <1>2
<1>3. CASE ~(state > 0)
  <2>1. t \in Waiters /\ t \notin Above(state)
    BY <1>0, <1>3 DEF Waiters, Above
  <2>2. Cardinality(Waiters \ {t}) = Cardinality(Waiters) - 1
    BY <1>1, <2>1, FS_RemoveElement
  <2>3. Above(state) \subseteq Waiters \ {t} /\ IsFiniteSet(Waiters \ {t})
    BY <1>1, <2>1, FS_Subset DEF Above
  <2>4. Cardinality(Above(state)) <= Cardinality(Waiters) - 1
    BY <2>2, <2>3, FS_Subset
  <2>5. Cardinality(Above(state)) >= -state /\ Cardinality(Above(state)) \in Nat
    BY <1>0, <1>3, SlotsFinite DEF SlotsServed
  <2> HIDE DEF Tokens, Waiters
  <2>6. QED
    BY <1>0, <1>1, <2>4, <2>5
<1>4. QED
  BY <1>2, <1>3

\* Every step leaves enough slots at or above the word.
THEOREM StepSlots ==
  ASSUME LoneDeadlines
  PROVE  Inv /\ SlotsServed /\ [Next]_vars => SlotsServed'
<1> SUFFICES ASSUME Inv, SlotsServed, [Next]_vars PROVE SlotsServed'
  OBVIOUS
<1> USE DEF At
<1>0. /\ state \in Int /\ my_slot \in [Threads -> Int] /\ pc \in [Threads -> Labels]
      /\ cur \in [Threads -> Int] /\ LocalsFit
  BY DEF Inv, StateIsExact, TypeOK
<1>1. CASE UNCHANGED vars
  BY <1>1 DEF vars, SlotsServed, Above, Waiters
<1>2. ASSUME NEW t \in Threads,
             \/ signal(t) \/ signal_retry(t) \/ try_wait(t) \/ try_retry(t) \/ wait(t) \/ spin(t)
      PROVE  SlotsServed'
  <2>1. state' = state /\ my_slot' = my_slot /\ pc[t] \in {"idle", "signal", "try", "spin"}
    BY <1>2 DEF signal, signal_retry, try_wait, try_retry, wait, spin
  <2>2. pc' = pc \/ \E l \in {"signal", "idle", "try", "subtract", "spin"} : Goto(t, l)
    BY <1>2 DEF signal, signal_retry, try_wait, try_retry, wait, spin, NoToken
  <2>3. CASE pc' = pc
    BY <2>1, <2>3 DEF SlotsServed, Above, Waiters
  <2>4. CASE \E l \in {"signal", "idle", "try", "subtract", "spin"} : Goto(t, l)
    BY <1>0, <2>1, <2>4, SlotsKept DEF Labels, Blocking, Slotted
  <2>5. QED
    BY <2>2, <2>3, <2>4
<1>3. ASSUME NEW t \in Threads, signal_exchange(t) PROVE SlotsServed'
  <2>1. /\ state' = state + 1 /\ my_slot' = my_slot /\ pc[t] = "signal"
        /\ \E l \in {"notify", "idle"} : Goto(t, l)
    BY <1>3 DEF signal_exchange
  <2>2. QED
    BY <1>0, <2>1, SlotsKept DEF Labels, Blocking, Slotted
<1>4. ASSUME NEW t \in Threads, notify_all(t) PROVE SlotsServed'
  <2>1. Waiters' = Waiters
    BY <1>0, <1>4 DEF notify_all, Waiters, Slotted
  <2>2. QED
    BY <1>4, <2>1 DEF notify_all, SlotsServed, Above
<1>5. ASSUME NEW t \in Threads, try_take(t) PROVE SlotsServed'
  <2>1. state > 0 /\ state' = state - 1
    BY <1>0, <1>5 DEF try_take, LocalsFit
  <2>2. QED
    BY <1>0, <2>1, SlotsIdle
<1>6. ASSUME NEW t \in Threads, subtract(t) PROVE SlotsServed'
  <2>1. state' = state - 1 /\ pc[t] = "subtract"
    BY <1>6 DEF subtract
  <2>2. CASE state > 0
    BY <1>0, <2>1, <2>2, SlotsIdle
  <2>3. CASE ~(state > 0)
    <3>1. my_slot' = [my_slot EXCEPT ![t] = state - 1] /\ Goto(t, "load")
      BY <1>6, <2>3 DEF subtract
    <3> SUFFICES ASSUME NEW v \in Int, state' <= v, v <= 0
                 PROVE  Cardinality(Above(v)') >= -v
      BY DEF SlotsServed
    <3>2. t \notin Waiters /\ t \in Waiters' /\ Waiters \subseteq Waiters'
      BY <1>0, <2>1, <3>1 DEF Waiters, Slotted, Goto
    <3>3. Above(v) \subseteq Above(v)'
      BY <1>0, <3>1, <3>2 DEF Above, Waiters
    <3>4. Cardinality(Above(v)) <= Cardinality(Above(v)')
      BY <3>3, SlotsFiniteNext, FS_Subset
    <3>5. CASE state <= v
      <4>1. Cardinality(Above(v)) >= -v
        BY <3>5 DEF SlotsServed
      <4>2. QED
        BY <3>4, <4>1, SlotsFinite, SlotsFiniteNext
    <3>6. CASE ~(state <= v)
      <4>1. v = state - 1
        BY <1>0, <2>1, <3>6
      <4>2. Above(state) \cup {t} \subseteq Above(v)'
        BY <1>0, <3>1, <3>2, <4>1 DEF Above, Waiters
      <4>3. /\ Cardinality(Above(state) \cup {t}) = Cardinality(Above(state)) + 1
            /\ IsFiniteSet(Above(state) \cup {t})
        <5>1. t \notin Above(state)
          BY <3>2 DEF Above
        <5>2. QED
          BY <5>1, SlotsFinite, FS_AddElement
      <4>4. Cardinality(Above(state) \cup {t}) <= Cardinality(Above(v)')
        BY <4>2, SlotsFiniteNext, FS_Subset
      <4>5. Cardinality(Above(state)) >= -state /\ Cardinality(Above(state)) \in Nat
        BY <1>0, <2>3, SlotsFinite DEF SlotsServed
      <4>6. QED
        BY <1>0, <4>1, <4>3, <4>4, <4>5, SlotsFiniteNext
    <3>7. QED
      BY <3>5, <3>6
  <2>4. QED
    BY <2>2, <2>3
<1>7. ASSUME NEW t \in Threads, load_state(t) \/ last_look(t) PROVE SlotsServed'
  <2>1. state' = state /\ my_slot' = my_slot
    BY <1>7 DEF load_state, last_look
  <2>2. PICK l \in {"idle", "wait", "giveUp"} :
          Goto(t, l) /\ (l = "idle" => my_slot[t] < state)
    BY <1>0, <1>7 DEF load_state, last_look, Succeed
  <2>3. QED
    BY <1>0, <2>1, <2>2, SlotsKept DEF Labels, Blocking, Slotted
<1>8. ASSUME NEW t \in Threads,
             \/ futex_sleep(t) \/ wait_returns(t) \/ spurious_wakeup(t) \/ deadline_passes(t)
             \/ wait_until_returns(t)
      PROVE  SlotsServed'
  <2>1. /\ state' = state /\ my_slot' = my_slot
        /\ \E l \in {"asleep", "wait", "load", "expired", "lastLook"} : Goto(t, l)
    BY <1>8 DEF futex_sleep, wait_returns, spurious_wakeup, deadline_passes, wait_until_returns
  <2>2. QED
    BY <1>0, <2>1, SlotsKept DEF Labels, Blocking, Slotted
<1>9. ASSUME NEW t \in Threads, give_up(t) PROVE SlotsServed'
  <2>1. pc[t] = "giveUp" /\ state' = state + 1
    BY <1>9 DEF give_up
  <2>2. Waiters = {t}
    BY <2>1, LoneWaiter DEF Waiters, Blocking, Slotted
  <2>3. Cardinality(Waiters) = 1
    BY <2>2, FS_Singleton
  <2>4. state >= -1
    <3>1. CASE state > 0
      BY <1>0, <3>1
    <3>2. CASE ~(state > 0)
      <4>1. Cardinality(Above(state)) >= -state /\ Cardinality(Above(state)) \in Nat
        BY <1>0, <3>2, SlotsFinite DEF SlotsServed
      <4>2. Cardinality(Above(state)) <= 1
        BY <2>3, SlotsFinite
      <4>3. QED
        BY <1>0, <4>1, <4>2
    <3>3. QED
      BY <3>1, <3>2
  <2>5. QED
    BY <1>0, <2>1, <2>4, SlotsIdle
<1>10. QED
  BY <1>1, <1>2, <1>3, <1>4, <1>5, <1>6, <1>7, <1>8, <1>9 DEF Next, Progress, Retry

\* A new event has no waiter and its word is not negative.
LEMMA InitSlots == Init => SlotsServed
<1> SUFFICES ASSUME Init, NEW v \in Int, state <= v, v <= 0
             PROVE  Cardinality(Above(v)) >= -v
  BY DEF SlotsServed
<1>1. state \in {0, 1} /\ v = 0
  BY EventParameters DEF Init
<1>2. QED
  BY <1>1, SlotsFinite

\* No more waits succeed than tokens were delivered, where deadlines are used
\* by a single waiter only.
THEOREM NoPhantoms == ASSUME LoneDeadlines PROVE Spec => []NoPhantomWakeup
<1>1. Inv /\ SlotsServed => NoPhantomWakeup
  <2> SUFFICES ASSUME Inv, SlotsServed PROVE wakeups <= signals
    BY DEF NoPhantomWakeup
  <2>0. /\ state \in Int /\ signals \in Nat /\ wakeups \in Nat
        /\ state = Tokens - Cardinality(Waiters) /\ Tokens = signals - wakeups
    BY DEF Inv, StateIsExact, TypeOK, Tokens
  <2>1. Cardinality(Waiters) \in Nat
    BY SlotsFinite
  <2>2. state <= 0 => Cardinality(Waiters) >= -state
    <3>1. state <= 0 => Cardinality(Above(state)) >= -state
      BY <2>0 DEF SlotsServed
    <3>2. Cardinality(Above(state)) <= Cardinality(Waiters) /\ Cardinality(Above(state)) \in Nat
      BY SlotsFinite
    <3>3. QED
      BY <2>0, <2>1, <3>1, <3>2
  <2> HIDE DEF Tokens, Waiters
  <2>3. QED
    BY <2>0, <2>1, <2>2
<1>2. QED
  BY <1>1, InitInv, InitSlots, StepInv, StepSlots, PTL DEF Spec

-----------------------------------------------------------------------------
(* Wakeups.                                                                *)

\* A step of a thread that is not about to notify keeps the promise of a
\* wakeup, if it goes to sleep only on a word that is not above its slot and
\* the word grows only from zero or by the only blocked thread.
LEMMA WakeupStays ==
  ASSUME Inv, NoLostWakeup, NEW t \in Threads, NEW l \in Labels, Goto(t, l),
         pc[t] # "notify", l = "asleep" => state' <= my_slot[t],
         \A u \in Threads : u # t => my_slot'[u] = my_slot[u], my_slot'[t] = my_slot[t] \/ l # "asleep",
         state' \in Int,
         \/ state' <= state
         \/ state >= 0
         \/ \A u \in Threads : pc[u] \in Blocking => u = t
  PROVE  NoLostWakeup'
<1> SUFFICES ASSUME NEW u \in Threads, pc'[u] = "asleep", state' > my_slot'[u]
             PROVE  \E s \in Threads : pc'[s] = "notify"
  BY DEF NoLostWakeup, At
<1>0. /\ state \in Int /\ my_slot \in [Threads -> Int] /\ pc \in [Threads -> Labels]
      /\ LocalsFit
  BY DEF Inv, StateIsExact, TypeOK
<1>1. u # t
  BY <1>0 DEF Goto
<1>2. pc[u] = "asleep" /\ my_slot'[u] = my_slot[u] /\ my_slot[u] < 0
  BY <1>0, <1>1 DEF Goto, LocalsFit, Slotted
<1>3. state > my_slot[u]
  BY <1>0, <1>1, <1>2 DEF Blocking, Slotted
<1>4. PICK s \in Threads : pc[s] = "notify"
  BY <1>2, <1>3 DEF NoLostWakeup, At
<1>5. QED
  BY <1>0, <1>4 DEF Goto

\* Every step keeps the promise of a wakeup.
THEOREM StepWakeup ==
  ASSUME LoneDeadlines
  PROVE  Inv /\ NoLostWakeup /\ [Next]_vars => NoLostWakeup'
<1> SUFFICES ASSUME Inv, NoLostWakeup, [Next]_vars PROVE NoLostWakeup'
  OBVIOUS
<1> USE DEF At
<1>0. /\ state \in Int /\ my_slot \in [Threads -> Int] /\ pc \in [Threads -> Labels]
      /\ cur \in [Threads -> Int] /\ LocalsFit
  BY DEF Inv, StateIsExact, TypeOK
<1>1. CASE UNCHANGED vars
  BY <1>1 DEF vars, NoLostWakeup
<1>2. ASSUME NEW t \in Threads,
             \/ signal(t) \/ signal_retry(t) \/ try_wait(t) \/ try_retry(t) \/ wait(t) \/ spin(t)
      PROVE  NoLostWakeup'
  <2>1. state' = state /\ my_slot' = my_slot /\ pc[t] \in {"idle", "signal", "try", "spin"}
    BY <1>2 DEF signal, signal_retry, try_wait, try_retry, wait, spin
  <2>2. pc' = pc \/ \E l \in {"signal", "idle", "try", "subtract", "spin"} : Goto(t, l)
    BY <1>2 DEF signal, signal_retry, try_wait, try_retry, wait, spin, NoToken
  <2>3. CASE pc' = pc
    BY <2>1, <2>3 DEF NoLostWakeup
  <2>4. CASE \E l \in {"signal", "idle", "try", "subtract", "spin"} : Goto(t, l)
    BY <1>0, <2>1, <2>4, WakeupStays DEF Labels, Blocking
  <2>5. QED
    BY <2>2, <2>3, <2>4
<1>3. ASSUME NEW t \in Threads, signal_exchange(t) PROVE NoLostWakeup'
  <2>1. state = cur[t] /\ state' = state + 1 /\ my_slot' = my_slot /\ pc[t] = "signal"
    BY <1>3 DEF signal_exchange
  <2>2. CASE state < 0
    <3>1. pc'[t] = "notify"
      BY <1>0, <1>3, <2>1, <2>2 DEF signal_exchange, Goto
    <3>2. QED
      BY <3>1 DEF NoLostWakeup
  <2>3. CASE ~(state < 0)
    <3>1. Goto(t, "idle")
      BY <1>3, <2>1, <2>3 DEF signal_exchange
    <3>2. QED
      BY <1>0, <2>1, <2>3, <3>1, WakeupStays DEF Labels
  <2>4. QED
    BY <2>2, <2>3
<1>4. ASSUME NEW t \in Threads, notify_all(t) PROVE NoLostWakeup'
  BY <1>0, <1>4 DEF notify_all, NoLostWakeup
<1>5. ASSUME NEW t \in Threads, try_take(t) PROVE NoLostWakeup'
  <2>1. state' = state - 1 /\ my_slot' = my_slot /\ pc[t] = "try" /\ Goto(t, "idle")
    BY <1>5 DEF try_take, Succeed
  <2>2. QED
    BY <1>0, <2>1, WakeupStays DEF Labels
<1>6. ASSUME NEW t \in Threads, subtract(t) PROVE NoLostWakeup'
  <2>1. /\ state' = state - 1 /\ pc[t] = "subtract"
        /\ \A u \in Threads : u # t => my_slot'[u] = my_slot[u]
        /\ \E l \in {"idle", "load"} : Goto(t, l)
    BY <1>0, <1>6 DEF subtract, Succeed
  <2>2. QED
    BY <1>0, <2>1, WakeupStays DEF Labels, Blocking, Slotted
<1>7. ASSUME NEW t \in Threads,
             \/ load_state(t) \/ last_look(t) \/ wait_returns(t) \/ spurious_wakeup(t)
             \/ deadline_passes(t) \/ wait_until_returns(t)
      PROVE  NoLostWakeup'
  <2>1. /\ state' = state /\ my_slot' = my_slot
        /\ pc[t] \in {"load", "lastLook", "wait", "asleep", "expired"}
        /\ \E l \in {"idle", "wait", "giveUp", "load", "expired", "lastLook"} : Goto(t, l)
    BY <1>7 DEF load_state, last_look, Succeed, wait_returns, spurious_wakeup, deadline_passes,
                wait_until_returns
  <2>2. QED
    BY <1>0, <2>1, WakeupStays DEF Labels, Blocking, Slotted
<1>8. ASSUME NEW t \in Threads, futex_sleep(t) PROVE NoLostWakeup'
  <2>1. /\ state' = state /\ my_slot' = my_slot /\ pc[t] = "wait" /\ Goto(t, "asleep")
        /\ state <= my_slot[t]
    BY <1>0, <1>8 DEF futex_sleep, LocalsFit
  <2>2. QED
    BY <1>0, <2>1, WakeupStays DEF Labels, Blocking, Slotted
<1>9. ASSUME NEW t \in Threads, give_up(t) PROVE NoLostWakeup'
  <2>1. /\ state' = state + 1 /\ my_slot' = my_slot /\ pc[t] = "giveUp" /\ Goto(t, "idle")
    BY <1>9 DEF give_up
  <2>2. \A u \in Threads : pc[u] \in Blocking => u = t
    BY <2>1, LoneWaiter
  <2>3. QED
    BY <1>0, <2>1, <2>2, WakeupStays DEF Labels
<1>10. QED
  BY <1>1, <1>2, <1>3, <1>4, <1>5, <1>6, <1>7, <1>8, <1>9 DEF Next, Progress, Retry

\* Where deadlines are used by a single waiter only, a waiter asleep below the
\* word always has a notify coming, although a signal on a word that is not
\* negative notifies nobody.
THEOREM WakeupKept == ASSUME LoneDeadlines PROVE Spec => []NoLostWakeup
<1>1. Init => NoLostWakeup
  BY DEF Init, NoLostWakeup, At
<1>2. QED
  BY <1>1, InitInv, StepInv, StepWakeup, PTL DEF Spec

-----------------------------------------------------------------------------
(* The clients' view.                                                      *)

Blocked == {t \in Threads : pc[t] \in Blocking}

\* A wait that succeeds where a token is there takes it.
LEMMA TakeRefines ==
  ASSUME Inv, NEW t \in Threads, Tokens > 0, wakeups' = wakeups + 1,
         signals' = signals, Goto(t, "idle")
  PROVE  Abstract!STake(t)
<1>1. Tokens' = Tokens - 1
  BY DEF Tokens, Inv, StateIsExact, TypeOK
<1>2. Blocked' = Blocked \ {t}
  BY DEF Blocked, Goto, Inv, StateIsExact, TypeOK, Blocking, Slotted
<1>3. QED
  BY <1>1, <1>2 DEF Abstract!STake, Blocked

\* A move of one thread that consumes nothing is a request, a withdrawal or
\* invisible.
LEMMA MoveRefines ==
  ASSUME Inv, NEW t \in Threads, NEW l \in Labels, Goto(t, l), UNCHANGED <<signals, wakeups>>
  PROVE  Abstract!SNext \/ UNCHANGED <<Tokens, Blocked>>
<1>0. pc \in [Threads -> Labels] /\ Tokens' = Tokens
  BY DEF Inv, StateIsExact, TypeOK, Tokens
<1>1. CASE pc[t] \in Blocking <=> l \in Blocking
  BY <1>0, <1>1 DEF Blocked, Goto
<1>2. CASE pc[t] \in Blocking /\ l \notin Blocking
  <2>1. t \in Blocked /\ Blocked' = Blocked \ {t}
    BY <1>0, <1>2 DEF Blocked, Goto
  <2>2. QED
    BY <1>0, <2>1 DEF Abstract!SNext, Abstract!SGiveUp, Blocked
<1>3. CASE pc[t] \notin Blocking /\ l \in Blocking
  <2>1. t \notin Blocked /\ Blocked' = Blocked \cup {t}
    BY <1>0, <1>3 DEF Blocked, Goto
  <2>2. QED
    BY <1>0, <2>1 DEF Abstract!SNext, Abstract!SRequest, Blocked
<1>4. QED
  BY <1>1, <1>2, <1>3, Zenon

\* Every step is a step of tokens delivered and consumed one by one, or leaves
\* them alone.
THEOREM StepRefines ==
  ASSUME LoneDeadlines
  PROVE  Inv /\ SlotsServed /\ [Next]_vars => [Abstract!SNext]_<<Tokens, Blocked>>
<1> SUFFICES ASSUME Inv, SlotsServed, [Next]_vars
             PROVE  Abstract!SNext \/ UNCHANGED <<Tokens, Blocked>>
  OBVIOUS
<1> USE DEF At
<1>0. /\ state \in Int /\ signals \in Nat /\ wakeups \in Nat
      /\ pc \in [Threads -> Labels] /\ LocalsFit
  BY DEF Inv, StateIsExact, TypeOK
<1>1. CASE UNCHANGED vars
  BY <1>1 DEF vars, Tokens, Blocked
<1>2. ASSUME NEW t \in Threads, signal_exchange(t) PROVE Abstract!SNext
  <2>1. PICK l \in {"notify", "idle"} : Goto(t, l)
    BY <1>2 DEF signal_exchange
  <2>2. pc[t] = "signal" /\ signals' = signals + 1 /\ wakeups' = wakeups
    BY <1>2 DEF signal_exchange
  <2>3. Blocked' = Blocked
    BY <1>0, <2>1, <2>2 DEF Blocked, Goto, Blocking, Slotted
  <2>4. Tokens' = Tokens + 1
    BY <1>0, <2>2 DEF Tokens
  <2>5. QED
    BY <2>3, <2>4 DEF Abstract!SNext, Abstract!SRelease, Blocked
<1>3. ASSUME NEW t \in Threads, notify_all(t) PROVE UNCHANGED <<Tokens, Blocked>>
  BY <1>0, <1>3 DEF notify_all, Tokens, Blocked, Blocking, Slotted
<1>4. ASSUME NEW t \in Threads, try_take(t) PROVE Abstract!SNext
  <2>1. state > 0 /\ wakeups' = wakeups + 1 /\ signals' = signals /\ Goto(t, "idle")
    BY <1>0, <1>4 DEF try_take, Succeed, LocalsFit
  <2>2. QED
    BY <2>1, TokenIsThere, TakeRefines DEF Abstract!SNext
<1>5. ASSUME NEW t \in Threads, subtract(t) \/ load_state(t) \/ last_look(t)
      PROVE  Abstract!SNext \/ UNCHANGED <<Tokens, Blocked>>
  <2>1. CASE wakeups' = wakeups + 1 /\ Goto(t, "idle")
    <3>1. signals' = signals /\ (state > 0 \/ (pc[t] \in Slotted /\ state > my_slot[t]))
      BY <1>0, <1>5, <2>1 DEF subtract, load_state, last_look, Slotted
    <3>2. QED
      BY <2>1, <3>1, TokenIsThere, TakeRefines DEF Abstract!SNext
  <2>2. CASE wakeups' = wakeups /\ \E l \in {"load", "wait", "giveUp"} : Goto(t, l)
    <3>1. signals' = signals
      BY <1>5 DEF subtract, load_state, last_look
    <3>2. QED
      BY <2>2, <3>1, MoveRefines DEF Labels, Blocking, Slotted
  <2>3. QED
    BY <1>5, <2>1, <2>2 DEF subtract, load_state, last_look, Succeed
<1>6. ASSUME NEW t \in Threads,
             \/ signal(t) \/ signal_retry(t) \/ try_wait(t) \/ try_retry(t) \/ wait(t) \/ spin(t)
      PROVE  Abstract!SNext \/ UNCHANGED <<Tokens, Blocked>>
  <2>1. UNCHANGED <<signals, wakeups>>
    BY <1>6 DEF signal, signal_retry, try_wait, try_retry, wait, spin
  <2>2. pc' = pc \/ \E l \in {"signal", "idle", "try", "subtract", "spin"} : Goto(t, l)
    BY <1>6 DEF signal, signal_retry, try_wait, try_retry, wait, spin, NoToken
  <2>3. CASE pc' = pc
    BY <2>1, <2>3 DEF Tokens, Blocked
  <2>4. QED
    BY <2>1, <2>2, <2>3, MoveRefines DEF Labels, Blocking, Slotted
<1>7. ASSUME NEW t \in Threads,
             \/ futex_sleep(t) \/ wait_returns(t) \/ spurious_wakeup(t) \/ deadline_passes(t)
             \/ wait_until_returns(t) \/ give_up(t)
      PROVE  Abstract!SNext \/ UNCHANGED <<Tokens, Blocked>>
  <2>1. /\ UNCHANGED <<signals, wakeups>>
        /\ \E l \in {"asleep", "wait", "load", "expired", "lastLook", "idle"} : Goto(t, l)
    BY <1>7 DEF futex_sleep, wait_returns, spurious_wakeup, deadline_passes, wait_until_returns,
                give_up
  <2>2. QED
    BY <2>1, MoveRefines DEF Labels, Blocking, Slotted
<1>8. QED
  BY <1>1, <1>2, <1>3, <1>4, <1>5, <1>6, <1>7 DEF Next, Progress, Retry

\* The event is an exact store of tokens, for any number of threads: where
\* deadlines are used by a single waiter only, each signal that is not lost on
\* a set event lets exactly one wait through.
THEOREM Refinement == ASSUME LoneDeadlines PROVE Spec => ImplementsTokens
<1>1. Init => Abstract!SInit
  <2> SUFFICES ASSUME Init PROVE Abstract!SInit
    OBVIOUS
  <2>1. state \in {0, 1} /\ Tokens = state
    BY EventParameters DEF Init, Tokens
  <2>2. Tokens = IF InitiallySet THEN 1 ELSE 0
    BY <2>1 DEF Init
  <2>3. {t \in Threads : pc[t] \in Blocking} = {}
    BY DEF Init, Blocking, Slotted
  <2>4. QED
    BY <2>2, <2>3 DEF Abstract!SInit
<1>2. QED
  BY <1>1, InitInv, InitSlots, StepInv, StepSlots, StepRefines, PTL
  DEF Spec, ImplementsTokens, Abstract!SemaphoreSpec, Abstract!svars, Blocked

==============================================================================
