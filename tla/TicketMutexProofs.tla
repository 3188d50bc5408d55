-------------------------- MODULE TicketMutexProofs --------------------------
(***************************************************************************)
(* Proofs, for any finite set of threads and any word size that is larger  *)
(* than their number, of the safety properties of TicketMutex.             *)
(*                                                                         *)
(* The inductive invariant says that the tickets between the two words are *)
(* held by one thread each (TicketsAreDistinct), that an owner holds the   *)
(* ticket being served (OwnersAreServed), and, for a thread between the    *)
(* read and the exchange of try_lock, that the two words have not come     *)
(* round to the value it read (WindowIsShort): so an exchange that         *)
(* succeeds finds the queue empty.                                         *)
(***************************************************************************)
EXTENDS TicketMutex, FiniteSetTheorems, SequenceTheorems, TLAPS

N == Cardinality(Threads)

(* How many steps lead from one value of a word to another.                *)
Dist(a, b) == IF b >= a THEN b - a ELSE b - a + Modulus

Holding == Queued \cup Owning

OwnersAreServed == \A t \in Owners :
  my_ticket[t] = serving_ticket /\ (At(t, "store") => seen[t] = serving_ticket)

WindowIsShort == \A t \in InWindow :
  /\ Dist(seen[t], next_ticket) < N + age[t]
  /\ Dist(seen[t], serving_ticket) <= Dist(seen[t], next_ticket)

Inv == TicketsAreDistinct /\ OwnersAreServed /\ WindowIsShort

-----------------------------------------------------------------------------
(* Arithmetic of words that wrap around.                                   *)

\* The bounds in the form the proofs use.
LEMMA Bounds ==
  /\ N \in Nat /\ Modulus \in Nat /\ MaxWindow \in Nat
  /\ N < Modulus /\ MaxWindow + N <= Modulus
  /\ 0 \in Words /\ \A w \in Words : w \in Nat /\ w < Modulus /\ Succ(w) \in Words
<1>1. N \in Nat
  BY TicketThreads, FS_CardinalityType DEF N
<1>2. Modulus \in Nat /\ MaxWindow \in Nat /\ N < Modulus /\ MaxWindow + N <= Modulus
  BY TicketBounds DEF N
<1> HIDE DEF N
<1>3. QED
  BY <1>1, <1>2 DEF Words, Succ

\* Distances are below the modulus and tell words apart.
LEMMA DistType ==
  ASSUME NEW a \in Words, NEW b \in Words
  PROVE  /\ Dist(a, b) \in Nat /\ Dist(a, b) < Modulus
         /\ Dist(a, b) = 0 <=> a = b
  BY Bounds DEF Dist, Words

\* From one word, different words are at different distances.
LEMMA DistInjective ==
  ASSUME NEW a \in Words, NEW b \in Words, NEW c \in Words, Dist(a, b) = Dist(a, c)
  PROVE  b = c
  BY Bounds DEF Dist, Words

\* Advancing the end of an interval that does not wrap round lengthens it.
LEMMA DistGrows ==
  ASSUME NEW a \in Words, NEW b \in Words, Dist(a, b) + 1 < Modulus
  PROVE  Dist(a, Succ(b)) = Dist(a, b) + 1
  BY Bounds DEF Dist, Words, Succ

\* Advancing the start of an interval that is not empty shortens it.
LEMMA DistShrinks ==
  ASSUME NEW a \in Words, NEW b \in Words, a # b
  PROVE  Dist(Succ(a), b) = Dist(a, b) - 1
  BY Bounds DEF Dist, Words, Succ

\* A word on the way from a to c splits the way.
LEMMA DistSplits ==
  ASSUME NEW a \in Words, NEW b \in Words, NEW c \in Words, Dist(a, b) <= Dist(a, c)
  PROVE  Dist(b, c) = Dist(a, c) - Dist(a, b)
  BY Bounds DEF Dist, Words

\* Ahead is the distance from the serving word.
LEMMA AheadIsDist == \A w : Ahead(w) = Dist(serving_ticket, w)
  BY DEF Ahead, Dist

-----------------------------------------------------------------------------
\* A thread that holds no ticket leaves room for its own: fewer tickets than
\* threads are out.
LEMMA RoomForOne ==
  ASSUME TicketsAreDistinct, NEW t \in Threads, pc[t] \notin Holding
  PROVE  /\ IsFiniteSet(TicketHolders)
         /\ Cardinality(TicketHolders) \in Nat
         /\ Cardinality(TicketHolders) < N
<1>1. TicketHolders \subseteq Threads \ {t}
  BY DEF TicketHolders, Holding
<1>2. IsFiniteSet(Threads \ {t}) /\ Cardinality(Threads \ {t}) = N - 1
  BY TicketThreads, FS_RemoveElement DEF N
<1>3. IsFiniteSet(TicketHolders) /\ Cardinality(TicketHolders) <= N - 1
  BY <1>1, <1>2, FS_Subset
<1>4. Cardinality(TicketHolders) \in Nat
  BY <1>3, FS_CardinalityType
<1> HIDE DEF N
<1>5. QED
  BY <1>3, <1>4, Bounds

\* A new lock has no ticket out.
THEOREM InitInv == Init => Inv
<1> SUFFICES ASSUME Init PROVE Inv
  OBVIOUS
<1>1. TypeOK
  BY Bounds DEF Init, TypeOK, Labels
<1>2. TicketHolders = {} /\ Owners = {} /\ InWindow = {}
  BY DEF Init, TicketHolders, Owners, InWindow, At, Queued, Owning
<1>3. Cardinality(TicketHolders) = 0 /\ Ahead(next_ticket) = 0
  BY <1>2, FS_EmptySet DEF Init, Ahead
<1>4. QED
  BY <1>1, <1>2, <1>3 DEF Inv, TicketsAreDistinct, OwnersAreServed, WindowIsShort

\* Handing the next ticket to a thread that has none keeps tickets distinct
\* and every window short.
LEMMA HandOutKeeps ==
  ASSUME Inv, NEW t \in Threads, pc[t] \notin Holding, HandOut(t, next_ticket),
         NEW l \in Holding, Goto(t, l), serving_ticket' = serving_ticket,
         seen' \in [Threads -> Words], \A u \in Threads : u # t => seen'[u] = seen[u],
         timed' = timed
  PROVE  /\ TicketsAreDistinct' /\ WindowIsShort'
         /\ Ahead(next_ticket)' = Ahead(next_ticket) + 1
         /\ TicketHolders' = TicketHolders \cup {t}
         /\ t \notin TicketHolders
<1>0. /\ serving_ticket \in Words /\ next_ticket \in Words /\ my_ticket \in [Threads -> Words]
      /\ seen \in [Threads -> Words] /\ timed \in [Threads -> BOOLEAN]
      /\ age \in [Threads -> 0 .. MaxWindow] /\ pc \in [Threads -> Labels]
      /\ TicketsAreDistinct /\ WindowIsShort
  BY DEF Inv, TicketsAreDistinct, TypeOK
<1>1. /\ IsFiniteSet(TicketHolders) /\ Cardinality(TicketHolders) \in Nat
      /\ Cardinality(TicketHolders) < N
  BY <1>0, RoomForOne
<1>2. Dist(serving_ticket, next_ticket) + 1 < Modulus
  BY <1>0, <1>1, Bounds, AheadIsDist DEF TicketsAreDistinct
<1>3. /\ next_ticket' = Succ(next_ticket) /\ next_ticket' \in Words
      /\ my_ticket' = [my_ticket EXCEPT ![t] = next_ticket]
  BY <1>0, Bounds DEF HandOut
<1>4. \A w : Ahead(w)' = Ahead(w)
  BY DEF Ahead
<1>5. Ahead(next_ticket)' = Ahead(next_ticket) + 1
  <2>1. Ahead(next_ticket)' = Dist(serving_ticket, Succ(next_ticket))
    BY <1>3 DEF Ahead, Dist
  <2>2. QED
    BY <1>0, <1>2, <2>1, DistGrows, AheadIsDist
<1>6. TicketHolders' = TicketHolders \cup {t} /\ t \notin TicketHolders
  BY <1>0 DEF TicketHolders, Holding, Goto
<1>7. Cardinality(TicketHolders') = Cardinality(TicketHolders) + 1
  BY <1>1, <1>6, FS_AddElement
<1>8. Ahead(next_ticket) \in Nat
  BY <1>0, DistType, AheadIsDist
<1>9. TypeOK'
  <2>1. age' \in [Threads -> 0 .. MaxWindow]
    BY <1>0, Bounds DEF HandOut
  <2>2. pc' \in [Threads -> Labels]
    BY <1>0 DEF Goto, Labels, Holding
  <2>3. QED
    BY <1>0, <1>3, <2>1, <2>2 DEF TypeOK
<1>10. ASSUME NEW u \in TicketHolders'
       PROVE  Ahead(my_ticket[u])' < Ahead(next_ticket)'
  <2>1. CASE u = t
    <3>1. Ahead(my_ticket[u])' = Ahead(next_ticket)
      BY <1>0, <1>3, <2>1 DEF Ahead
    <3>2. QED
      BY <1>5, <1>8, <3>1
  <2>2. CASE u # t
    <3>1. u \in TicketHolders /\ my_ticket'[u] = my_ticket[u] /\ u \in Threads
      BY <1>0, <1>3, <1>6, <1>10, <2>2 DEF TicketHolders
    <3>2. Ahead(my_ticket[u])' = Ahead(my_ticket[u])
      BY <3>1 DEF Ahead
    <3>3. Ahead(my_ticket[u]) < Ahead(next_ticket) /\ Ahead(my_ticket[u]) \in Nat
      BY <1>0, <3>1, DistType, AheadIsDist DEF TicketsAreDistinct
    <3>4. QED
      BY <1>5, <1>8, <3>2, <3>3
  <2>3. QED
    BY <2>1, <2>2
<1>11. ASSUME NEW u \in TicketHolders PROVE my_ticket[u] # next_ticket
  <2>1. Ahead(my_ticket[u]) < Ahead(next_ticket)
    BY <1>0, <1>11 DEF TicketsAreDistinct
  <2>2. QED
    BY <1>8, <2>1
<1>12. \A u, v \in TicketHolders' : my_ticket'[u] = my_ticket'[v] => u = v
  BY <1>0, <1>3, <1>6, <1>11 DEF TicketsAreDistinct, TicketHolders
<1>13. TicketsAreDistinct'
  BY <1>0, <1>5, <1>7, <1>9, <1>10, <1>12 DEF TicketsAreDistinct
<1>14. WindowIsShort'
  <2> SUFFICES ASSUME NEW u \in Threads, pc'[u] = "exchange"
               PROVE  /\ Dist(seen'[u], next_ticket') < N + age'[u]
                      /\ Dist(seen'[u], serving_ticket) <= Dist(seen'[u], next_ticket')
    BY DEF WindowIsShort, InWindow, At, N
  <2>1. u # t /\ u \in InWindow
    BY <1>0 DEF Goto, InWindow, At, Holding, Queued, Owning
  <2>2. age[u] < MaxWindow /\ age'[u] = age[u] + 1 /\ seen'[u] = seen[u]
    BY <1>0, <2>1 DEF HandOut
  <2>3. /\ Dist(seen[u], next_ticket) < N + age[u]
        /\ Dist(seen[u], serving_ticket) <= Dist(seen[u], next_ticket)
    BY <1>0, <2>1 DEF WindowIsShort
  <2>4. /\ seen[u] \in Words /\ age[u] \in Nat
        /\ Dist(seen[u], next_ticket) \in Nat /\ Dist(seen[u], serving_ticket) \in Nat
    BY <1>0, DistType
  <2>5. Dist(seen[u], next_ticket) + 1 < Modulus
    BY <2>2, <2>3, <2>4, Bounds
  <2>6. Dist(seen[u], next_ticket') = Dist(seen[u], next_ticket) + 1
    BY <1>0, <1>3, <2>4, <2>5, DistGrows
  <2>7. QED
    BY <2>2, <2>3, <2>4, <2>6, Bounds
<1>15. QED
  BY <1>5, <1>6, <1>13, <1>14

\* The exchange of try_lock succeeds only when no ticket is out: the next
\* ticket is the one being served, and nobody holds one.
LEMMA ExchangeMeansFree ==
  ASSUME Inv, NEW t \in Threads, At(t, "exchange"), next_ticket = seen[t]
  PROVE  next_ticket = serving_ticket /\ TicketHolders = {}
<1>0. /\ serving_ticket \in Words /\ next_ticket \in Words /\ t \in InWindow
      /\ TicketsAreDistinct /\ WindowIsShort /\ pc[t] \notin Holding
  BY DEF Inv, TicketsAreDistinct, TypeOK, InWindow, At, Holding, Queued, Owning
<1>1. Dist(seen[t], next_ticket) = 0
  BY <1>0, DistType
<1>2. Dist(seen[t], serving_ticket) <= 0
  BY <1>0, <1>1 DEF WindowIsShort
<1>3. next_ticket = serving_ticket
  BY <1>0, <1>2, DistType
<1>4. Cardinality(TicketHolders) = 0 /\ IsFiniteSet(TicketHolders)
  BY <1>0, <1>3, DistType, AheadIsDist, RoomForOne DEF TicketsAreDistinct
<1>5. QED
  BY <1>3, <1>4, FS_EmptySet

\* A step that hands out and serves no ticket keeps tickets distinct.
LEMMA QuietDistinct ==
  ASSUME TicketsAreDistinct, TypeOK', UNCHANGED <<serving_ticket, next_ticket, my_ticket>>,
         TicketHolders' = TicketHolders
  PROVE  TicketsAreDistinct'
  BY DEF TicketsAreDistinct, Ahead

\* It keeps every window short that was open before.
LEMMA QuietWindow ==
  ASSUME WindowIsShort, UNCHANGED <<serving_ticket, next_ticket>>,
         \A u \in Threads : pc'[u] = "exchange" =>
            pc[u] = "exchange" /\ seen'[u] = seen[u] /\ age'[u] = age[u]
  PROVE  WindowIsShort'
  BY DEF WindowIsShort, InWindow, At, N, Dist

\* It keeps the owners served who owned the lock before.
LEMMA QuietOwners ==
  ASSUME OwnersAreServed, UNCHANGED <<serving_ticket, my_ticket>>,
         \A u \in Threads : pc'[u] \in Owning =>
            /\ pc[u] \in Owning
            /\ pc'[u] = "store" => seen'[u] = serving_ticket
  PROVE  OwnersAreServed'
  BY DEF OwnersAreServed, Owners, At

\* Every step of every operation preserves the invariant.
THEOREM StepInv == Inv /\ [Next]_vars => Inv'
<1> SUFFICES ASSUME Inv, [Next]_vars PROVE Inv'
  OBVIOUS
<1> USE DEF At
<1>0. /\ serving_ticket \in Words /\ next_ticket \in Words /\ my_ticket \in [Threads -> Words]
      /\ seen \in [Threads -> Words] /\ timed \in [Threads -> BOOLEAN]
      /\ age \in [Threads -> 0 .. MaxWindow] /\ pc \in [Threads -> Labels]
      /\ TicketsAreDistinct /\ WindowIsShort /\ OwnersAreServed
  BY DEF Inv, TicketsAreDistinct, TypeOK
<1>1. CASE UNCHANGED vars
  BY <1>0, <1>1, QuietDistinct, QuietWindow, QuietOwners
  DEF vars, Inv, TypeOK, TicketHolders, OwnersAreServed, Owners
<1>2. ASSUME NEW t \in Threads, lock(t) PROVE Inv'
  <2>1. /\ pc[t] = "idle" /\ HandOut(t, next_ticket) /\ Goto(t, "check")
        /\ UNCHANGED <<serving_ticket, seen, timed>>
    BY <1>2 DEF lock
  <2>2. pc[t] \notin Holding /\ "check" \in Holding
    BY <2>1 DEF Holding, Queued, Owning
  <2>3. TicketsAreDistinct' /\ WindowIsShort'
    BY <1>0, <2>1, <2>2, HandOutKeeps
  <2>4. OwnersAreServed'
    BY <1>0, <2>1 DEF OwnersAreServed, Owners, Goto, HandOut, Owning
  <2>5. QED
    BY <2>3, <2>4 DEF Inv
<1>3. ASSUME NEW t \in Threads, try_exchange(t) PROVE Inv'
  <2>1. /\ pc[t] = "exchange" /\ next_ticket = seen[t] /\ HandOut(t, next_ticket)
        /\ Goto(t, "cs") /\ seen' = [seen EXCEPT ![t] = 0]
        /\ UNCHANGED <<serving_ticket, timed>>
    BY <1>3 DEF try_exchange, Forget
  <2>2. pc[t] \notin Holding /\ "cs" \in Holding
    BY <2>1 DEF Holding, Queued, Owning
  <2>3. TicketsAreDistinct' /\ WindowIsShort'
    BY <1>0, <2>1, <2>2, HandOutKeeps, Bounds
  <2>4. next_ticket = serving_ticket /\ TicketHolders = {}
    BY <2>1, ExchangeMeansFree
  <2>5. OwnersAreServed'
    BY <1>0, <2>1, <2>4 DEF OwnersAreServed, Owners, TicketHolders, Goto, HandOut, Owning
  <2>6. QED
    BY <2>3, <2>5 DEF Inv
<1>4. ASSUME NEW t \in Threads, check_ticket(t) PROVE Inv'
  <2>1. pc[t] = "check" /\ UNCHANGED <<serving_ticket, next_ticket, my_ticket, timed, age>>
    BY <1>4 DEF check_ticket
  <2>2. PICK l \in {"cs", "wait"} : Goto(t, l) /\ (l = "cs" => my_ticket[t] = serving_ticket)
    BY <1>4 DEF check_ticket
  <2>3. seen' \in [Threads -> Words] /\ \A u \in Threads : u # t => seen'[u] = seen[u]
    BY <1>0, <1>4 DEF check_ticket, Read
  <2>4. TypeOK'
    BY <1>0, <2>1, <2>2, <2>3 DEF TypeOK, Goto, Labels, Queued, Owning
  <2>5. TicketHolders' = TicketHolders
    BY <1>0, <2>1, <2>2 DEF TicketHolders, Goto, Queued, Owning
  <2>6. TicketsAreDistinct'
    BY <1>0, <2>1, <2>4, <2>5, QuietDistinct
  <2>7. WindowIsShort'
    BY <1>0, <2>1, <2>2, <2>3, QuietWindow DEF Goto
  <2>8. OwnersAreServed'
    BY <1>0, <2>1, <2>2, <2>3 DEF OwnersAreServed, Owners, Goto, Owning
  <2>9. QED
    BY <2>6, <2>7, <2>8 DEF Inv
<1>5. ASSUME NEW t \in Threads,
             \/ futex_sleep(t) \/ wait_returns(t) \/ wait_expires(t) \/ try_fails(t)
             \/ reload_serving(t) \/ timed_out(t)
      PROVE  Inv'
  <2>1. UNCHANGED <<serving_ticket, next_ticket, my_ticket, timed>>
    BY <1>5 DEF futex_sleep, wait_returns, wait_expires, try_fails, reload_serving, timed_out
  <2>2. /\ seen' \in [Threads -> Words] /\ age' \in [Threads -> 0 .. MaxWindow]
        /\ \A u \in Threads : u # t => seen'[u] = seen[u] /\ age'[u] = age[u]
    BY <1>0, <1>5, Bounds
    DEF futex_sleep, wait_returns, wait_expires, try_fails, reload_serving, timed_out, Read, Forget
  <2>3. PICK l \in {"check", "asleep", "try", "napping", "reload", "idle", "pause"} :
          Goto(t, l) /\ (l \in {"check", "asleep"} <=> pc[t] \in {"wait", "asleep"})
    BY <1>5
    DEF futex_sleep, wait_returns, wait_expires, try_fails, reload_serving, timed_out, Awake
  <2>4. pc[t] \in {"wait", "pause", "asleep", "napping", "exchange", "reload"}
    BY <1>5 DEF futex_sleep, wait_returns, wait_expires, try_fails, reload_serving, timed_out
  <2>5. TypeOK'
    BY <1>0, <2>1, <2>2, <2>3 DEF TypeOK, Goto, Labels, Queued, Owning, Timed
  <2>6. TicketHolders' = TicketHolders
    BY <1>0, <2>3, <2>4 DEF TicketHolders, Goto, Queued, Owning
  <2>7. TicketsAreDistinct'
    BY <1>0, <2>1, <2>5, <2>6, QuietDistinct
  <2>8. WindowIsShort'
    BY <1>0, <2>1, <2>2, <2>3, QuietWindow DEF Goto
  <2>9. OwnersAreServed'
    BY <1>0, <2>1, <2>2, <2>3 DEF OwnersAreServed, Owners, Goto, Owning
  <2>10. QED
    BY <2>7, <2>8, <2>9 DEF Inv
<1>6. ASSUME NEW t \in Threads, try_lock(t) \/ try_lock_until(t) \/ try_lock_again(t)
      PROVE  Inv'
  <2>1. /\ pc[t] \in {"idle", "try"} /\ Goto(t, "exchange")
        /\ seen' = [seen EXCEPT ![t] = serving_ticket] /\ age' = [age EXCEPT ![t] = 0]
        /\ UNCHANGED <<serving_ticket, next_ticket, my_ticket>>
    BY <1>6 DEF try_lock, try_lock_until, try_lock_again, LoadServing, Read
  <2>2. timed' \in [Threads -> BOOLEAN]
    BY <1>0, <1>6 DEF try_lock, try_lock_until, try_lock_again
  <2>3. TypeOK'
    <3>1. age' \in [Threads -> 0 .. MaxWindow]
      BY <1>0, <2>1, Bounds
    <3>2. pc' \in [Threads -> Labels]
      BY <1>0, <2>1 DEF Goto, Labels, Timed
    <3>3. QED
      BY <1>0, <2>1, <2>2, <3>1, <3>2 DEF TypeOK
  <2>4. TicketHolders' = TicketHolders /\ pc[t] \notin Holding
    BY <1>0, <2>1 DEF TicketHolders, Goto, Holding, Queued, Owning
  <2>5. TicketsAreDistinct'
    BY <1>0, <2>1, <2>3, <2>4, QuietDistinct
  <2>6. WindowIsShort'
    <3>1. ASSUME NEW u \in Threads, pc'[u] = "exchange"
          PROVE  /\ Dist(seen'[u], next_ticket) < N + age'[u]
                 /\ Dist(seen'[u], serving_ticket) <= Dist(seen'[u], next_ticket)
      <4>1. CASE u = t
        <5>1. seen'[u] = serving_ticket /\ age'[u] = 0
          BY <1>0, <2>1, <4>1
        <5>2. Dist(serving_ticket, next_ticket) < N
          BY <1>0, <2>4, RoomForOne, AheadIsDist DEF TicketsAreDistinct
        <5>3. Dist(serving_ticket, serving_ticket) = 0 /\ Dist(serving_ticket, next_ticket) \in Nat
          BY <1>0, DistType
        <5>4. QED
          BY <5>1, <5>2, <5>3, Bounds
      <4>2. CASE u # t
        BY <1>0, <2>1, <3>1, <4>2 DEF WindowIsShort, InWindow, Goto
      <4>3. QED
        BY <4>1, <4>2
    <3>2. QED
      BY <2>1, <3>1 DEF WindowIsShort, InWindow, N, Dist
  <2>7. OwnersAreServed'
    BY <1>0, <2>1 DEF OwnersAreServed, Owners, Goto, Owning
  <2>8. QED
    BY <2>5, <2>6, <2>7 DEF Inv
<1>7. ASSUME NEW t \in Threads, unlock(t) PROVE Inv'
  <2>1. /\ pc[t] = "cs" /\ Goto(t, "store") /\ seen' = [seen EXCEPT ![t] = serving_ticket]
        /\ UNCHANGED <<serving_ticket, next_ticket, my_ticket, timed, age>>
    BY <1>7 DEF unlock, Read
  <2>2. TypeOK'
    BY <1>0, <2>1 DEF TypeOK, Goto, Labels, Owning
  <2>3. TicketHolders' = TicketHolders
    BY <1>0, <2>1 DEF TicketHolders, Goto, Queued, Owning
  <2>4. TicketsAreDistinct'
    BY <1>0, <2>1, <2>2, <2>3, QuietDistinct
  <2>5. WindowIsShort'
    BY <1>0, <2>1, QuietWindow DEF Goto
  <2>6. OwnersAreServed'
    BY <1>0, <2>1 DEF OwnersAreServed, Owners, Goto, Owning
  <2>7. QED
    BY <2>4, <2>5, <2>6 DEF Inv
<1>8. ASSUME NEW t \in Threads, notify_all(t) PROVE Inv'
  <2>1. /\ pc[t] = "notify"
        /\ UNCHANGED <<serving_ticket, next_ticket, my_ticket, seen, timed, age>>
        /\ \A u \in Threads : \/ pc'[u] = pc[u] /\ u # t
                              \/ pc[u] = "notify" /\ pc'[u] = "idle"
                              \/ pc[u] = "asleep" /\ pc'[u] = "wait"
                              \/ pc[u] = "napping" /\ pc'[u] = "pause"
    BY <1>0, <1>8 DEF notify_all
  <2>2. TypeOK'
    BY <1>0, <1>8 DEF notify_all, TypeOK, Labels, Queued, Timed
  <2>3. TicketHolders' = TicketHolders
    BY <1>0, <2>1 DEF TicketHolders, Queued, Owning
  <2>4. TicketsAreDistinct'
    BY <1>0, <2>1, <2>2, <2>3, QuietDistinct
  <2>5. WindowIsShort'
    BY <1>0, <2>1, QuietWindow
  <2>6. OwnersAreServed'
    BY <1>0, <2>1 DEF OwnersAreServed, Owners, Owning
  <2>7. QED
    BY <2>4, <2>5, <2>6 DEF Inv
<1>9. ASSUME NEW t \in Threads, store_serving(t) PROVE Inv'
  <2>1. /\ t \in TicketHolders /\ t \in Owners /\ my_ticket[t] = serving_ticket
        /\ serving_ticket' = Succ(serving_ticket) /\ Goto(t, "notify") /\ pc[t] = "store"
        /\ my_ticket' = [my_ticket EXCEPT ![t] = 0] /\ seen' = [seen EXCEPT ![t] = 0]
        /\ UNCHANGED <<next_ticket, timed, age>>
    BY <1>0, <1>9
    DEF store_serving, Forget, OwnersAreServed, Owners, TicketHolders, Owning
  <2>2. TypeOK'
    BY <1>0, <2>1, Bounds DEF TypeOK, Goto, Labels
  <2>3. TicketHolders' = TicketHolders \ {t}
    BY <1>0, <2>1 DEF TicketHolders, Goto, Queued, Owning
  <2>4. \A w \in Words : w # serving_ticket => Ahead(w)' = Ahead(w) - 1
    <3>1. \A w : Ahead(w)' = Dist(Succ(serving_ticket), w)
      BY <2>1 DEF Ahead, Dist
    <3>2. QED
      BY <1>0, <3>1, DistShrinks, AheadIsDist
  <2>5. next_ticket # serving_ticket
    <3>1. Ahead(my_ticket[t]) < Ahead(next_ticket) /\ Ahead(my_ticket[t]) = 0
      BY <1>0, <2>1, DistType, AheadIsDist DEF TicketsAreDistinct
    <3>2. QED
      BY <1>0, <3>1, DistType, AheadIsDist
  <2>6. Ahead(next_ticket)' = Ahead(next_ticket) - 1
    <3>1. Ahead(next_ticket)' = Dist(Succ(serving_ticket), next_ticket)
      BY <2>1 DEF Ahead, Dist
    <3>2. QED
      BY <1>0, <2>5, <3>1, DistShrinks, AheadIsDist
  <2>7. \A u \in TicketHolders' :
          /\ u # t /\ u \in TicketHolders /\ my_ticket'[u] = my_ticket[u]
          /\ my_ticket[u] # serving_ticket /\ my_ticket[u] \in Words
    BY <1>0, <2>1, <2>3 DEF TicketsAreDistinct, TicketHolders
  <2>8. ASSUME NEW u \in TicketHolders' PROVE Ahead(my_ticket[u])' < Ahead(next_ticket)'
    <3>1. Ahead(my_ticket[u])' = Dist(Succ(serving_ticket), my_ticket[u])
      BY <2>1, <2>7, <2>8 DEF Ahead, Dist
    <3>2. Ahead(my_ticket[u])' = Ahead(my_ticket[u]) - 1
      BY <1>0, <2>7, <2>8, <3>1, DistShrinks, AheadIsDist
    <3>3. Ahead(my_ticket[u]) < Ahead(next_ticket)
      BY <1>0, <2>7, <2>8 DEF TicketsAreDistinct
    <3>4. Ahead(my_ticket[u]) \in Nat /\ Ahead(next_ticket) \in Nat
      BY <1>0, <2>7, <2>8, DistType, AheadIsDist
    <3>5. QED
      BY <2>6, <3>2, <3>3, <3>4
  <2>9. Cardinality(TicketHolders') = Cardinality(TicketHolders) - 1
    <3>1. IsFiniteSet(TicketHolders)
      BY TicketThreads, FS_Subset DEF TicketHolders
    <3>2. QED
      BY <2>1, <2>3, <3>1, FS_RemoveElement
  <2>10. TicketsAreDistinct'
    <3>1. \A u, v \in TicketHolders' : my_ticket'[u] = my_ticket'[v] => u = v
      BY <1>0, <2>7 DEF TicketsAreDistinct
    <3>2. Cardinality(TicketHolders') = Ahead(next_ticket)'
      BY <1>0, <2>6, <2>9 DEF TicketsAreDistinct
    <3>3. QED
      BY <2>2, <2>8, <3>1, <3>2 DEF TicketsAreDistinct
  <2>11. WindowIsShort'
    <3> SUFFICES ASSUME NEW u \in Threads, pc'[u] = "exchange"
                 PROVE  /\ Dist(seen'[u], next_ticket) < N + age[u]
                        /\ Dist(seen'[u], serving_ticket') <= Dist(seen'[u], next_ticket)
      BY <2>1 DEF WindowIsShort, InWindow, N, Dist
    <3>1. u \in InWindow /\ seen'[u] = seen[u] /\ seen[u] \in Words
      BY <1>0, <2>1 DEF Goto, InWindow
    <3>2. /\ Dist(seen[u], next_ticket) < N + age[u]
          /\ Dist(seen[u], serving_ticket) <= Dist(seen[u], next_ticket)
      BY <1>0, <3>1 DEF WindowIsShort
    <3>3. Dist(seen[u], serving_ticket) # Dist(seen[u], next_ticket)
      BY <1>0, <2>5, <3>1, DistInjective
    <3>4. /\ Dist(seen[u], serving_ticket) \in Nat /\ Dist(seen[u], next_ticket) \in Nat
          /\ Dist(seen[u], next_ticket) < Modulus
      BY <1>0, <3>1, DistType
    <3>5. Dist(seen[u], Succ(serving_ticket)) = Dist(seen[u], serving_ticket) + 1
      BY <1>0, <3>1, <3>2, <3>3, <3>4, DistGrows, Bounds
    <3>6. QED
      BY <2>1, <3>1, <3>2, <3>3, <3>4, <3>5
  <2>12. OwnersAreServed'
    <3>1. ASSUME NEW u \in Threads, pc'[u] \in Owning PROVE FALSE
      <4>1. u # t /\ u \in Owners /\ u \in TicketHolders
        BY <1>0, <2>1, <3>1 DEF Goto, Owning, Owners, TicketHolders
      <4>2. my_ticket[u] = my_ticket[t]
        BY <1>0, <2>1, <4>1 DEF OwnersAreServed
      <4>3. QED
        BY <1>0, <2>1, <4>1, <4>2 DEF TicketsAreDistinct
    <3>2. QED
      BY <3>1 DEF OwnersAreServed, Owners
  <2>13. QED
    BY <2>10, <2>11, <2>12 DEF Inv
<1>10. QED
  BY <1>1, <1>2, <1>3, <1>4, <1>5, <1>6, <1>7, <1>8, <1>9 DEF Next, Progress

\* The tickets between the two words are held by one thread each, through any
\* number of wraps of the words.
THEOREM DistinctTickets == Spec => []TicketsAreDistinct
<1>1. Inv => TicketsAreDistinct
  BY DEF Inv
<1>2. QED
  BY <1>1, InitInv, StepInv, PTL DEF Spec

-----------------------------------------------------------------------------
(* Owners and sleepers.                                                    *)

(* At most one thread is between the grant of the lock and the store that  *)
(* serves the next ticket.                                                 *)
OneOwner == \A t, u \in Owners : t = u

\* The lock is owned by one thread at a time, although lock, try_lock and
\* unlock touch the two words in separate atomic operations.
THEOREM MutualExclusion == Spec => []OneOwner
<1>1. Inv => OneOwner
  BY DEF Inv, OneOwner, OwnersAreServed, TicketsAreDistinct, Owners, TicketHolders
<1>2. QED
  BY <1>1, InitInv, StepInv, PTL DEF Spec

\* Only the store of the serving word can make a sleeper's value stale, and
\* the storing thread notifies everybody next.
THEOREM StepWakeup == Inv /\ NoLostWakeup /\ [Next]_vars => NoLostWakeup'
<1> SUFFICES ASSUME Inv, NoLostWakeup, [Next]_vars PROVE NoLostWakeup'
  OBVIOUS
<1> USE DEF At
<1>0. pc \in [Threads -> Labels] /\ seen \in [Threads -> Words]
  BY DEF Inv, TicketsAreDistinct, TypeOK
<1>1. CASE UNCHANGED vars
  BY <1>1 DEF vars, NoLostWakeup
<1>2. ASSUME NEW t \in Threads, notify_all(t) PROVE NoLostWakeup'
  BY <1>0, <1>2 DEF notify_all, NoLostWakeup
<1>3. ASSUME NEW t \in Threads, store_serving(t) PROVE NoLostWakeup'
  <2>1. pc'[t] = "notify"
    BY <1>0, <1>3 DEF store_serving, Goto
  <2>2. QED
    BY <2>1 DEF NoLostWakeup
<1>4. ASSUME NEW t \in Threads, serving_ticket' = serving_ticket, pc[t] # "notify",
             \A u \in Threads : u # t => pc'[u] = pc[u] /\ seen'[u] = seen[u],
             pc'[t] \in {"asleep", "napping"} => seen'[t] = serving_ticket
      PROVE  NoLostWakeup'
  BY <1>4 DEF NoLostWakeup
<1>5. ASSUME NEW t \in Threads, futex_sleep(t) PROVE NoLostWakeup'
  BY <1>0, <1>4, <1>5 DEF futex_sleep, Goto
<1>6. ASSUME NEW t \in Threads,
             \/ lock(t) \/ try_lock(t) \/ try_lock_until(t) \/ try_lock_again(t)
             \/ try_exchange(t) \/ try_fails(t) \/ check_ticket(t)
      PROVE  NoLostWakeup'
  <2>1. /\ serving_ticket' = serving_ticket /\ pc[t] \in {"idle", "try", "exchange", "check"}
        /\ \E l \in {"check", "exchange", "cs", "reload", "idle", "wait"} : Goto(t, l)
    BY <1>6 DEF lock, try_lock, try_lock_until, try_lock_again, LoadServing, try_exchange,
                try_fails, check_ticket
  <2>2. \A u \in Threads : u # t => seen'[u] = seen[u]
    BY <1>0, <1>6 DEF lock, try_lock, try_lock_until, try_lock_again, LoadServing, try_exchange,
                      try_fails, check_ticket, Read, Forget
  <2>3. \A u \in Threads : u # t => pc'[u] = pc[u]
    BY <1>0, <2>1 DEF Goto
  <2>4. pc'[t] \notin {"asleep", "napping"}
    BY <1>0, <2>1 DEF Goto
  <2>5. QED
    BY <1>4, <2>1, <2>2, <2>3, <2>4
<1>7. ASSUME NEW t \in Threads,
             \/ wait_returns(t) \/ wait_expires(t) \/ reload_serving(t) \/ timed_out(t) \/ unlock(t)
      PROVE  NoLostWakeup'
  <2>1. /\ serving_ticket' = serving_ticket /\ pc[t] # "notify"
        /\ \E l \in {"check", "try", "pause", "idle", "store"} : Goto(t, l)
    BY <1>7 DEF wait_returns, wait_expires, reload_serving, timed_out, unlock, Awake
  <2>2. \A u \in Threads : u # t => seen'[u] = seen[u]
    BY <1>0, <1>7 DEF wait_returns, wait_expires, reload_serving, timed_out, unlock, Read, Forget
  <2>3. \A u \in Threads : u # t => pc'[u] = pc[u]
    BY <1>0, <2>1 DEF Goto
  <2>4. pc'[t] \notin {"asleep", "napping"}
    BY <1>0, <2>1 DEF Goto
  <2>5. QED
    BY <1>4, <2>1, <2>2, <2>3, <2>4
<1>8. QED
  BY <1>1, <1>2, <1>3, <1>5, <1>6, <1>7 DEF Next, Progress

\* No thread sleeps on an outdated value of the serving word unless the notify
\* for the change is still to come.
THEOREM WakeupKept == Spec => []NoLostWakeup
<1>1. Init => NoLostWakeup
  BY DEF Init, NoLostWakeup
<1>2. QED
  BY <1>1, InitInv, StepInv, StepWakeup, PTL DEF Spec

-----------------------------------------------------------------------------
(* The queue the two words stand for.                                      *)

\* A function on an initial segment of the naturals is a sequence.
LEMMA FunIsSeq ==
  ASSUME NEW n \in Nat, NEW S, NEW f \in [1 .. n -> S]
  PROVE  f \in Seq(S) /\ Len(f) = n
  OBVIOUS

(* The queue lists every ticket holder, each at the place its ticket says. *)
QueueIsExact ==
  /\ Ahead(next_ticket) \in Nat
  /\ Queue \in Seq(Threads) /\ Len(Queue) = Ahead(next_ticket)
  /\ \A i \in 1 .. Len(Queue) :
       Queue[i] \in TicketHolders /\ Ahead(my_ticket[Queue[i]]) = i - 1
  /\ \A t \in TicketHolders :
       Ahead(my_ticket[t]) + 1 \in 1 .. Len(Queue) /\ Queue[Ahead(my_ticket[t]) + 1] = t

\* No place of the queue is empty and none has two threads: as many tickets
\* are out as there are places, and they are distinct.
LEMMA QueueExact == Inv => QueueIsExact
<1> SUFFICES ASSUME Inv PROVE QueueIsExact
  OBVIOUS
<1> DEFINE A == Ahead(next_ticket)
           Place == [t \in TicketHolders |-> Ahead(my_ticket[t])]
<1>0. /\ serving_ticket \in Words /\ next_ticket \in Words /\ my_ticket \in [Threads -> Words]
      /\ TicketsAreDistinct /\ TicketHolders \subseteq Threads
  BY DEF Inv, TicketsAreDistinct, TypeOK, TicketHolders
<1>1. A \in Nat
  BY <1>0, DistType, AheadIsDist
<1>2. \A t \in TicketHolders : Ahead(my_ticket[t]) \in 0 .. A - 1
  <2> SUFFICES ASSUME NEW t \in TicketHolders PROVE Ahead(my_ticket[t]) \in 0 .. A - 1
    OBVIOUS
  <2>1. Ahead(my_ticket[t]) \in Nat
    BY <1>0, DistType, AheadIsDist
  <2>2. Ahead(my_ticket[t]) < A
    BY <1>0 DEF TicketsAreDistinct
  <2> HIDE DEF A
  <2>3. QED
    BY <1>1, <2>1, <2>2
<1>3. \A t, u \in TicketHolders : Ahead(my_ticket[t]) = Ahead(my_ticket[u]) => t = u
  BY <1>0, DistInjective, AheadIsDist DEF TicketsAreDistinct
<1>4. Place \in Injection(TicketHolders, 0 .. A - 1)
  BY <1>2, <1>3 DEF Injection, IsInjective
<1>5. IsFiniteSet(0 .. A - 1) /\ Cardinality(0 .. A - 1) = A
  <2> HIDE DEF A
  <2> QED
    BY <1>1, FS_Interval
<1>6. Cardinality(TicketHolders) = A
  BY <1>0 DEF TicketsAreDistinct
<1>7. Place \in Surjection(TicketHolders, 0 .. A - 1)
  BY <1>4, <1>5, <1>6, FS_Injection
<1>8. \A j \in 0 .. A - 1 : \E t \in TicketHolders : Ahead(my_ticket[t]) = j
  BY <1>7 DEF Surjection
<1>9. ASSUME NEW i \in 1 .. A
      PROVE  Queue[i] \in TicketHolders /\ Ahead(my_ticket[Queue[i]]) = i - 1
  <2>1. i - 1 \in 0 .. A - 1
    <3> HIDE DEF A
    <3> QED
      BY <1>1, <1>9
  <2>2. \E t \in TicketHolders : Ahead(my_ticket[t]) = i - 1
    BY <1>8, <2>1
  <2>3. Queue[i] = CHOOSE t \in TicketHolders : Ahead(my_ticket[t]) = i - 1
    BY <1>9 DEF Queue
  <2>4. QED
    BY <2>2, <2>3
<1>10. Queue \in [1 .. A -> Threads]
  BY <1>0, <1>9 DEF Queue
<1>11. Queue \in Seq(Threads) /\ Len(Queue) = A
  <2> HIDE DEF A, Queue
  <2> QED
    BY <1>1, <1>10, FunIsSeq
<1>12. ASSUME NEW t \in TicketHolders
       PROVE  Ahead(my_ticket[t]) + 1 \in 1 .. A /\ Queue[Ahead(my_ticket[t]) + 1] = t
  <2> DEFINE j == Ahead(my_ticket[t])
  <2>1. j + 1 \in 1 .. A /\ (j + 1) - 1 = j
    <3>1. j \in 0 .. A - 1
      BY <1>2
    <3> HIDE DEF A, j
    <3> QED
      BY <1>1, <3>1
  <2>2. Queue[j + 1] \in TicketHolders /\ Ahead(my_ticket[Queue[j + 1]]) = j
    <3> HIDE DEF A
    <3> QED
      BY <1>9, <2>1
  <2>3. QED
    BY <1>3, <2>1, <2>2
<1>13. QED
  BY <1>1, <1>9, <1>11, <1>12 DEF QueueIsExact

\* The same after a step.
LEMMA QueueExactNext == Inv' => QueueIsExact'
  BY QueueExact, PTL

\* A step that leaves the words, the tickets and their holders alone leaves
\* the queue alone.
LEMMA QueueStays ==
  ASSUME UNCHANGED <<serving_ticket, next_ticket, my_ticket>>, TicketHolders' = TicketHolders
  PROVE  Queue' = Queue
  BY DEF Queue, Ahead

\* Every atomic operation is a step of the FIFO queue or leaves it alone.
THEOREM StepRefines == Inv /\ [Next]_vars => [Fifo!QNext]_<<Queue, Owners>>
<1> SUFFICES ASSUME Inv, [Next]_vars PROVE Fifo!QNext \/ UNCHANGED <<Queue, Owners>>
  OBVIOUS
<1> USE DEF At
<1>0. /\ serving_ticket \in Words /\ next_ticket \in Words /\ my_ticket \in [Threads -> Words]
      /\ seen \in [Threads -> Words] /\ pc \in [Threads -> Labels]
      /\ TicketsAreDistinct /\ OwnersAreServed
  BY DEF Inv, TicketsAreDistinct, TypeOK
<1>q. QueueIsExact /\ QueueIsExact'
  BY QueueExact, QueueExactNext, StepInv
<1>1. CASE UNCHANGED vars
  BY <1>1, QueueStays DEF vars, TicketHolders, Owners
<1>2. ASSUME NEW t \in Threads, lock(t) PROVE Fifo!QEnqueue(t)
  <2>1. /\ pc[t] = "idle" /\ HandOut(t, next_ticket) /\ Goto(t, "check")
        /\ UNCHANGED <<serving_ticket, seen, timed>>
    BY <1>2 DEF lock
  <2>2. pc[t] \notin Holding /\ "check" \in Holding
    BY <2>1 DEF Holding, Queued, Owning
  <2>3. /\ Ahead(next_ticket)' = Ahead(next_ticket) + 1
        /\ TicketHolders' = TicketHolders \cup {t} /\ t \notin TicketHolders
    BY <1>0, <2>1, <2>2, HandOutKeeps
  <2>4. \A i \in 1 .. Len(Queue) : Queue[i] # t
    BY <1>q, <2>3 DEF QueueIsExact
  <2>5. /\ Len(Queue) \in Nat /\ Len(Queue') = Len(Queue) + 1
        /\ Queue \in Seq(Threads) /\ Queue' \in Seq(Threads)
    BY <1>q, <2>3 DEF QueueIsExact
  <2>6. my_ticket' = [my_ticket EXCEPT ![t] = next_ticket]
    BY <2>1 DEF HandOut
  <2>7. ASSUME NEW i \in 1 .. Len(Queue) PROVE Queue'[i] = Queue[i]
    <3>1. PICK u : u = Queue[i]
      OBVIOUS
    <3>2. u \in TicketHolders /\ u \in Threads /\ Ahead(my_ticket[u]) = i - 1
      BY <1>q, <2>7, <3>1 DEF QueueIsExact, TicketHolders
    <3>3. u \in TicketHolders' /\ my_ticket'[u] = my_ticket[u]
      BY <1>0, <2>3, <2>6, <3>2
    <3>4. (Ahead(my_ticket[u]))' = i - 1
      BY <2>1, <3>2, <3>3 DEF Ahead
    <3>5. Queue'[(i - 1) + 1] = u
      BY <1>q, <3>3, <3>4 DEF QueueIsExact
    <3>6. (i - 1) + 1 = i
      BY <2>7
    <3>7. QED
      BY <3>1, <3>5, <3>6
  <2>8. Queue'[Len(Queue) + 1] = t
    <3>1. (Ahead(my_ticket[t]))' = Ahead(next_ticket)
      BY <1>0, <2>1, <2>6 DEF Ahead
    <3>2. t \in TicketHolders'
      BY <2>3
    <3>3. QED
      BY <1>q, <3>1, <3>2 DEF QueueIsExact
  <2>9. Queue' = Append(Queue, t)
    <3> HIDE DEF Queue
    <3>1. Append(Queue, t) \in Seq(Threads) /\ Len(Append(Queue, t)) = Len(Queue) + 1
      BY <2>5
    <3>2. \A i \in 1 .. Len(Queue) + 1 : Queue'[i] = Append(Queue, t)[i]
      BY <2>5, <2>7, <2>8
    <3>3. QED
      BY <2>5, <3>1, <3>2, SeqEqual
  <2>10. Owners' = Owners
    BY <1>0, <2>1 DEF Owners, Goto, Owning
  <2>11. QED
    BY <2>4, <2>9, <2>10 DEF Fifo!QEnqueue
<1>3. ASSUME NEW t \in Threads, try_exchange(t) PROVE Fifo!QTryAcquire(t)
  <2>1. /\ pc[t] = "exchange" /\ next_ticket = seen[t] /\ HandOut(t, next_ticket)
        /\ Goto(t, "cs") /\ seen' = [seen EXCEPT ![t] = 0]
        /\ UNCHANGED <<serving_ticket, timed>>
    BY <1>3 DEF try_exchange, Forget
  <2>2. pc[t] \notin Holding /\ "cs" \in Holding
    BY <2>1 DEF Holding, Queued, Owning
  <2>3. Ahead(next_ticket)' = Ahead(next_ticket) + 1
    BY <1>0, <2>1, <2>2, HandOutKeeps, Bounds
  <2>4. next_ticket = serving_ticket /\ TicketHolders = {}
    BY <2>1, ExchangeMeansFree
  <2>5. Ahead(next_ticket) = 0
    BY <1>0, <2>4, DistType, AheadIsDist
  <2>6. Owners = {} /\ Owners' = {t} /\ TicketHolders' = {t}
    BY <1>0, <2>1, <2>4 DEF Owners, TicketHolders, Goto, Owning
  <2>7. /\ Queue \in Seq(Threads) /\ Len(Queue) = 0
        /\ Queue' \in Seq(Threads) /\ Len(Queue') = 1 /\ Queue'[1] = t
    <3>1. Queue \in Seq(Threads) /\ Len(Queue) = 0
      BY <1>q, <2>5 DEF QueueIsExact
    <3>2. Queue' \in Seq(Threads) /\ Len(Queue') = 1
      BY <1>q, <2>3, <2>5 DEF QueueIsExact
    <3>3. Queue'[1] \in TicketHolders'
      BY <1>q, <3>2 DEF QueueIsExact
    <3>4. QED
      BY <2>6, <3>1, <3>2, <3>3
  <2> HIDE DEF Queue
  <2>8. Queue = <<>>
    BY <2>7, EmptySeq
  <2>9. Queue' = <<t>>
    BY <2>7
  <2>10. QED
    BY <2>6, <2>8, <2>9 DEF Fifo!QTryAcquire
<1>4. ASSUME NEW t \in Threads, check_ticket(t), serving_ticket = my_ticket[t]
      PROVE  Fifo!QGrant
  <2>1. /\ pc[t] = "check" /\ Goto(t, "cs")
        /\ UNCHANGED <<serving_ticket, next_ticket, my_ticket>>
    BY <1>4 DEF check_ticket
  <2>2. t \in TicketHolders /\ TicketHolders' = TicketHolders
    BY <1>0, <2>1 DEF TicketHolders, Goto, Queued, Owning
  <2>3. Queue' = Queue
    BY <2>1, <2>2, QueueStays
  <2>4. Ahead(my_ticket[t]) = 0
    BY <1>0, <1>4, DistType, AheadIsDist
  <2>5. Queue \in Seq(Threads) /\ Len(Queue) >= 1 /\ Queue[1] = t /\ Len(Queue) \in Nat
    BY <1>q, <2>2, <2>4 DEF QueueIsExact
  <2>6. Owners = {}
    <3> SUFFICES ASSUME NEW u \in Owners PROVE FALSE
      OBVIOUS
    <3>1. my_ticket[u] = my_ticket[t] /\ u \in TicketHolders
      BY <1>0, <1>4 DEF OwnersAreServed, Owners, TicketHolders
    <3>2. u = t
      BY <1>0, <2>2, <3>1 DEF TicketsAreDistinct
    <3>3. QED
      BY <2>1, <3>2 DEF Owners, Owning
  <2>7. Owners' = {t}
    BY <1>0, <2>1, <2>6 DEF Owners, Goto, Owning
  <2> HIDE DEF Queue
  <2>8. Queue # <<>> /\ Head(Queue) = t
    BY <2>5
  <2>9. QED
    BY <2>3, <2>6, <2>7, <2>8 DEF Fifo!QGrant
<1>5. ASSUME NEW t \in Threads, store_serving(t) PROVE Fifo!QRelease
  <2>1. /\ t \in TicketHolders /\ t \in Owners /\ my_ticket[t] = serving_ticket
        /\ serving_ticket' = Succ(serving_ticket) /\ Goto(t, "notify") /\ pc[t] = "store"
        /\ my_ticket' = [my_ticket EXCEPT ![t] = 0] /\ next_ticket' = next_ticket
    BY <1>0, <1>5 DEF store_serving, OwnersAreServed, Owners, TicketHolders, Owning
  <2>2. Ahead(my_ticket[t]) = 0
    BY <1>0, <2>1, DistType, AheadIsDist
  <2>3. Queue \in Seq(Threads) /\ Len(Queue) >= 1 /\ Queue[1] = t /\ Len(Queue) \in Nat
    BY <1>q, <2>1, <2>2 DEF QueueIsExact
  <2>4. Owners = {t} /\ Owners' = {}
    <3>1. \A u \in Owners : u = t
      BY <1>0, <2>1 DEF OwnersAreServed, TicketsAreDistinct, Owners, TicketHolders
    <3>2. QED
      BY <1>0, <2>1, <3>1 DEF Owners, Goto, Owning
  <2>5. TicketHolders' = TicketHolders \ {t}
    BY <1>0, <2>1 DEF TicketHolders, Goto, Queued, Owning
  <2>6. next_ticket # serving_ticket
    <3>1. Ahead(next_ticket) >= 1
      BY <1>q, <2>3 DEF QueueIsExact
    <3>2. QED
      BY <1>0, <3>1, DistType, AheadIsDist
  <2>7. Len(Queue') = Len(Queue) - 1 /\ Queue' \in Seq(Threads)
    <3>1. Ahead(next_ticket)' = Dist(Succ(serving_ticket), next_ticket)
      BY <2>1 DEF Ahead, Dist
    <3>2. Ahead(next_ticket)' = Ahead(next_ticket) - 1
      BY <1>0, <2>6, <3>1, DistShrinks, AheadIsDist
    <3>3. QED
      BY <1>q, <3>2 DEF QueueIsExact
  <2>8. ASSUME NEW i \in 1 .. Len(Queue) - 1 PROVE Queue'[i] = Queue[i + 1]
    <3>1. i + 1 \in 1 .. Len(Queue) /\ (i + 1) - 1 = i /\ i # 0 /\ (i - 1) + 1 = i
      <4> HIDE DEF Queue
      <4> QED
        BY <2>3, <2>8
    <3>2. PICK u : u = Queue[i + 1]
      OBVIOUS
    <3>3. u \in TicketHolders /\ Ahead(my_ticket[u]) = i
      BY <1>q, <3>1, <3>2 DEF QueueIsExact
    <3>4. u # t /\ u \in Threads
      BY <2>2, <3>1, <3>3 DEF TicketHolders
    <3>5. u \in TicketHolders' /\ my_ticket'[u] = my_ticket[u] /\ my_ticket[u] \in Words
      BY <1>0, <2>1, <2>5, <3>3, <3>4
    <3>6. my_ticket[u] # serving_ticket
      BY <1>0, <3>1, <3>3, <3>5, DistType, AheadIsDist
    <3>7. (Ahead(my_ticket[u]))' = Dist(Succ(serving_ticket), my_ticket[u])
      BY <2>1, <3>5 DEF Ahead, Dist
    <3>8. (Ahead(my_ticket[u]))' = i - 1
      BY <1>0, <3>3, <3>5, <3>6, <3>7, DistShrinks, AheadIsDist
    <3>9. Queue'[(i - 1) + 1] = u
      BY <1>q, <3>5, <3>8 DEF QueueIsExact
    <3>10. QED
      BY <3>1, <3>2, <3>9
  <2> HIDE DEF Queue
  <2>9. Queue # <<>> /\ Head(Queue) = t
    BY <2>3
  <2>10. Queue' = Tail(Queue)
    <3>1. /\ Tail(Queue) \in Seq(Threads) /\ Len(Tail(Queue)) = Len(Queue) - 1
          /\ \A i \in 1 .. Len(Tail(Queue)) : Tail(Queue)[i] = Queue[i + 1]
      BY <2>3, <2>9, HeadTailProperties
    <3>2. \A i \in 1 .. Len(Queue') : Queue'[i] = Tail(Queue)[i]
      BY <2>7, <2>8, <3>1
    <3>3. QED
      BY <2>7, <3>1, <3>2, SeqEqual
  <2>11. QED
    BY <2>4, <2>9, <2>10 DEF Fifo!QRelease
<1>6. ASSUME NEW t \in Threads,
             \/ check_ticket(t) /\ serving_ticket # my_ticket[t]
             \/ futex_sleep(t) \/ wait_returns(t) \/ wait_expires(t) \/ try_fails(t)
             \/ reload_serving(t) \/ timed_out(t) \/ unlock(t)
             \/ try_lock(t) \/ try_lock_until(t) \/ try_lock_again(t)
      PROVE  UNCHANGED <<Queue, Owners>>
  <2>1. UNCHANGED <<serving_ticket, next_ticket, my_ticket>>
    BY <1>6 DEF check_ticket, futex_sleep, wait_returns, wait_expires, try_fails, reload_serving,
                timed_out, unlock, try_lock, try_lock_until, try_lock_again, LoadServing
  <2>2. \E l \in Labels : /\ Goto(t, l)
                          /\ pc[t] \in Queued <=> l \in Queued
                          /\ pc[t] \in Owning <=> l \in Owning
    BY <1>6 DEF check_ticket, futex_sleep, wait_returns, wait_expires, try_fails, reload_serving,
                timed_out, unlock, try_lock, try_lock_until, try_lock_again, LoadServing, Awake,
                Labels, Queued, Owning, Timed
  <2>3. TicketHolders' = TicketHolders /\ Owners' = Owners
    BY <1>0, <2>2 DEF TicketHolders, Owners, Goto
  <2>4. QED
    BY <2>1, <2>3, QueueStays
<1>7. ASSUME NEW t \in Threads, notify_all(t) PROVE UNCHANGED <<Queue, Owners>>
  <2>1. TicketHolders' = TicketHolders /\ Owners' = Owners
    BY <1>0, <1>7 DEF notify_all, TicketHolders, Owners, Queued, Owning
  <2>2. QED
    BY <1>7, <2>1, QueueStays DEF notify_all
<1>8. QED
  BY <1>1, <1>2, <1>3, <1>4, <1>5, <1>6, <1>7 DEF Next, Progress, Fifo!QNext

\* ticket_mutex is a FIFO lock for any number of threads: the lock is granted
\* in the order of the tickets, and try_lock succeeds only on an empty queue.
THEOREM Refinement == Spec => ImplementsFifo
<1>1. Init => Fifo!QInit
  <2> SUFFICES ASSUME Init PROVE Fifo!QInit
    OBVIOUS
  <2>1. Ahead(next_ticket) = 0 /\ Owners = {}
    BY DEF Init, Ahead, Owners, Owning
  <2>2. QueueIsExact
    BY InitInv, QueueExact
  <2>3. Queue \in Seq(Threads) /\ Len(Queue) = 0
    BY <2>1, <2>2 DEF QueueIsExact
  <2> HIDE DEF Queue
  <2>4. Queue = <<>>
    BY <2>3, EmptySeq
  <2>5. QED
    BY <2>1, <2>4 DEF Fifo!QInit
<1>2. QED
  BY <1>1, InitInv, StepInv, StepRefines, PTL
  DEF Spec, ImplementsFifo, Fifo!FifoSpec, Fifo!qvars

==============================================================================
