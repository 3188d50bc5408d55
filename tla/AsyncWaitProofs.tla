--------------------------- MODULE AsyncWaitProofs ---------------------------
(***************************************************************************)
(* Proofs, for any finite set of threads and any set of asynchronous       *)
(* operations, of the safety properties of the native events and           *)
(* semaphores and of asynchronous waits for them.                          *)
(*                                                                         *)
(* The object: which labels a kind of object has (LabelsFit), what its     *)
(* counters count (CountersFit), and where its tokens are (TokensFit, one  *)
(* conjunct per kind).  The operations have an invariant of their own      *)
(* (OpFits), reach the object only by taking a token, and exist only for   *)
(* objects that have a descriptor (OpsFit).                                *)
(***************************************************************************)
EXTENDS AsyncWait, FiniteSetTheorems, TLAPS

Kind == setup.kind

(* The labels and calls a thread may be in, by the kind of the object.     *)
Fits(b, c) ==
  /\ b = "posting" => Kind \in OsSemaphores
  /\ b \in {"notify", "claimed", "renotify", "unclaim", "late"} => Kind = "kqueue_semaphore"
  /\ b = "probe" => Kind = "auto_eventfd"
  /\ b = "write" => Kind \in {"auto_eventfd", "manual_eventfd"}
  /\ b \in {"exchange", "increment", "trigger", "count", "chain", "chainCount", "chainTrigger",
            "uncountFailed"} => Kind = "auto_kqueue"
  /\ b = "uncount" => Kind \in AutoEvents
  /\ b = "drain" => Kind = "manual_eventfd"
  /\ b = "readd" => Kind = "manual_kqueue"
  /\ b \in {"look", "lastTry"} => Kind \notin OsSemaphores
  /\ Kind = "auto_eventfd" => (b = "lastTry" => c = "for") /\ (b = "uncount" => c = "wait")
  /\ (Kind = "kqueue_semaphore" /\ Dependable) =>
       b \in {"idle", "notify", "claimed", "renotify"} /\ c = "wait"

LabelsFit == \A t \in Threads : Fits(pc[t], call[t])

(* wait_count_ counts the threads between its increment and its decrement. *)
Slot(b, c) ==
  \/ Kind = "auto_eventfd" /\ c = "wait" /\ b \in {"look", "poll", "uncount"}
  \/ Kind = "auto_kqueue" /\ b \in {"look", "poll", "lastTry", "chain", "chainCount", "chainTrigger",
                                    "uncount", "uncountFailed"}

InSlot == {t \in Threads : Slot(pc[t], call[t])}

CountersFit ==
  /\ waiters = Cardinality(InSlot)
  /\ \A t \in Threads : left[t] = 0 <=> pc[t] \notin {"posting", "notify"}

(* The iterations that are left of the loops in release, one by one.       *)
Posts == {p \in Threads \X Nat : p[2] \in 1 .. left[p[1]]}

WakingLabels == {"trigger", "look", "lastTry", "chain", "chainCount", "chainTrigger"}
Polling == \E t \in Threads : pc[t] = "poll"
Waking == \E t \in Threads : pc[t] \in WakingLabels
Sending == \E t \in Threads : pc[t] \in {"notify", "renotify"}

CounterTokens == event = owed /\ event >= 0
OsTokens == IsFiniteSet(Posts) /\ event + Cardinality(Posts) = owed /\ event >= 0
AutoTokens == count = owed /\ count >= 0 /\ (event <= 0 /\ count > 0 /\ Polling => Waking)
ClaimTokens == event <= 0 /\ owed > 0 => Sending
ManualTokens ==
  /\ owed \in {0, 1} /\ event >= -1
  /\ owed = 1 => event > 0 /\ ~ResetRuns
  /\ event = -1 => Kind = "manual_kqueue" /\ ResetRuns

TokensFit ==
  /\ Kind \in {"eventfd_semaphore", "auto_eventfd"} => CounterTokens
  /\ Kind \in OsSemaphores => OsTokens
  /\ Kind = "auto_kqueue" => AutoTokens
  /\ Kind = "kqueue_semaphore" /\ Dependable => ClaimTokens
  /\ Kind \in ManualEvents => ManualTokens

ObjectInv == TypeOK /\ LabelsFit /\ CountersFit /\ TokensFit

-----------------------------------------------------------------------------
(* The step of a thread to label b, in call c, with k iterations left.     *)
Moves(t, b, c, k) ==
  /\ pc' = [pc EXCEPT ![t] = b] /\ call' = [call EXCEPT ![t] = c]
  /\ left' = [left EXCEPT ![t] = k] /\ setup' = setup

\* The kind of the object is one of those that exist.
LEMMA Kinds ==
  ASSUME TypeOK
  PROVE  /\ \/ Kind \in {"eventfd_semaphore", "auto_eventfd"} \/ Kind \in OsSemaphores
            \/ Kind = "auto_kqueue" \/ Kind = "kqueue_semaphore" \/ Kind \in ManualEvents
         /\ setup.threads \subseteq Threads
  BY NativeTokensParameters DEF TypeOK, Kind, Semaphores, AutoEvents, ManualEvents

\* wait_count_, in and out.
LEMMA SlotCount ==
  ASSUME TypeOK, NEW t \in Threads, NEW b, NEW c, NEW k, Moves(t, b, c, k)
  PROVE  /\ IsFiniteSet(InSlot) /\ Cardinality(InSlot) \in Nat
         /\ (Slot(pc[t], call[t]) <=> Slot(b, c)) => InSlot' = InSlot
         /\ ~Slot(pc[t], call[t]) /\ Slot(b, c) => Cardinality(InSlot') = Cardinality(InSlot) + 1
         /\ Slot(pc[t], call[t]) /\ ~Slot(b, c) =>
              Cardinality(InSlot') = Cardinality(InSlot) - 1 /\ Cardinality(InSlot') \in Nat
<1>1. IsFiniteSet(InSlot)
  BY NativeTokensParameters, FS_Subset DEF InSlot
<1>2. Cardinality(InSlot) \in Nat
  BY <1>1, FS_CardinalityType
<1>3. ASSUME NEW u \in Threads
      PROVE  u \in InSlot' <=> IF u = t THEN Slot(b, c) ELSE u \in InSlot
  BY DEF InSlot, Slot, Moves, TypeOK, Kind
<1>4. InSlot' \subseteq Threads /\ InSlot \subseteq Threads /\ (t \in InSlot <=> Slot(pc[t], call[t]))
  BY DEF InSlot
<1>5. (Slot(pc[t], call[t]) <=> Slot(b, c)) => InSlot' = InSlot
  BY <1>3, <1>4
<1>6. ASSUME ~Slot(pc[t], call[t]), Slot(b, c)
      PROVE  Cardinality(InSlot') = Cardinality(InSlot) + 1
  <2>1. InSlot' = InSlot \cup {t} /\ t \notin InSlot
    BY <1>3, <1>4, <1>6
  <2>2. QED
    BY <1>1, <2>1, FS_AddElement
<1>7. ASSUME Slot(pc[t], call[t]), ~Slot(b, c)
      PROVE  Cardinality(InSlot') = Cardinality(InSlot) - 1 /\ Cardinality(InSlot') \in Nat
  <2>1. InSlot' = InSlot \ {t} /\ t \in InSlot
    BY <1>3, <1>4, <1>7
  <2>2. Cardinality(InSlot \ {t}) = Cardinality(InSlot) - 1 /\ IsFiniteSet(InSlot \ {t})
    BY <1>1, <2>1, FS_RemoveElement
  <2>3. QED
    BY <2>1, <2>2, FS_CardinalityType
<1>8. QED
  BY <1>1, <1>2, <1>5, <1>6, <1>7

\* All but the tokens.
LEMMA MoveKeeps ==
  ASSUME ObjectInv, NEW t \in Threads, NEW b \in Labels, NEW c \in Calls, NEW k \in Nat,
         Moves(t, b, c, k), Fits(b, c), k = 0 <=> b \notin {"posting", "notify"},
         count' \in Int, event' \in Int, owed' \in Int,
         \/ (Slot(pc[t], call[t]) <=> Slot(b, c)) /\ waiters' = waiters
         \/ ~Slot(pc[t], call[t]) /\ Slot(b, c) /\ waiters' = waiters + 1
         \/ Slot(pc[t], call[t]) /\ ~Slot(b, c) /\ waiters' = waiters - 1,
         TokensFit'
  PROVE  ObjectInv'
<1>1. TypeOK /\ LabelsFit /\ CountersFit
  BY DEF ObjectInv
<1>2. waiters' = Cardinality(InSlot') /\ waiters' \in Nat
  BY <1>1, SlotCount DEF CountersFit
<1>3. TypeOK'
  BY <1>1, <1>2 DEF TypeOK, Moves
<1>4. LabelsFit'
  BY <1>1 DEF LabelsFit, Fits, Moves, TypeOK, Kind, Dependable
<1>5. \A u \in Threads : left'[u] = 0 <=> pc'[u] \notin {"posting", "notify"}
  BY <1>1 DEF CountersFit, Moves, TypeOK
<1>6. QED
  BY <1>2, <1>3, <1>4, <1>5 DEF ObjectInv, CountersFit

\* Who polls, wakes, posts and resets after a step.
LEMMA LabelsMove ==
  ASSUME TypeOK, NEW t \in Threads, NEW b, NEW c, NEW k, Moves(t, b, c, k)
  PROVE  /\ Polling' => Polling \/ b = "poll"
         /\ b \in WakingLabels => Waking'
         /\ Waking /\ pc[t] \notin WakingLabels => Waking'
         /\ b \in {"notify", "renotify"} => Sending'
         /\ Sending /\ pc[t] \notin {"notify", "renotify"} => Sending'
         /\ ResetRuns' => ResetRuns \/ b \in {"drain", "readd"}
         /\ ResetRuns /\ pc[t] \notin {"drain", "readd"} => ResetRuns'
         /\ b \in {"drain", "readd"} => ResetRuns'
         /\ Kind' = Kind /\ Dependable' = Dependable
<1>1. \A u \in Threads : pc'[u] = IF u = t THEN b ELSE pc[u]
  BY DEF Moves, TypeOK
<1>2. pc'[t] = b /\ \A u \in Threads : u # t => pc'[u] = pc[u]
  BY <1>1
<1>3. Polling' => Polling \/ b = "poll"
  BY <1>1 DEF Polling
<1>4. b \in WakingLabels => Waking'
  BY <1>2 DEF Waking, WakingLabels
<1>5. Waking /\ pc[t] \notin WakingLabels => Waking'
  BY <1>2 DEF Waking, WakingLabels
<1>6. b \in {"notify", "renotify"} => Sending'
  BY <1>2 DEF Sending
<1>7. Sending /\ pc[t] \notin {"notify", "renotify"} => Sending'
  BY <1>2 DEF Sending
<1>8. ResetRuns' => ResetRuns \/ b \in {"drain", "readd"}
  BY <1>1 DEF ResetRuns
<1>9. ResetRuns /\ pc[t] \notin {"drain", "readd"} => ResetRuns'
  BY <1>2 DEF ResetRuns
<1>10. b \in {"drain", "readd"} => ResetRuns'
  BY <1>2 DEF ResetRuns
<1>11. Kind' = Kind /\ Dependable' = Dependable
  BY DEF Moves, Kind, Dependable
<1>12. QED
  BY <1>3, <1>4, <1>5, <1>6, <1>7, <1>8, <1>9, <1>10, <1>11

\* The iterations that are left: as before, n new ones, one less.
LEMMA PostsMove ==
  ASSUME TypeOK, NEW t \in Threads, NEW b, NEW c, NEW k \in Nat, Moves(t, b, c, k)
  PROVE  /\ k = left[t] => Posts' = Posts
         /\ left[t] = 0 /\ IsFiniteSet(Posts) =>
              IsFiniteSet(Posts') /\ Cardinality(Posts') = Cardinality(Posts) + k
         /\ left[t] = k + 1 /\ IsFiniteSet(Posts) =>
              IsFiniteSet(Posts') /\ Cardinality(Posts') = Cardinality(Posts) - 1
         /\ IsFiniteSet(Posts) => Cardinality(Posts) \in Nat
<1>1. \A u \in Threads : left'[u] = (IF u = t THEN k ELSE left[u]) /\ left[u] \in Nat
  BY DEF Moves, TypeOK
<1>2. left'[t] = k /\ (\A u \in Threads : u # t => left'[u] = left[u]) /\ left[t] \in Nat
  BY <1>1
<1>3. /\ \A u \in Threads, i \in Nat : <<u, i>> \in Posts' <=> i \in 1 .. left'[u]
      /\ \A u \in Threads, i \in Nat : <<u, i>> \in Posts <=> i \in 1 .. left[u]
      /\ Posts \subseteq Threads \X Nat /\ Posts' \subseteq Threads \X Nat
  BY DEF Posts
<1>4. ASSUME k = left[t] PROVE Posts' = Posts
  <2>1. left' = left
    BY <1>4 DEF Moves, TypeOK
  <2>2. QED
    BY <2>1 DEF Posts
<1>5. ASSUME left[t] = 0, IsFiniteSet(Posts)
      PROVE  IsFiniteSet(Posts') /\ Cardinality(Posts') = Cardinality(Posts) + k
  <2> DEFINE New == {t} \X (1 .. k)
  <2>1. IsFiniteSet(1 .. k) /\ Cardinality(1 .. k) = k
    BY FS_Interval
  <2>2. IsFiniteSet(New) /\ Cardinality(New) = k
    <3>1. IsFiniteSet({t}) /\ Cardinality({t}) = 1
      BY FS_Singleton
    <3>2. IsFiniteSet(New) /\ Cardinality(New) = Cardinality({t}) * Cardinality(1 .. k)
      BY <3>1, <2>1, FS_Product
    <3>3. QED
      BY <3>1, <3>2, <2>1
  <2>3. \A i \in Nat : i \notin 1 .. left[t]
    BY <1>5
  <2>4. Posts' = Posts \cup New
    <3>1. ASSUME NEW u \in Threads, NEW i \in Nat
          PROVE  <<u, i>> \in Posts' <=> <<u, i>> \in Posts \cup New
      <4>1. CASE u = t
        BY <4>1, <1>2, <1>3, <2>3
      <4>2. CASE u # t
        BY <4>2, <1>2, <1>3
      <4>3. QED
        BY <4>1, <4>2
    <3>2. New \subseteq Threads \X Nat
      OBVIOUS
    <3>3. QED
      BY <3>1, <3>2, <1>3
  <2>5. Posts \cap New = {}
    BY <1>3, <2>3
  <2>6. Cardinality(Posts \cap New) = 0
    BY <2>5, FS_EmptySet
  <2> HIDE DEF New
  <2>7. QED
    BY <1>5, <2>2, <2>4, <2>6, FS_Union, FS_CardinalityType
<1>6. ASSUME left[t] = k + 1, IsFiniteSet(Posts)
      PROVE  IsFiniteSet(Posts') /\ Cardinality(Posts') = Cardinality(Posts) - 1
  <2>1. <<t, left[t]>> \in Posts
    BY <1>2, <1>3, <1>6
  <2>2. Posts' = Posts \ {<<t, left[t]>>}
    <3>1. ASSUME NEW u \in Threads, NEW i \in Nat
          PROVE  <<u, i>> \in Posts' <=> (<<u, i>> \in Posts /\ <<u, i>> # <<t, left[t]>>)
      <4>1. CASE u = t
        BY <4>1, <1>2, <1>3, <1>6
      <4>2. CASE u # t
        BY <4>2, <1>2, <1>3
      <4>3. QED
        BY <4>1, <4>2
    <3>2. QED
      BY <3>1, <1>3
  <2>3. QED
    BY <1>6, <2>1, <2>2, FS_RemoveElement
<1>7. QED
  BY <1>4, <1>5, <1>6, FS_CardinalityType

\* The labels after a successful try and after a poll.
LEMMA AfterLabels ==
  ASSUME NEW t
  PROVE  /\ Kind = "auto_kqueue" => AfterTake(t) = "chain"
         /\ Kind = "auto_eventfd" /\ call[t] = "wait" => AfterTake(t) = "uncount"
         /\ Kind = "auto_eventfd" /\ call[t] # "wait" => AfterTake(t) = "idle"
         /\ Kind \notin AutoEvents => AfterTake(t) = "idle"
         /\ AfterPoll(t) \in {"lastTry", "look", "idle"}
         /\ AfterPoll(t) = "lastTry" => call[t] = "for"
         /\ AfterPoll(t) = "idle" => Kind \in ManualEvents
<1>1. Kind = "auto_kqueue" => AfterTake(t) = "chain"
  <2>1. "auto_kqueue" # "auto_eventfd"
    OBVIOUS
  <2>2. QED
    BY <2>1, Zenon DEF AfterTake, Kind
<1>2. Kind = "auto_eventfd" /\ call[t] = "wait" => AfterTake(t) = "uncount"
  <2>1. "auto_kqueue" # "auto_eventfd"
    OBVIOUS
  <2>2. QED
    BY <2>1, Zenon DEF AfterTake, Kind
<1>3. Kind = "auto_eventfd" /\ call[t] # "wait" => AfterTake(t) = "idle"
  <2>1. "auto_kqueue" # "auto_eventfd"
    OBVIOUS
  <2>2. QED
    BY <2>1, Zenon DEF AfterTake, Kind
<1>4. Kind \notin AutoEvents => AfterTake(t) = "idle"
  BY Zenon DEF AfterTake, Kind, AutoEvents
<1>5. /\ AfterPoll(t) \in {"lastTry", "look", "idle"}
      /\ AfterPoll(t) = "lastTry" => call[t] = "for"
      /\ AfterPoll(t) = "idle" => Kind \in ManualEvents
  <2>1. "for" # "until" /\ "lastTry" # "look" /\ "lastTry" # "idle" /\ "look" # "idle"
    OBVIOUS
  <2>2. CASE call[t] = "for" /\ setup.kind # "eventfd_semaphore"
    BY <2>1, <2>2, Zenon DEF AfterPoll, Kind
  <2>3. CASE call[t] = "until" /\ setup.kind \in ManualEvents
    BY <2>1, <2>3, Zenon DEF AfterPoll, Kind
  <2>4. CASE /\ ~(call[t] = "for" /\ setup.kind # "eventfd_semaphore")
             /\ ~(call[t] = "until" /\ setup.kind \in ManualEvents)
    BY <2>1, <2>4, Zenon DEF AfterPoll, Kind
  <2>5. QED
    BY <2>2, <2>3, <2>4
<1>6. QED
  BY <1>1, <1>2, <1>3, <1>4, <1>5

\* A step of a thread that leaves the object and the tokens alone.
LEMMA QuietMove ==
  ASSUME ObjectInv, NEW t \in Threads, NEW b \in Labels, NEW c \in Calls,
         Moves(t, b, c, left[t]), Fits(b, c),
         pc[t] \notin {"posting", "notify", "renotify", "drain", "readd"},
         b \notin {"posting", "notify", "drain", "readd"},
         UNCHANGED <<count, event, owed>>,
         \/ (Slot(pc[t], call[t]) <=> Slot(b, c)) /\ waiters' = waiters
         \/ ~Slot(pc[t], call[t]) /\ Slot(b, c) /\ waiters' = waiters + 1
         \/ Slot(pc[t], call[t]) /\ ~Slot(b, c) /\ waiters' = waiters - 1,
         Kind = "auto_kqueue" => \/ b \in WakingLabels
                                 \/ pc[t] \notin WakingLabels /\ b # "poll"
                                 \/ ~(event <= 0 /\ count > 0)
  PROVE  ObjectInv'
<1>1. TypeOK /\ LabelsFit /\ CountersFit /\ TokensFit
  BY DEF ObjectInv
<1>2. left[t] = 0 /\ left[t] \in Nat
  BY <1>1 DEF CountersFit, TypeOK
<1>3. Kind' = Kind /\ Dependable' = Dependable
  BY <1>1, LabelsMove
<1>4. Kind \in {"eventfd_semaphore", "auto_eventfd"} => CounterTokens'
  BY <1>1 DEF TokensFit, CounterTokens
<1>5. Kind \in OsSemaphores => OsTokens'
  <2>1. Posts' = Posts
    BY <1>1, <1>2, PostsMove
  <2>2. QED
    BY <1>1, <2>1 DEF TokensFit, OsTokens
<1>6. Kind = "auto_kqueue" => AutoTokens'
  <2>1. /\ Polling' => Polling \/ b = "poll"
        /\ b \in WakingLabels => Waking'
        /\ Waking /\ pc[t] \notin WakingLabels => Waking'
    BY <1>1, LabelsMove
  <2>2. QED
    BY <1>1, <2>1 DEF TokensFit, AutoTokens, TypeOK
<1>7. (Kind = "kqueue_semaphore" /\ Dependable) => ClaimTokens'
  <2>1. Sending => Sending'
    BY <1>1, LabelsMove
  <2>2. QED
    BY <1>1, <2>1 DEF TokensFit, ClaimTokens
<1>8. Kind \in ManualEvents => ManualTokens'
  <2>1. ResetRuns' <=> ResetRuns
    BY <1>1, LabelsMove
  <2>2. QED
    BY <1>1, <1>3, <2>1 DEF TokensFit, ManualTokens
<1>9. TokensFit'
  BY <1>3, <1>4, <1>5, <1>6, <1>7, <1>8 DEF TokensFit
<1>10. count' \in Int /\ event' \in Int /\ owed' \in Int
  BY <1>1 DEF TypeOK
<1>11. QED
  BY <1>2, <1>9, <1>10, MoveKeeps

\* A step of a thread that takes a token.
LEMMA TakeMove ==
  ASSUME ObjectInv, NEW t \in Threads, NEW b \in {"idle", "uncount", "chain"}, NEW c \in Calls,
         Moves(t, b, c, left[t]), Fits(b, c),
         pc[t] \in {"look", "lastTry", "poll"},
         Slot(pc[t], call[t]) <=> Slot(b, c),
         Kind = "auto_kqueue" => b = "chain",
         Available > 0, TakeOne, Took
  PROVE  ObjectInv'
<1>1. TypeOK /\ LabelsFit /\ CountersFit /\ TokensFit
  BY DEF ObjectInv
<1>2. left[t] = 0 /\ left[t] \in Nat
  BY <1>1 DEF CountersFit, TypeOK
<1>3. Kind' = Kind /\ Dependable' = Dependable
  BY <1>1, LabelsMove
<1>4. count \in Int /\ event \in Int /\ owed \in Int
  BY <1>1 DEF TypeOK
<1>5. Kind \in {"eventfd_semaphore", "auto_eventfd"} \cup OsSemaphores =>
        event' = event - 1 /\ owed' = owed - 1 /\ count' = count /\ event > 0
  BY DEF TakeOne, Took, Counted, ManualEvents, Kind, OsSemaphores, Available
<1>6. Kind \in {"auto_kqueue", "kqueue_semaphore"} =>
        event' = event /\ owed' = owed - 1 /\ count' = count - 1 /\ count > 0
  BY DEF TakeOne, Took, Counted, ManualEvents, Kind, Available
<1>7. Kind \in ManualEvents => event' = event /\ owed' = owed /\ count' = count
  BY DEF TakeOne, Took, Counted, ManualEvents, Kind
<1>8. Kind \in {"eventfd_semaphore", "auto_eventfd"} => CounterTokens'
  BY <1>1, <1>4, <1>5 DEF TokensFit, CounterTokens
<1>9. Kind \in OsSemaphores => OsTokens'
  <2>1. Posts' = Posts
    BY <1>1, <1>2, PostsMove
  <2>2. IsFiniteSet(Posts) => Cardinality(Posts) \in Nat
    BY <1>1, <1>2, PostsMove
  <2>3. Kind \in OsSemaphores => /\ event' = event - 1 /\ owed' = owed - 1 /\ event > 0
                                 /\ IsFiniteSet(Posts) /\ event + Cardinality(Posts) = owed
    BY <1>1, <1>5 DEF TokensFit, OsTokens
  <2>4. Kind \in OsSemaphores => event' + Cardinality(Posts) = owed' /\ event' >= 0
    BY <1>4, <2>2, <2>3
  <2>5. QED
    BY <2>1, <2>3, <2>4 DEF OsTokens
<1>10. Kind = "auto_kqueue" => AutoTokens'
  <2>1. b = "chain" => Waking'
    BY <1>1, LabelsMove DEF WakingLabels
  <2>2. QED
    BY <1>1, <1>4, <1>6, <2>1 DEF TokensFit, AutoTokens
<1>11. (Kind = "kqueue_semaphore" /\ Dependable) => ClaimTokens'
  <2>1. Sending => Sending'
    BY <1>1, LabelsMove
  <2>2. QED
    BY <1>1, <1>4, <1>6, <2>1 DEF TokensFit, ClaimTokens
<1>12. Kind \in ManualEvents => ManualTokens'
  <2>1. ResetRuns' <=> ResetRuns
    BY <1>1, LabelsMove
  <2>2. QED
    BY <1>1, <1>3, <1>7, <2>1 DEF TokensFit, ManualTokens
<1>13. TokensFit'
  BY <1>3, <1>8, <1>9, <1>10, <1>11, <1>12 DEF TokensFit
<1>14. count' \in Int /\ event' \in Int /\ owed' \in Int /\ waiters' = waiters
  BY <1>1, <1>4, <1>5, <1>6, <1>7, Kinds DEF TakeOne
<1>15. b \in Labels
  BY DEF Labels
<1>16. QED
  BY <1>2, <1>13, <1>14, <1>15, MoveKeeps

\* A token taken without a step of a thread: by try_wait, or an operation.
LEMMA TakeAside ==
  ASSUME ObjectInv, UNCHANGED <<threadVars, setup>>, Available > 0, TakeOne, Took
  PROVE  ObjectInv'
<1>1. TypeOK /\ LabelsFit /\ CountersFit /\ TokensFit
  BY DEF ObjectInv
<1>2. pc' = pc /\ call' = call /\ left' = left /\ Kind' = Kind /\ waiters' = waiters /\ Dependable' = Dependable
  BY DEF threadVars, Kind, TakeOne, Dependable
<1>3. count \in Int /\ event \in Int /\ owed \in Int
  BY <1>1 DEF TypeOK
<1>4. Kind \in {"eventfd_semaphore", "auto_eventfd"} \cup OsSemaphores =>
        event' = event - 1 /\ owed' = owed - 1 /\ count' = count /\ event > 0
  BY DEF TakeOne, Took, Counted, ManualEvents, Kind, OsSemaphores, Available
<1>5. Kind \in {"auto_kqueue", "kqueue_semaphore"} =>
        event' = event /\ owed' = owed - 1 /\ count' = count - 1 /\ count > 0
  BY DEF TakeOne, Took, Counted, ManualEvents, Kind, Available
<1>6. Kind \in ManualEvents => event' = event /\ owed' = owed /\ count' = count
  BY DEF TakeOne, Took, Counted, ManualEvents, Kind
<1>7. Posts' = Posts /\ InSlot' = InSlot
  BY <1>2 DEF Posts, InSlot, Slot
<1>8. Polling' = Polling /\ Waking' = Waking /\ Sending' = Sending /\ ResetRuns' = ResetRuns
  BY <1>2 DEF Polling, Waking, Sending, ResetRuns
<1>9. Kind \in {"eventfd_semaphore", "auto_eventfd"} => CounterTokens'
  BY <1>1, <1>3, <1>4 DEF TokensFit, CounterTokens
<1>10. Kind \in OsSemaphores => OsTokens'
  <2>1. IsFiniteSet(Posts) => Cardinality(Posts) \in Nat
    BY FS_CardinalityType
  <2>2. Posts' = Posts
    BY <1>7
  <2>3. Kind \in OsSemaphores => /\ event' = event - 1 /\ owed' = owed - 1 /\ event > 0
                                 /\ IsFiniteSet(Posts) /\ event + Cardinality(Posts) = owed
    BY <1>1, <1>4 DEF TokensFit, OsTokens
  <2>4. Kind \in OsSemaphores => event' + Cardinality(Posts) = owed' /\ event' >= 0
    BY <1>3, <2>1, <2>3
  <2>5. QED
    BY <2>2, <2>3, <2>4 DEF OsTokens
<1>11. Kind = "auto_kqueue" => AutoTokens'
  BY <1>1, <1>3, <1>5, <1>8 DEF TokensFit, AutoTokens
<1>12. (Kind = "kqueue_semaphore" /\ Dependable) => ClaimTokens'
  BY <1>1, <1>3, <1>5, <1>8 DEF TokensFit, ClaimTokens
<1>13. Kind \in ManualEvents => ManualTokens'
  BY <1>1, <1>2, <1>6, <1>8 DEF TokensFit, ManualTokens
<1>14. TokensFit'
  BY <1>2, <1>9, <1>10, <1>11, <1>12, <1>13 DEF TokensFit
<1>15. count' \in Int /\ event' \in Int /\ owed' \in Int
  BY <1>1, <1>3, <1>4, <1>5, <1>6, Kinds
<1>16. TypeOK' /\ LabelsFit' /\ CountersFit'
  BY <1>1, <1>2, <1>7, <1>15 DEF TypeOK, LabelsFit, Fits, CountersFit
<1>17. QED
  BY <1>14, <1>16 DEF ObjectInv

-----------------------------------------------------------------------------
(* The steps of the threads.                                               *)

\* What a thread that is in no call enters without touching the object.
LEMMA EnterQuiet ==
  ASSUME ObjectInv, NEW t \in Threads, setup' = setup, At(t, "idle"),
         NEW b \in {"look", "poll", "count", "probe", "write", "exchange", "increment"},
         NEW c \in Calls, Enter(t, c, b), UNCHANGED <<objectVars, owed, left>>,
         Fits(b, c), ~Slot(b, c), Kind = "auto_kqueue" => b # "poll"
  PROVE  ObjectInv'
<1>1. TypeOK /\ left \in [Threads -> Nat] /\ b \in Labels
  BY DEF ObjectInv, TypeOK, Labels
<1>2. Moves(t, b, c, left[t])
  BY <1>1 DEF Moves, Enter
<1>3. ~Slot(pc[t], call[t]) /\ waiters' = waiters /\ UNCHANGED <<count, event, owed>>
  BY DEF At, Slot, objectVars
<1>4. pc[t] \notin {"posting", "notify", "renotify", "drain", "readd"} /\ pc[t] \notin WakingLabels
  BY DEF At, WakingLabels
<1>5. QED
  BY <1>1, <1>2, <1>3, <1>4, QuietMove

\* The calls that begin so.
LEMMA Entries ==
  ASSUME ObjectInv, NEW t \in Threads, setup' = setup,
         \/ eventfd_acquire(t) \/ eventfd_try_acquire_for(t) \/ eventfd_try_acquire_until(t)
         \/ kqueue_try_acquire_until(t)
         \/ posix_acquire(t) \/ posix_try_acquire_until_system(t) \/ mach_acquire(t)
         \/ mach_timed_wait(t) \/ dispatch_acquire(t) \/ dispatch_try_acquire_for(t)
         \/ win32_acquire(t) \/ win32_try_acquire_until(t)
         \/ auto_try_wait_for_linux(t) \/ auto_wait_apple(t) \/ auto_try_wait_for_apple(t)
         \/ manual_wait(t) \/ manual_try_wait_for(t) \/ manual_try_wait_until(t)
         \/ auto_signal_linux(t) \/ auto_signal_apple(t)
  PROVE  ObjectInv'
<1> USE DEF Calls
<1>1. ASSUME NEW c \in Calls, Use(t, c, {"eventfd_semaphore"}), Enter(t, c, "look"),
             UNCHANGED <<objectVars, owed, left>>
      PROVE  ObjectInv'
  <2>1. Fits("look", c) /\ ~Slot("look", c)
    BY <1>1 DEF Use, Fits, Slot, Kind, OsSemaphores
  <2>2. QED
    BY <1>1, <2>1, EnterQuiet DEF Use
<1>2. ASSUME kqueue_try_acquire_until(t) PROVE ObjectInv'
  <2>1. Fits("look", "until") /\ ~Slot("look", "until")
    BY <1>2 DEF kqueue_try_acquire_until, Use, Fits, Slot, Kind, OsSemaphores, Dependable
  <2>2. At(t, "idle") /\ Enter(t, "until", "look") /\ UNCHANGED <<objectVars, owed, left>>
    BY <1>2 DEF kqueue_try_acquire_until, Use
  <2>3. QED
    BY <2>1, <2>2, EnterQuiet
<1>3. ASSUME NEW c \in Calls, NEW k \in OsSemaphores, Block(t, c, k) PROVE ObjectInv'
  <2>1. Fits("poll", c) /\ ~Slot("poll", c) /\ Kind # "auto_kqueue"
    BY <1>3 DEF Block, Use, Fits, Slot, Kind, OsSemaphores
  <2>2. At(t, "idle") /\ Enter(t, c, "poll") /\ UNCHANGED <<objectVars, owed, left>>
    BY <1>3 DEF Block, Use
  <2>3. QED
    BY <2>1, <2>2, EnterQuiet
<1>4. ASSUME NEW c \in Calls, NEW b \in {"look", "poll"}, Use(t, c, ManualEvents), Enter(t, c, b),
             UNCHANGED <<objectVars, owed, left>>
      PROVE  ObjectInv'
  <2>1. Fits(b, c) /\ ~Slot(b, c) /\ Kind # "auto_kqueue"
    BY <1>4 DEF Use, Fits, Slot, Kind, OsSemaphores, ManualEvents
  <2>2. QED
    BY <1>4, <2>1, EnterQuiet DEF Use
<1>5. ASSUME auto_try_wait_for_linux(t) PROVE ObjectInv'
  <2>1. Fits("poll", "for") /\ ~Slot("poll", "for") /\ Kind # "auto_kqueue"
    BY <1>5 DEF auto_try_wait_for_linux, Use, Fits, Slot, Kind
  <2>2. At(t, "idle") /\ Enter(t, "for", "poll") /\ UNCHANGED <<objectVars, owed, left>>
    BY <1>5 DEF auto_try_wait_for_linux, Use
  <2>3. QED
    BY <2>1, <2>2, EnterQuiet
<1>6. ASSUME NEW c \in Calls, Use(t, c, {"auto_kqueue"}), Enter(t, c, "count"),
             UNCHANGED <<objectVars, owed, left>>
      PROVE  ObjectInv'
  <2>1. Fits("count", c) /\ ~Slot("count", c)
    BY <1>6 DEF Use, Fits, Slot, Kind, AutoEvents
  <2>2. QED
    BY <1>6, <2>1, EnterQuiet DEF Use
<1>7. ASSUME auto_signal_linux(t) PROVE ObjectInv'
  <2>1. PICK b \in {"probe", "write"} : Enter(t, "wait", b)
    BY <1>7 DEF auto_signal_linux
  <2>2. Fits(b, "wait") /\ ~Slot(b, "wait") /\ Kind # "auto_kqueue"
    BY <1>7 DEF auto_signal_linux, Fits, Slot, Kind
  <2>3. At(t, "idle") /\ UNCHANGED <<objectVars, owed, left>>
    BY <1>7 DEF auto_signal_linux
  <2>4. QED
    BY <2>1, <2>2, <2>3, EnterQuiet
<1>8. ASSUME auto_signal_apple(t) PROVE ObjectInv'
  <2>1. PICK b \in {"exchange", "increment"} : Enter(t, "wait", b)
    BY <1>8 DEF auto_signal_apple
  <2>2. Fits(b, "wait") /\ ~Slot(b, "wait")
    BY <1>8 DEF auto_signal_apple, Fits, Slot, Kind
  <2>3. At(t, "idle") /\ UNCHANGED <<objectVars, owed, left>>
    BY <1>8 DEF auto_signal_apple
  <2>4. QED
    BY <2>1, <2>2, <2>3, EnterQuiet
<1>9. ASSUME eventfd_acquire(t) \/ eventfd_try_acquire_for(t) \/ eventfd_try_acquire_until(t)
      PROVE  ObjectInv'
  BY <1>1, <1>9 DEF eventfd_acquire, eventfd_try_acquire_for, eventfd_try_acquire_until
<1>10. ASSUME \/ posix_acquire(t) \/ posix_try_acquire_until_system(t) \/ mach_acquire(t)
              \/ mach_timed_wait(t) \/ dispatch_acquire(t) \/ dispatch_try_acquire_for(t)
              \/ win32_acquire(t) \/ win32_try_acquire_until(t)
       PROVE  ObjectInv'
  BY <1>3, <1>10 DEF posix_acquire, posix_try_acquire_until_system, mach_acquire, mach_timed_wait,
                     dispatch_acquire, dispatch_try_acquire_for, win32_acquire,
                     win32_try_acquire_until, OsSemaphores
<1>11. ASSUME manual_wait(t) \/ manual_try_wait_for(t) \/ manual_try_wait_until(t)
       PROVE  ObjectInv'
  BY <1>4, <1>11 DEF manual_wait, manual_try_wait_for, manual_try_wait_until
<1>12. ASSUME auto_wait_apple(t) \/ auto_try_wait_for_apple(t) PROVE ObjectInv'
  BY <1>6, <1>12 DEF auto_wait_apple, auto_try_wait_for_apple
<1>13. QED
  BY <1>2, <1>5, <1>7, <1>8, <1>9, <1>10, <1>11, <1>12

\* From label to label, the object as it was.
LEMMA QuietSteps ==
  ASSUME ObjectInv, NEW t \in Threads, setup' = setup,
         \/ auto_wait_linux(t) \/ raise_wait_count(t) \/ lower_wait_count(t) \/ auto_probe(t)
         \/ claim_expires(t) \/ deadline_passes(t) \/ kevent_interrupted(t) \/ chain_wakeup(t)
  PROVE  ObjectInv'
<1>1. TypeOK /\ left \in [Threads -> Nat] /\ call[t] \in Calls /\ Fits(pc[t], call[t])
  BY DEF ObjectInv, TypeOK, LabelsFit
<1>2. /\ "wait" \in Calls
      /\ {"idle", "look", "write", "unclaim", "lastTry", "chainCount", "uncount", "uncountFailed"} \subseteq Labels
  BY DEF Calls, Labels
<1>3. ASSUME auto_wait_linux(t) PROVE ObjectInv'
  <2>1. Moves(t, "look", "wait", left[t])
    BY <1>1, <1>3 DEF Moves, auto_wait_linux, Enter
  <2>2. pc[t] = "idle" /\ Kind = "auto_eventfd"
    BY <1>3 DEF auto_wait_linux, Use, At, Kind
  <2>3. Fits("look", "wait") /\ ~Slot(pc[t], call[t]) /\ Slot("look", "wait")
    BY <2>2 DEF Fits, Slot, OsSemaphores
  <2>4. waiters' = waiters + 1 /\ UNCHANGED <<count, event, owed>>
    BY <1>3 DEF auto_wait_linux
  <2>5. QED
    BY <1>2, <2>1, <2>2, <2>3, <2>4, QuietMove
<1>4. ASSUME raise_wait_count(t) PROVE ObjectInv'
  <2>1. Moves(t, "look", call[t], left[t])
    BY <1>1, <1>4 DEF Moves, raise_wait_count, Goto, Enter
  <2>2. pc[t] = "count" /\ Kind = "auto_kqueue"
    BY <1>1, <1>4 DEF raise_wait_count, At, Fits
  <2>3. Fits("look", call[t]) /\ ~Slot(pc[t], call[t]) /\ Slot("look", call[t])
    BY <2>2 DEF Fits, Slot, OsSemaphores
  <2>4. waiters' = waiters + 1 /\ UNCHANGED <<count, event, owed>> /\ "look" \in WakingLabels
    BY <1>4 DEF raise_wait_count, WakingLabels
  <2>5. QED
    BY <1>1, <1>2, <2>1, <2>2, <2>3, <2>4, QuietMove
<1>5. ASSUME lower_wait_count(t) PROVE ObjectInv'
  <2>1. Moves(t, "idle", "wait", left[t])
    BY <1>1, <1>5 DEF Moves, lower_wait_count, Goto, Enter
  <2>2. pc[t] \in {"uncount", "uncountFailed"} /\ Kind \in AutoEvents
    BY <1>1, <1>5 DEF lower_wait_count, Fits, AutoEvents
  <2>3. Fits("idle", "wait") /\ Slot(pc[t], call[t]) /\ ~Slot("idle", "wait")
    BY <1>1, <2>2 DEF Fits, Slot, AutoEvents
  <2>4. waiters' = waiters - 1 /\ UNCHANGED <<count, event, owed>> /\ pc[t] \notin WakingLabels
    BY <1>5, <2>2 DEF lower_wait_count, WakingLabels
  <2>5. QED
    BY <1>2, <2>1, <2>2, <2>3, <2>4, QuietMove
<1>6. ASSUME auto_probe(t) PROVE ObjectInv'
  <2>1. PICK b \in {"idle", "write"}, c \in {"wait", call[t]} : Moves(t, b, c, left[t])
    BY <1>1, <1>6 DEF Moves, auto_probe, Goto, Enter
  <2>2. pc[t] = "probe" /\ Kind = "auto_eventfd" /\ c \in Calls /\ b \in Labels
    BY <1>1, <1>2, <1>6 DEF auto_probe, At, Kind
  <2>3. Fits(b, c) /\ ~Slot(pc[t], call[t]) /\ ~Slot(b, c)
    BY <2>2 DEF Fits, Slot
  <2>4. waiters' = waiters /\ UNCHANGED <<count, event, owed>>
    BY <1>6 DEF auto_probe, objectVars
  <2>5. QED
    BY <2>1, <2>2, <2>3, <2>4, QuietMove
<1>7. ASSUME claim_expires(t) PROVE ObjectInv'
  <2>1. Moves(t, "unclaim", call[t], left[t])
    BY <1>1, <1>7 DEF Moves, claim_expires, Goto, Enter
  <2>2. pc[t] = "claimed" /\ call[t] = "for" /\ Kind = "kqueue_semaphore" /\ ~Dependable
    BY <1>1, <1>7 DEF claim_expires, At, Fits
  <2>3. Fits("unclaim", call[t]) /\ ~Slot(pc[t], call[t]) /\ ~Slot("unclaim", call[t])
    BY <2>2 DEF Fits, Slot
  <2>4. waiters' = waiters /\ UNCHANGED <<count, event, owed>>
    BY <1>7 DEF claim_expires, objectVars
  <2>5. QED
    BY <1>1, <1>2, <2>1, <2>2, <2>3, <2>4, QuietMove
<1>8. ASSUME deadline_passes(t) PROVE ObjectInv'
  <2>1. pc[t] = "poll" /\ call[t] \in {"for", "until"}
    BY <1>8 DEF deadline_passes, At
  <2>2. waiters' = waiters /\ UNCHANGED <<count, event, owed>> /\ pc[t] \notin WakingLabels
    BY <1>8, <2>1 DEF deadline_passes, objectVars, WakingLabels
  <2>3. PICK b \in {"lastTry", "uncountFailed", "idle"} :
          /\ Goto(t, b) /\ left' = left
          /\ b = "lastTry" => Kind \in {"eventfd_semaphore", "kqueue_semaphore"}
          /\ b = "uncountFailed" <=> Kind = "auto_kqueue"
    BY <1>8 DEF deadline_passes, AfterFailure, Kind
  <2>4. PICK c \in {"wait", call[t]} : Moves(t, b, c, left[t]) /\ (b # "idle" => c = call[t])
    BY <1>1, <2>3 DEF Moves, Goto, Enter
  <2>5. Fits(b, c)
    <3>1. ~(Kind = "kqueue_semaphore" /\ Dependable)
      BY <1>1, <2>1 DEF Fits
    <3>2. QED
      BY <2>3, <3>1 DEF Fits, OsSemaphores
  <2>6. Slot(pc[t], call[t]) <=> Slot(b, c)
    BY <2>1, <2>3 DEF Slot
  <2>7. c \in Calls /\ b \in Labels
    BY <1>1, <1>2
  <2>8. b # "poll" /\ b \notin {"posting", "notify", "drain", "readd"}
    OBVIOUS
  <2>9. QED
    BY <2>1, <2>2, <2>4, <2>5, <2>6, <2>7, <2>8, QuietMove
<1>9. ASSUME kevent_interrupted(t) PROVE ObjectInv'
  <2>1. Moves(t, "look", call[t], left[t])
    BY <1>1, <1>9 DEF Moves, kevent_interrupted, Goto, Enter
  <2>2. pc[t] = "poll" /\ Kind = "auto_kqueue"
    BY <1>9 DEF kevent_interrupted, At, Kind
  <2>3. Fits("look", call[t]) /\ Slot(pc[t], call[t]) /\ Slot("look", call[t])
    BY <2>2 DEF Fits, Slot, OsSemaphores
  <2>4. waiters' = waiters /\ UNCHANGED <<count, event, owed>> /\ "look" \in WakingLabels
    BY <1>9 DEF kevent_interrupted, objectVars, WakingLabels
  <2>5. QED
    BY <1>1, <1>2, <2>1, <2>2, <2>3, <2>4, QuietMove
<1>10. ASSUME chain_wakeup(t) PROVE ObjectInv'
  <2>1. PICK b \in {"chainCount", "uncount"} : Goto(t, b) /\ (b = "uncount" => ~(count > 0))
    BY <1>10 DEF chain_wakeup
  <2>2. Moves(t, b, call[t], left[t])
    BY <1>1, <1>10, <2>1 DEF Moves, chain_wakeup, Goto, Enter
  <2>3. pc[t] = "chain" /\ Kind = "auto_kqueue"
    BY <1>1, <1>10 DEF chain_wakeup, At, Fits
  <2>4. Fits(b, call[t]) /\ Slot(pc[t], call[t]) /\ Slot(b, call[t])
    BY <2>1, <2>3 DEF Fits, Slot, AutoEvents
  <2>5. waiters' = waiters /\ UNCHANGED <<count, event, owed>> /\ "chainCount" \in WakingLabels
    BY <1>10 DEF chain_wakeup, objectVars, WakingLabels
  <2>6. b \in Labels /\ b \notin {"posting", "notify", "drain", "readd"} /\ (b \in WakingLabels \/ ~(count > 0))
    BY <1>2, <2>1, <2>5
  <2>7. QED
    BY <1>1, <2>2, <2>3, <2>4, <2>5, <2>6, QuietMove
<1>11. QED
  BY <1>3, <1>4, <1>5, <1>6, <1>7, <1>8, <1>9, <1>10

\* The tries of a thread, and the polls between them.
LEMMA TrySteps ==
  ASSUME ObjectInv, NEW t \in Threads, setup' = setup,
         \/ look(t) \/ last_try(t) \/ os_acquires(t) \/ poll_returns(t) \/ try_wait(t)
  PROVE  ObjectInv'
<1>1. TypeOK /\ left \in [Threads -> Nat] /\ call[t] \in Calls /\ Fits(pc[t], call[t])
  BY DEF ObjectInv, TypeOK, LabelsFit
<1>2. "wait" \in Calls /\ {"idle", "look", "lastTry", "uncountFailed", "poll"} \subseteq Labels
  BY DEF Calls, Labels
<1>3. count \in Int /\ event \in Int /\ owed \in Int
  BY <1>1 DEF TypeOK
<1>4. ASSUME pc[t] \in {"look", "lastTry"}, Available > 0, TakeOne, Took, Goto(t, AfterTake(t)), left' = left
      PROVE  ObjectInv'
  <2>1. PICK b : b = AfterTake(t)
    OBVIOUS
  <2>2. /\ Kind = "auto_kqueue" => b = "chain"
        /\ Kind = "auto_eventfd" /\ call[t] = "wait" => b = "uncount"
        /\ Kind = "auto_eventfd" /\ call[t] # "wait" => b = "idle"
        /\ Kind \notin AutoEvents => b = "idle"
    BY <2>1, AfterLabels
  <2>3. b \in {"idle", "uncount", "chain"}
    BY <2>2 DEF AutoEvents
  <2>4. PICK c \in {"wait", call[t]} : Moves(t, b, c, left[t]) /\ (b # "idle" => c = call[t])
    BY <1>1, <1>4, <2>1 DEF Moves, Goto, Enter
  <2>5. ~(Kind = "kqueue_semaphore" /\ Dependable)
    BY <1>1, <1>4 DEF Fits
  <2>6. Fits(b, c)
    BY <2>2, <2>3, <2>4, <2>5 DEF Fits, AutoEvents
  <2>7. Slot(pc[t], call[t]) <=> Slot(b, c)
    BY <1>1, <1>4, <2>2, <2>3, <2>4 DEF Slot, AutoEvents, Fits
  <2>8. c \in Calls
    BY <1>1, <1>2
  <2>9. QED
    BY <1>4, <2>2, <2>3, <2>4, <2>6, <2>7, <2>8, TakeMove
<1>5. ASSUME pc[t] \in {"look", "lastTry"}, ~(Available > 0), UNCHANGED <<objectVars, owed>>, left' = left,
             NEW b \in {"poll", "idle", "uncountFailed"}, Goto(t, b),
             Kind = "auto_kqueue" => b \in {"poll", "uncountFailed"},
             b = "uncountFailed" => Kind = "auto_kqueue",
             pc[t] = "look" <=> b = "poll"
      PROVE  ObjectInv'
  <2>1. PICK c \in {"wait", call[t]} : Moves(t, b, c, left[t]) /\ (b # "idle" => c = call[t])
    BY <1>1, <1>5 DEF Moves, Goto, Enter
  <2>2. ~(Kind = "kqueue_semaphore" /\ Dependable)
    BY <1>1, <1>5 DEF Fits
  <2>3. Fits(b, c)
    BY <1>5, <2>2 DEF Fits
  <2>4. Slot(pc[t], call[t]) <=> Slot(b, c)
    BY <1>1, <1>5, <2>1 DEF Slot, Fits
  <2>5. Kind = "auto_kqueue" => ~(count > 0)
    BY <1>5 DEF Kind, Available, Counted
  <2>6. c \in Calls /\ b \in Labels /\ UNCHANGED <<count, event, owed>> /\ waiters' = waiters
    BY <1>1, <1>2, <1>5 DEF objectVars
  <2>7. /\ pc[t] \notin {"posting", "notify", "renotify", "drain", "readd"}
        /\ b \notin {"posting", "notify", "drain", "readd"}
    BY <1>5
  <2>8. QED
    BY <2>1, <2>3, <2>4, <2>5, <2>6, <2>7, QuietMove
<1>6. ASSUME look(t) PROVE ObjectInv'
  <2>1. pc[t] = "look" /\ left' = left
    BY <1>6 DEF look, At
  <2>2. CASE Available > 0
    BY <1>4, <1>6, <2>1, <2>2 DEF look
  <2>3. CASE ~(Available > 0)
    <3>1. Goto(t, "poll") /\ UNCHANGED <<objectVars, owed>>
      BY <1>6, <2>3 DEF look
    <3>2. QED
      BY <1>5, <2>1, <2>3, <3>1
  <2>4. QED
    BY <2>2, <2>3
<1>7. ASSUME last_try(t) PROVE ObjectInv'
  <2>1. pc[t] = "lastTry" /\ left' = left
    BY <1>7 DEF last_try, At
  <2>2. CASE Available > 0
    BY <1>4, <1>7, <2>1, <2>2 DEF last_try
  <2>3. CASE ~(Available > 0)
    <3>1. Goto(t, AfterFailure) /\ UNCHANGED <<objectVars, owed>>
      BY <1>7, <2>3 DEF last_try
    <3>2. PICK b \in {"idle", "uncountFailed"} : Goto(t, b) /\ (b = "uncountFailed" <=> Kind = "auto_kqueue")
      BY <3>1 DEF AfterFailure, Kind
    <3>3. QED
      BY <1>5, <2>1, <2>3, <3>1, <3>2
  <2>4. QED
    BY <2>2, <2>3
<1>8. ASSUME os_acquires(t) PROVE ObjectInv'
  <2>1. pc[t] = "poll" /\ Kind \in OsSemaphores /\ TakeOne /\ Took
    BY <1>8 DEF os_acquires, At, Kind
  <2>2. Available > 0
    BY <1>8 DEF os_acquires, Available, Counted, OsSemaphores
  <2>3. Moves(t, "idle", "wait", left[t])
    BY <1>1, <1>8 DEF os_acquires, Moves, Goto, Enter
  <2>4. Fits("idle", "wait") /\ ~Slot(pc[t], call[t]) /\ ~Slot("idle", "wait") /\ Kind # "auto_kqueue"
    BY <2>1 DEF Fits, Slot, OsSemaphores
  <2>5. QED
    BY <1>2, <2>1, <2>2, <2>3, <2>4, TakeMove
<1>9. ASSUME poll_returns(t) PROVE ObjectInv'
  <2>1. pc[t] = "poll" /\ Kind \notin OsSemaphores /\ event > 0 /\ left' = left /\ UNCHANGED <<count, waiters, owed>>
    BY <1>9 DEF poll_returns, At, Kind
  <2>2. PICK b : b = AfterPoll(t)
    OBVIOUS
  <2>3. /\ b \in {"lastTry", "look", "idle"}
        /\ b = "lastTry" => call[t] = "for"
        /\ b = "idle" => Kind \in ManualEvents
    BY <2>2, AfterLabels
  <2>4. Goto(t, b)
    BY <1>9, <2>2 DEF poll_returns
  <2>5. PICK c \in {"wait", call[t]} : Moves(t, b, c, left[t]) /\ (b # "idle" => c = call[t])
    BY <1>1, <2>1, <2>4 DEF Moves, Goto, Enter
  <2>6. ~(Kind = "kqueue_semaphore" /\ Dependable)
    BY <1>1, <2>1 DEF Fits
  <2>7. Fits(b, c)
    BY <2>1, <2>3, <2>5, <2>6 DEF Fits
  <2>8. Slot(pc[t], call[t]) <=> Slot(b, c)
    BY <2>1, <2>3, <2>5 DEF Slot, ManualEvents
  <2>9. c \in Calls /\ b \in Labels
    BY <1>1, <1>2, <2>3
  <2>10. CASE event' = event
    <3>1. UNCHANGED <<count, event, owed>>
      BY <2>1, <2>10
    <3>2. QED
      BY <1>3, <2>1, <2>3, <2>5, <2>7, <2>8, <2>9, <3>1, QuietMove
  <2>11. CASE event' # event
    <3>1. event' = 0 /\ Kind \in {"auto_kqueue", "kqueue_semaphore"}
      BY <1>9, <2>11 DEF poll_returns, Counted, Kind
    <3>2. Kind' = Kind /\ Dependable' = Dependable /\ (b \in WakingLabels => Waking')
      BY <1>1, <2>5, LabelsMove
    <3>3. b \in WakingLabels
      BY <2>3, <3>1 DEF WakingLabels, ManualEvents
    <3>4. Kind = "auto_kqueue" => AutoTokens'
      <4>1. Kind = "auto_kqueue" => count = owed /\ count >= 0
        BY DEF ObjectInv, TokensFit, AutoTokens
      <4>2. QED
        BY <2>1, <3>2, <3>3, <4>1 DEF AutoTokens
    <3>5. TokensFit'
      BY <2>6, <3>1, <3>2, <3>4 DEF TokensFit, OsSemaphores, ManualEvents
    <3>6. left[t] = 0 /\ left[t] \in Nat
      BY <1>1, <2>1 DEF ObjectInv, CountersFit
    <3>7. b \notin {"posting", "notify"} /\ count' \in Int /\ event' \in Int /\ owed' \in Int
      BY <1>3, <2>1, <2>3, <3>1
    <3>8. QED
      BY <2>1, <2>5, <2>7, <2>8, <2>9, <3>5, <3>6, <3>7, MoveKeeps
  <2>12. QED
    BY <2>10, <2>11
<1>10. ASSUME try_wait(t) PROVE ObjectInv'
  BY <1>10, TakeAside DEF try_wait
<1>11. QED
  BY <1>6, <1>7, <1>8, <1>9, <1>10

\* release of the semaphores that have a counter of the system.
LEMMA ReleaseSteps ==
  ASSUME ObjectInv, NEW t \in Threads, setup' = setup, NEW n \in ReleaseSizes,
         \/ eventfd_release(t, n) \/ win32_release(t, n) \/ posix_release(t, n)
         \/ mach_release(t, n) \/ dispatch_release(t, n)
  PROVE  ObjectInv'
<1>1. TypeOK /\ TokensFit /\ left \in [Threads -> Nat] /\ pc \in [Threads -> Labels] /\ call \in [Threads -> Calls]
  BY DEF ObjectInv, TypeOK
<1>2. pc[t] = "idle" /\ left[t] = 0 /\ ~Slot(pc[t], call[t]) /\ n \in Nat /\ owed' = owed + n
  <2>1. pc[t] = "idle" /\ owed' = owed + n
    BY DEF eventfd_release, win32_release, posix_release, mach_release, dispatch_release, Posting, At, Give
  <2>2. QED
    BY <1>1, <2>1, NativeTokensParameters DEF ObjectInv, CountersFit, Slot
<1>3. count \in Int /\ event \in Int /\ owed \in Int
  BY <1>1 DEF TypeOK
<1>4. ASSUME eventfd_release(t, n) \/ win32_release(t, n) PROVE ObjectInv'
  <2>1. Moves(t, pc[t], call[t], left[t])
    BY <1>1, <1>4 DEF Moves, eventfd_release, win32_release, threadVars
  <2>2. Kind \in {"eventfd_semaphore", "win32_semaphore"} /\ event' = event + n /\ UNCHANGED <<count, waiters>>
    BY <1>4 DEF eventfd_release, win32_release, Kind
  <2>3. Kind' = Kind /\ Fits(pc[t], call[t])
    BY <1>1, <2>1, LabelsMove DEF ObjectInv, LabelsFit
  <2>4. Posts' = Posts
    BY <1>1, <2>1, PostsMove
  <2>5. ASSUME Kind = "eventfd_semaphore" PROVE TokensFit'
    <3>1. CounterTokens'
      BY <1>1, <1>2, <1>3, <2>2, <2>5 DEF TokensFit, CounterTokens
    <3>2. QED
      BY <2>3, <2>5, <3>1 DEF TokensFit, OsSemaphores, ManualEvents
  <2>6. ASSUME Kind = "win32_semaphore" PROVE TokensFit'
    <3>1. /\ IsFiniteSet(Posts) /\ event + Cardinality(Posts) = owed /\ Cardinality(Posts) \in Nat
          /\ event >= 0
      BY <1>1, <2>6, FS_CardinalityType DEF TokensFit, OsTokens, OsSemaphores
    <3>2. event' + Cardinality(Posts) = owed' /\ event' >= 0
      BY <1>2, <1>3, <2>2, <3>1
    <3>3. OsTokens'
      BY <2>4, <3>1, <3>2 DEF OsTokens
    <3>4. QED
      BY <2>3, <2>6, <3>3 DEF TokensFit, OsSemaphores, ManualEvents
  <2>7. TokensFit'
    BY <2>2, <2>5, <2>6
  <2>8. event' \in Int /\ owed' \in Int /\ count' \in Int
    BY <1>2, <1>3, <2>2
  <2>9. QED
    BY <1>1, <1>2, <2>1, <2>2, <2>3, <2>7, <2>8, MoveKeeps
<1>5. ASSUME NEW k \in OsSemaphores, Posting(t, n, k) PROVE ObjectInv'
  <2>0. PICK b \in {"idle", "posting"} : Enter(t, "wait", b) /\ (b = "idle" <=> n = 0)
    BY <1>5 DEF Posting, Loop
  <2>1. Moves(t, b, "wait", n) /\ Kind = k /\ UNCHANGED <<count, event, waiters>>
    BY <1>5, <2>0 DEF Moves, Posting, Loop, Enter, Kind, objectVars
  <2>2. Kind' = Kind
    BY <1>1, <2>1, LabelsMove
  <2>3. Fits(b, "wait") /\ ~Slot(b, "wait")
    BY <2>1 DEF Fits, Slot, OsSemaphores
  <2>4. /\ IsFiniteSet(Posts) /\ event + Cardinality(Posts) = owed /\ Cardinality(Posts) \in Nat
        /\ event >= 0
    BY <1>1, <2>1, FS_CardinalityType DEF TokensFit, OsTokens
  <2>5. IsFiniteSet(Posts') /\ Cardinality(Posts') = Cardinality(Posts) + n
    BY <1>1, <1>2, <2>1, <2>4, PostsMove
  <2>6. event' + Cardinality(Posts') = owed' /\ event' >= 0
    BY <1>2, <1>3, <2>1, <2>4, <2>5
  <2>7. OsTokens'
    BY <2>5, <2>6 DEF OsTokens
  <2>8. TokensFit'
    BY <2>1, <2>2, <2>7 DEF TokensFit, OsSemaphores, ManualEvents
  <2>9. event' \in Int /\ owed' \in Int /\ count' \in Int /\ b \in Labels /\ "wait" \in Calls
    BY <1>2, <1>3, <2>1 DEF Labels, Calls
  <2>10. QED
    BY <1>2, <2>0, <2>1, <2>3, <2>8, <2>9, MoveKeeps
<1>6. QED
  BY <1>4, <1>5 DEF posix_release, mach_release, dispatch_release, OsSemaphores

\* The loops in release.
LEMMA LoopSteps ==
  ASSUME ObjectInv, NEW t \in Threads, setup' = setup, semaphore_post(t) \/ notify(t)
  PROVE  ObjectInv'
<1>1. TypeOK /\ TokensFit /\ left \in [Threads -> Nat] /\ pc \in [Threads -> Labels] /\ call \in [Threads -> Calls]
  BY DEF ObjectInv, TypeOK
<1>2. pc[t] \in {"posting", "notify"} /\ left[t] # 0 /\ ~Slot(pc[t], call[t]) /\ left[t] - 1 \in Nat
  <2>1. pc[t] \in {"posting", "notify"}
    BY DEF semaphore_post, notify, At
  <2>2. left[t] # 0
    BY <2>1 DEF ObjectInv, CountersFit
  <2>3. QED
    BY <1>1, <2>1, <2>2 DEF Slot
<1>3. count \in Int /\ event \in Int /\ owed \in Int /\ call[t] \in Calls /\ pc[t] \in Labels
  BY <1>1 DEF TypeOK
<1>4. PICK b \in {"idle", pc[t]} : Goto(t, b) /\ (b = "idle" <=> left[t] = 1)
  BY <1>2 DEF semaphore_post, notify, Iterate
<1>5. PICK c \in {"wait", call[t]} : /\ Moves(t, b, c, left[t] - 1)
                                     /\ b = "idle" => c = "wait"
                                     /\ b # "idle" => c = call[t]
  BY <1>1, <1>4 DEF Moves, Goto, Enter, semaphore_post, notify, Iterate
<1>6. Kind' = Kind /\ Dependable' = Dependable /\ Fits(pc[t], call[t])
  BY <1>1, <1>5, LabelsMove DEF ObjectInv, LabelsFit
<1>7. Fits(b, c) /\ ~Slot(b, c)
  <2>1. CASE b = "idle"
    BY <1>5, <2>1 DEF Fits, Slot
  <2>2. CASE b # "idle"
    BY <1>2, <1>4, <1>5, <1>6, <2>2
  <2>3. QED
    BY <2>1, <2>2
<1>8. left[t] - 1 = 0 <=> b \notin {"posting", "notify"}
  BY <1>1, <1>2, <1>4
<1>9. b \in Labels /\ c \in Calls /\ count' = count /\ waiters' = waiters /\ owed' = owed
  BY <1>3 DEF Labels, Calls, semaphore_post, notify
<1>10. CASE semaphore_post(t)
  <2>1. pc[t] = "posting" /\ event' = event + 1 /\ Kind \in OsSemaphores
    BY <1>6, <1>10 DEF semaphore_post, At, Fits
  <2>2. /\ IsFiniteSet(Posts) /\ event + Cardinality(Posts) = owed /\ Cardinality(Posts) \in Nat
        /\ event >= 0
    BY <1>1, <2>1, FS_CardinalityType DEF TokensFit, OsTokens
  <2>3. left[t] = (left[t] - 1) + 1
    BY <1>1
  <2>4. IsFiniteSet(Posts') /\ Cardinality(Posts') = Cardinality(Posts) - 1
    BY <1>1, <1>2, <1>5, <2>2, <2>3, PostsMove
  <2>5. event' + Cardinality(Posts') = owed' /\ event' >= 0
    BY <1>3, <1>9, <2>1, <2>2, <2>4
  <2>6. OsTokens'
    BY <2>4, <2>5 DEF OsTokens
  <2>7. TokensFit'
    BY <1>6, <2>1, <2>6 DEF TokensFit, OsSemaphores, ManualEvents
  <2>8. event' \in Int /\ owed' \in Int /\ count' \in Int
    BY <1>3, <1>9, <2>1
  <2>9. QED
    BY <1>2, <1>5, <1>7, <1>8, <1>9, <2>7, <2>8, MoveKeeps
<1>11. CASE notify(t)
  <2>1. event' = 1 /\ Kind = "kqueue_semaphore"
    BY <1>6, <1>11 DEF notify, At, Fits
  <2>2. ClaimTokens'
    BY <2>1 DEF ClaimTokens
  <2>3. TokensFit'
    BY <1>6, <2>1, <2>2 DEF TokensFit, OsSemaphores, ManualEvents
  <2>4. event' \in Int /\ owed' \in Int /\ count' \in Int
    BY <1>3, <1>9, <2>1
  <2>5. QED
    BY <1>2, <1>5, <1>7, <1>8, <1>9, <2>3, <2>4, MoveKeeps
<1>12. QED
  BY <1>10, <1>11

\* kqueue_semaphore: release, and the claims on its tokens.
LEMMA ClaimSteps ==
  ASSUME ObjectInv, NEW t \in Threads, setup' = setup,
         \/ \E n \in ReleaseSizes : kqueue_release(t, n)
         \/ \E c \in {"wait", "for"} : Claim(t, c)
         \/ claim_granted(t) \/ renotify(t) \/ unclaim(t) \/ take_late(t)
  PROVE  ObjectInv'
<1>1. TypeOK /\ TokensFit /\ left \in [Threads -> Nat] /\ pc \in [Threads -> Labels] /\ call \in [Threads -> Calls]
  BY DEF ObjectInv, TypeOK
<1>2. count \in Int /\ event \in Int /\ owed \in Int /\ call[t] \in Calls /\ pc[t] \in Labels
  BY <1>1 DEF TypeOK
<1>3. Fits(pc[t], call[t])
  BY DEF ObjectInv, LabelsFit
<1>4. Kind = "kqueue_semaphore"
  BY <1>3 DEF kqueue_release, Claim, Use, claim_granted, renotify, unclaim, take_late, Fits, At, Kind
<1>5. waiters' = waiters
  BY DEF kqueue_release, Claim, claim_granted, renotify, unclaim, take_late
<1>6. Dependable => ClaimTokens
  BY <1>1, <1>4 DEF TokensFit
<1>7. Took => owed' = owed - 1
  BY <1>4 DEF Took, Kind, ManualEvents
<1>8. ASSUME NEW b \in Labels, NEW c \in Calls, NEW k \in Nat, Moves(t, b, c, k), Fits(b, c),
             k = 0 <=> b \notin {"posting", "notify"},
             count' \in Int, event' \in Int, owed' \in Int, Dependable => ClaimTokens'
      PROVE  ObjectInv'
  <2>1. Kind' = Kind /\ Dependable' = Dependable
    BY <1>1, <1>8, LabelsMove
  <2>2. TokensFit'
    BY <1>4, <1>8, <2>1 DEF TokensFit, OsSemaphores, ManualEvents
  <2>3. ~Slot(pc[t], call[t]) /\ ~Slot(b, c)
    BY <1>4 DEF Slot
  <2>4. QED
    BY <1>5, <1>8, <2>2, <2>3, MoveKeeps
<1>9. pc[t] \notin {"posting", "notify"} => left[t] = 0
  BY DEF ObjectInv, CountersFit
<1>10. ASSUME NEW n \in ReleaseSizes, kqueue_release(t, n) PROVE ObjectInv'
  <2>1. n \in Nat /\ count' = count + n /\ event' = event /\ owed' = owed + n
    BY <1>10, NativeTokensParameters DEF kqueue_release, Give
  <2>2. PICK k : k = IF count >= 0 THEN 1 ELSE IF n < -count THEN n ELSE -count
    OBVIOUS
  <2>3. k \in Nat /\ (k = 0 => n = 0)
    BY <1>2, <2>1, <2>2
  <2>4. PICK b \in {"idle", "notify"} : Enter(t, "wait", b) /\ (b = "idle" <=> k = 0)
    BY <1>10, <2>2 DEF kqueue_release, Loop
  <2>5. Moves(t, b, "wait", k) /\ pc[t] = "idle"
    BY <1>10, <2>2, <2>4 DEF kqueue_release, Loop, Moves, Enter, At
  <2>6. (b = "notify" => Sending') /\ (Sending => Sending')
    BY <1>1, <2>5, LabelsMove
  <2>7. Fits(b, "wait") /\ b \in Labels /\ "wait" \in Calls
    BY <1>4 DEF Fits, Labels, Calls, OsSemaphores
  <2>8. count' \in Int /\ event' \in Int /\ owed' \in Int
    BY <1>2, <2>1
  <2>9. Dependable => ClaimTokens'
    <3>1. CASE b = "notify"
      BY <2>6, <3>1 DEF ClaimTokens
    <3>2. CASE b = "idle"
      BY <1>2, <1>6, <2>1, <2>3, <2>4, <2>6, <3>2 DEF ClaimTokens
    <3>3. QED
      BY <3>1, <3>2
  <2>10. QED
    BY <1>8, <2>3, <2>4, <2>5, <2>7, <2>8, <2>9
<1>11. ASSUME NEW c \in {"wait", "for"}, Claim(t, c) PROVE ObjectInv'
  <2>1. pc[t] = "idle" /\ left[t] = 0 /\ event' = event /\ count' = count - 1 /\ left' = left /\ c \in setup.calls
    BY <1>9, <1>11 DEF Claim, Use, At
  <2>2. CASE count > 0
    <3>1. Took /\ Moves(t, pc[t], call[t], left[t])
      BY <1>1, <1>11, <2>1, <2>2 DEF Claim, Moves
    <3>2. owed' = owed - 1 /\ (Sending => Sending')
      BY <1>1, <1>7, <2>1, <3>1, LabelsMove
    <3>3. Dependable => ClaimTokens'
      BY <1>2, <1>6, <2>1, <3>2 DEF ClaimTokens
    <3>4. count' \in Int /\ event' \in Int /\ owed' \in Int
      BY <1>2, <2>1, <3>2
    <3>5. QED
      BY <1>1, <1>2, <1>3, <1>8, <2>1, <3>1, <3>3, <3>4
  <2>3. CASE ~(count > 0)
    <3>1. owed' = owed /\ Moves(t, "claimed", c, left[t])
      BY <1>1, <1>11, <2>1, <2>3 DEF Claim, Moves, Enter
    <3>2. Sending => Sending'
      BY <1>1, <2>1, <3>1, LabelsMove
    <3>3. Dependable => ClaimTokens'
      BY <1>2, <1>6, <2>1, <3>1, <3>2 DEF ClaimTokens
    <3>4. count' \in Int /\ event' \in Int /\ owed' \in Int /\ "claimed" \in Labels
      BY <1>2, <2>1, <3>1 DEF Labels
    <3>5. Fits("claimed", c) /\ c \in Calls
      BY <1>4, <2>1 DEF Fits, Dependable, Kind, Calls
    <3>6. QED
      BY <1>1, <1>8, <2>1, <3>1, <3>3, <3>4, <3>5
  <2>4. QED
    BY <2>2, <2>3
<1>12. ASSUME claim_granted(t) PROVE ObjectInv'
  <2>1. pc[t] = "claimed" /\ event' = 0 /\ count' = count /\ left' = left /\ owed' = owed - 1
    BY <1>7, <1>12 DEF claim_granted, At
  <2>2. PICK b \in {"renotify", "idle"} : Goto(t, b) /\ (b = "renotify" <=> call[t] = "wait")
    BY <1>12 DEF claim_granted
  <2>3. call[t] = "wait" \/ b = "idle"
    BY <2>2
  <2>4. Moves(t, b, "wait", left[t])
    BY <1>1, <2>1, <2>2, <2>3 DEF Moves, Goto, Enter
  <2>5. Fits(b, "wait") /\ b \in Labels /\ "wait" \in Calls
    BY <1>4 DEF Fits, Labels, Calls, OsSemaphores
  <2>6. Dependable => b = "renotify"
    BY <1>3, <1>4, <2>2 DEF Fits
  <2>7. Dependable => ClaimTokens'
    <3>1. b = "renotify" => Sending'
      BY <1>1, <2>4, LabelsMove
    <3>2. QED
      BY <2>6, <3>1 DEF ClaimTokens
  <2>8. count' \in Int /\ event' \in Int /\ owed' \in Int /\ left[t] = 0
    BY <1>2, <1>9, <2>1
  <2>9. QED
    BY <1>1, <1>8, <2>4, <2>5, <2>7, <2>8
<1>13. ASSUME renotify(t) PROVE ObjectInv'
  <2>1. pc[t] = "renotify" /\ event' = 1 /\ count' = count /\ owed' = owed /\ left[t] = 0
    BY <1>9, <1>13 DEF renotify, At
  <2>2. Moves(t, "idle", "wait", left[t])
    BY <1>1, <1>13 DEF renotify, Moves, Goto, Enter
  <2>3. Fits("idle", "wait") /\ "idle" \in Labels /\ "wait" \in Calls /\ ClaimTokens'
    BY <2>1 DEF Fits, Labels, Calls, ClaimTokens
  <2>4. QED
    BY <1>1, <1>2, <1>8, <2>1, <2>2, <2>3
<1>14. ASSUME unclaim(t) PROVE ObjectInv'
  <2>1. pc[t] = "unclaim" /\ event' = event /\ count' = count + 1 /\ left[t] = 0 /\ left' = left /\ ~Dependable
    BY <1>3, <1>4, <1>9, <1>14 DEF unclaim, At, Fits
  <2>2. PICK b \in {"late", "idle"} : Goto(t, b) /\ owed' \in {owed, owed - 1}
    BY <1>7, <1>14 DEF unclaim
  <2>3. PICK c \in {"wait", call[t]} : Moves(t, b, c, left[t])
    BY <1>1, <2>1, <2>2 DEF Moves, Goto, Enter
  <2>4. Fits(b, c) /\ b \in Labels /\ c \in Calls
    BY <1>2, <1>4, <2>1 DEF Fits, Labels, Calls
  <2>5. count' \in Int /\ event' \in Int /\ owed' \in Int
    BY <1>2, <2>1, <2>2
  <2>6. QED
    BY <1>1, <1>8, <2>1, <2>3, <2>4, <2>5
<1>15. ASSUME take_late(t) PROVE ObjectInv'
  <2>1. pc[t] = "late" /\ event' = 0 /\ count' = count /\ owed' = owed /\ left[t] = 0 /\ ~Dependable
    BY <1>3, <1>4, <1>9, <1>15 DEF take_late, At, Fits
  <2>2. Moves(t, "idle", "wait", left[t])
    BY <1>1, <1>15 DEF take_late, Moves, Goto, Enter
  <2>3. Fits("idle", "wait") /\ "idle" \in Labels /\ "wait" \in Calls
    BY DEF Fits, Labels, Calls
  <2>4. QED
    BY <1>1, <1>2, <1>8, <2>1, <2>2, <2>3
<1>16. QED
  BY <1>10, <1>11, <1>12, <1>13, <1>14, <1>15

\* Two threads in the wait loop of the Apple event are two that are counted.
LEMMA TwoCounted ==
  ASSUME ObjectInv, NEW t \in InSlot, NEW u \in InSlot, t # u
  PROVE  waiters >= 2
<1>1. IsFiniteSet(InSlot) /\ waiters = Cardinality(InSlot)
  BY NativeTokensParameters, FS_Subset DEF ObjectInv, CountersFit, InSlot
<1>2. IsFiniteSet({t}) /\ Cardinality({t}) = 1
  BY FS_Singleton
<1>3. Cardinality({t} \cup {u}) = 2
  BY <1>2, FS_AddElement
<1>4. {t} \cup {u} \subseteq InSlot
  OBVIOUS
<1>5. Cardinality({t} \cup {u}) <= Cardinality(InSlot) /\ Cardinality(InSlot) \in Nat
  BY <1>1, <1>4, FS_Subset, FS_CardinalityType
<1>6. QED
  BY <1>1, <1>3, <1>5

\* The auto-reset event: signal, and the trigger for the next token.
LEMMA AutoSteps ==
  ASSUME ObjectInv, NEW t \in Threads, setup' = setup,
         \/ auto_write(t) \/ auto_exchange(t) \/ auto_increment(t) \/ trigger(t)
         \/ chain_count(t) \/ chain_trigger(t)
  PROVE  ObjectInv'
<1>1. TypeOK /\ TokensFit /\ left \in [Threads -> Nat] /\ pc \in [Threads -> Labels] /\ call \in [Threads -> Calls]
  BY DEF ObjectInv, TypeOK
<1>2. /\ count \in Int /\ event \in Int /\ owed \in Int /\ waiters \in Nat
      /\ call[t] \in Calls /\ pc[t] \in Labels /\ "wait" \in Calls
      /\ {"idle", "trigger", "chainTrigger", "uncount"} \subseteq Labels
  BY <1>1 DEF TypeOK, Calls, Labels
<1>3. Fits(pc[t], call[t])
  BY DEF ObjectInv, LabelsFit
<1>4. pc[t] \in {"write", "exchange", "increment", "trigger", "chainCount", "chainTrigger"} =>
        left[t] = 0 /\ left[t] \in Nat
  BY <1>1 DEF ObjectInv, CountersFit
<1>5. ASSUME auto_write(t) PROVE ObjectInv'
  <2>1. /\ pc[t] = "write" /\ Kind = "auto_eventfd"
        /\ event' = event + 1 /\ owed' = owed + 1 /\ UNCHANGED <<count, waiters>>
    BY <1>5 DEF auto_write, At, Kind
  <2>2. Moves(t, "idle", "wait", left[t])
    BY <1>1, <1>5 DEF auto_write, Moves, Goto, Enter
  <2>3. Kind' = Kind
    BY <1>1, <2>2, LabelsMove
  <2>4. CounterTokens'
    BY <1>1, <1>2, <2>1 DEF TokensFit, CounterTokens
  <2>5. TokensFit'
    BY <2>1, <2>3, <2>4 DEF TokensFit, OsSemaphores, ManualEvents
  <2>6. Fits("idle", "wait") /\ ~Slot("idle", "wait") /\ ~Slot(pc[t], call[t])
    BY <2>1 DEF Fits, Slot
  <2>7. count' \in Int /\ event' \in Int /\ owed' \in Int
    BY <1>2, <2>1
  <2>8. QED
    BY <1>2, <1>4, <2>1, <2>2, <2>5, <2>6, <2>7, MoveKeeps
<1>6. ASSUME NEW b \in {"idle", "trigger", "chainTrigger", "uncount"}, NEW c \in Calls,
             Moves(t, b, c, left[t]),
             pc[t] \in {"exchange", "increment", "trigger", "chainCount", "chainTrigger"},
             pc[t] \in {"chainCount", "chainTrigger"} <=> b \in {"chainTrigger", "uncount"},
             Kind = "auto_kqueue", count' \in Int, event' \in Int, owed' \in Int, waiters' = waiters,
             AutoTokens'
      PROVE  ObjectInv'
  <2>1. Kind' = Kind
    BY <1>1, <1>6, LabelsMove
  <2>2. TokensFit'
    BY <1>6, <2>1 DEF TokensFit, OsSemaphores, ManualEvents
  <2>3. Fits(b, c) /\ (Slot(pc[t], call[t]) <=> Slot(b, c))
    BY <1>6 DEF Fits, Slot, AutoEvents
  <2>4. b \in Labels /\ b \notin {"posting", "notify"}
    BY <1>2, <1>6
  <2>5. QED
    BY <1>4, <1>6, <2>2, <2>3, <2>4, MoveKeeps
<1>7. ASSUME auto_exchange(t) PROVE ObjectInv'
  <2>1. pc[t] = "exchange" /\ Kind = "auto_kqueue" /\ UNCHANGED <<event, waiters, left>>
    BY <1>3, <1>7 DEF auto_exchange, At, Fits
  <2>2. AutoTokens
    BY <1>1, <2>1 DEF TokensFit
  <2>3. CASE count = 0
    <3>1. count' = 1 /\ owed' = owed + 1 /\ Moves(t, "trigger", call[t], left[t])
      BY <1>1, <1>7, <2>1, <2>3 DEF auto_exchange, Moves, Goto, Enter
    <3>2. Waking'
      BY <1>1, <3>1, LabelsMove DEF WakingLabels
    <3>3. owed = 0
      BY <2>2, <2>3 DEF AutoTokens
    <3>4. count' = owed' /\ count' >= 0 /\ count' \in Int /\ event' \in Int /\ owed' \in Int
      BY <1>2, <2>1, <3>1, <3>3
    <3>5. AutoTokens'
      BY <3>2, <3>4 DEF AutoTokens
    <3>6. QED
      BY <1>2, <1>6, <2>1, <3>1, <3>4, <3>5
  <2>4. CASE count # 0
    <3>1. count' = count /\ owed' = owed /\ Moves(t, "idle", "wait", left[t])
      BY <1>1, <1>7, <2>1, <2>4 DEF auto_exchange, Moves, Goto, Enter
    <3>2. (Polling' => Polling) /\ (Waking => Waking')
      BY <1>1, <2>1, <3>1, LabelsMove DEF WakingLabels
    <3>3. AutoTokens'
      BY <1>2, <2>1, <2>2, <3>1, <3>2 DEF AutoTokens
    <3>4. QED
      BY <1>2, <1>6, <2>1, <3>1, <3>3
  <2>5. QED
    BY <2>3, <2>4
<1>8. ASSUME auto_increment(t) PROVE ObjectInv'
  <2>1. pc[t] = "increment" /\ Kind = "auto_kqueue" /\ UNCHANGED <<event, waiters, left>>
        /\ count' = count + 1 /\ owed' = owed + 1
    BY <1>3, <1>8 DEF auto_increment, At, Fits
  <2>2. AutoTokens
    BY <1>1, <2>1 DEF TokensFit
  <2>3. PICK b \in {"trigger", "idle"} : Goto(t, b) /\ (b = "trigger" <=> count = 0)
    BY <1>8 DEF auto_increment
  <2>4. PICK c \in {"wait", call[t]} : Moves(t, b, c, left[t])
    BY <1>1, <2>1, <2>3 DEF Moves, Goto, Enter
  <2>5. (Polling' => Polling) /\ (Waking => Waking') /\ (b = "trigger" => Waking')
    BY <1>1, <2>1, <2>3, <2>4, LabelsMove DEF WakingLabels
  <2>6. AutoTokens'
    <3>1. count' = owed' /\ count' >= 0
      BY <1>2, <2>1, <2>2 DEF AutoTokens
    <3>2. ASSUME event' <= 0, count' > 0, Polling' PROVE Waking'
      BY <1>2, <2>1, <2>2, <2>3, <2>5, <3>2 DEF AutoTokens
    <3>3. QED
      BY <3>1, <3>2 DEF AutoTokens
  <2>7. c \in Calls /\ count' \in Int /\ event' \in Int /\ owed' \in Int
    BY <1>2, <2>1
  <2>8. QED
    BY <1>6, <2>1, <2>4, <2>6, <2>7
<1>9. ASSUME trigger(t) PROVE ObjectInv'
  <2>1. pc[t] = "trigger" /\ Kind = "auto_kqueue" /\ UNCHANGED <<count, owed, waiters, left>> /\ event' = 1
    BY <1>3, <1>9 DEF trigger, At, Fits
  <2>2. Moves(t, "idle", "wait", left[t])
    BY <1>1, <1>9 DEF trigger, Moves, Goto, Enter
  <2>3. AutoTokens'
    BY <1>1, <2>1 DEF TokensFit, AutoTokens
  <2>4. QED
    BY <1>2, <1>6, <2>1, <2>2, <2>3
<1>10. ASSUME chain_count(t) PROVE ObjectInv'
  <2>1. pc[t] = "chainCount" /\ Kind = "auto_kqueue" /\ UNCHANGED <<count, event, owed, waiters, left>>
    BY <1>3, <1>10 DEF chain_count, At, Fits, objectVars
  <2>2. PICK b \in {"chainTrigger", "uncount"} : Goto(t, b) /\ (b = "uncount" => ~(waiters > 1))
    BY <1>10 DEF chain_count
  <2>3. Moves(t, b, call[t], left[t])
    BY <1>1, <2>1, <2>2 DEF Moves, Goto, Enter
  <2>4. Polling' => waiters > 1
    <3>1. SUFFICES ASSUME NEW u \in Threads, pc'[u] = "poll" PROVE waiters > 1
      BY DEF Polling
    <3>2. u # t /\ pc[u] = "poll"
      BY <1>1, <2>3, <3>1 DEF Moves
    <3>3. u \in InSlot /\ t \in InSlot
      BY <2>1, <3>2 DEF InSlot, Slot
    <3>4. waiters >= 2
      BY <3>2, <3>3, TwoCounted
    <3>5. QED
      BY <1>2, <3>4
  <2>5. b = "chainTrigger" => Waking'
    BY <1>1, <2>3, LabelsMove DEF WakingLabels
  <2>6. AutoTokens'
    <3>1. count' = owed' /\ count' >= 0
      BY <1>1, <2>1 DEF TokensFit, AutoTokens
    <3>2. Polling' => Waking'
      BY <2>2, <2>4, <2>5
    <3>3. QED
      BY <3>1, <3>2 DEF AutoTokens
  <2>7. QED
    BY <1>2, <1>6, <2>1, <2>3, <2>6
<1>11. ASSUME chain_trigger(t) PROVE ObjectInv'
  <2>1. /\ pc[t] = "chainTrigger" /\ Kind = "auto_kqueue" /\ event' = 1
        /\ UNCHANGED <<count, owed, waiters, left>>
    BY <1>3, <1>11 DEF chain_trigger, At, Fits
  <2>2. Moves(t, "uncount", call[t], left[t])
    BY <1>1, <1>11 DEF chain_trigger, Moves, Goto, Enter
  <2>3. AutoTokens'
    BY <1>1, <2>1 DEF TokensFit, AutoTokens
  <2>4. QED
    BY <1>2, <1>6, <2>1, <2>2, <2>3
<1>12. QED
  BY <1>5, <1>7, <1>8, <1>9, <1>10, <1>11

\* The manual-reset event.
LEMMA ManualSteps ==
  ASSUME ObjectInv, NEW t \in Threads, setup' = setup,
         \/ manual_signal_linux(t) \/ manual_write(t) \/ manual_reset_linux(t) \/ manual_drain(t)
         \/ manual_signal_apple(t) \/ manual_reset_apple(t) \/ manual_readd(t)
  PROVE  ObjectInv'
<1>1. TypeOK /\ TokensFit /\ left \in [Threads -> Nat] /\ pc \in [Threads -> Labels] /\ call \in [Threads -> Calls]
  BY DEF ObjectInv, TypeOK
<1>2. /\ count \in Int /\ event \in Int /\ owed \in Int
      /\ call[t] \in Calls /\ pc[t] \in Labels /\ "wait" \in Calls
      /\ {"idle", "write", "drain", "readd"} \subseteq Labels
  BY <1>1 DEF TypeOK, Calls, Labels
<1>3. Fits(pc[t], call[t])
  BY DEF ObjectInv, LabelsFit
<1>4. pc[t] \in {"idle", "write", "drain", "readd"}
  BY DEF manual_signal_linux, manual_write, manual_reset_linux, manual_drain,
         manual_signal_apple, manual_reset_apple, manual_readd, At
<1>5. left[t] = 0 /\ left[t] \in Nat
  BY <1>1, <1>4 DEF ObjectInv, CountersFit
<1>6. Kind \in ManualEvents
  BY <1>3 DEF manual_signal_linux, manual_write, manual_reset_linux, manual_drain, manual_signal_apple,
              manual_reset_apple, manual_readd, At, Kind, ManualEvents, Fits
<1>7. ManualTokens
  BY <1>1, <1>6 DEF TokensFit
<1>8. waiters' = waiters /\ count' = count
  BY DEF manual_signal_linux, manual_write, manual_reset_linux, manual_drain,
         manual_signal_apple, manual_reset_apple, manual_readd, objectVars
<1>9. ASSUME NEW b \in {"idle", "write", "drain", "readd"}, NEW c \in Calls, Moves(t, b, c, left[t]),
             b \in {"write", "drain"} => Kind = "manual_eventfd", b = "readd" => Kind = "manual_kqueue",
             event' \in Int, owed' \in Int, Kind' = Kind => ManualTokens'
      PROVE  ObjectInv'
  <2>1. Kind' = Kind
    BY <1>1, <1>9, LabelsMove
  <2>2. TokensFit'
    BY <1>6, <1>9, <2>1 DEF TokensFit, OsSemaphores, ManualEvents
  <2>3. Fits(b, c) /\ ~Slot(pc[t], call[t]) /\ ~Slot(b, c)
    BY <1>6, <1>9 DEF Fits, Slot, ManualEvents
  <2>4. b \in Labels /\ b \notin {"posting", "notify"} /\ count' \in Int
    BY <1>2, <1>8, <1>9
  <2>5. QED
    BY <1>5, <1>8, <1>9, <2>2, <2>3, <2>4, MoveKeeps
<1>10. InForce => owed' \in {owed, 1} /\ (ResetRuns => owed' = owed)
  BY DEF InForce
<1>11. /\ owed \in {0, 1} /\ event >= -1 /\ (owed = 1 => event > 0 /\ ~ResetRuns)
       /\ (event = -1 => Kind = "manual_kqueue" /\ ResetRuns)
  BY <1>7 DEF ManualTokens
<1>12. ASSUME manual_signal_linux(t) PROVE ObjectInv'
  <2>1. pc[t] = "idle" /\ Kind = "manual_eventfd" /\ event' = event /\ left' = left
    BY <1>12 DEF manual_signal_linux, At, Kind, objectVars
  <2>2. CASE event > 0
    <3>1. InForce /\ Moves(t, "idle", call[t], left[t])
      BY <1>1, <1>12, <2>1, <2>2 DEF manual_signal_linux, Moves
    <3>2. ResetRuns' => ResetRuns
      BY <1>1, <3>1, LabelsMove
    <3>3. owed' \in {0, 1} /\ event' >= -1 /\ (owed' = 1 => event' > 0 /\ ~ResetRuns') /\ event' # -1
      <4>1. CASE ResetRuns
        BY <1>2, <1>10, <1>11, <2>1, <2>2, <3>1, <4>1
      <4>2. CASE ~ResetRuns
        BY <1>2, <1>10, <1>11, <2>1, <2>2, <3>1, <3>2, <4>2
      <4>3. QED
        BY <4>1, <4>2
    <3>4. ManualTokens'
      BY <3>3 DEF ManualTokens
    <3>5. QED
      BY <1>2, <1>9, <2>1, <3>1, <3>3, <3>4
  <2>3. CASE ~(event > 0)
    <3>1. owed' = owed /\ Moves(t, "write", "wait", left[t])
      BY <1>1, <1>12, <2>1, <2>3 DEF manual_signal_linux, Moves, Enter
    <3>2. ResetRuns' <=> ResetRuns
      BY <1>1, <2>1, <3>1, LabelsMove
    <3>3. Kind' = Kind => ManualTokens'
      BY <1>11, <2>1, <3>1, <3>2 DEF ManualTokens
    <3>4. QED
      BY <1>2, <1>9, <2>1, <3>1, <3>3
  <2>4. QED
    BY <2>2, <2>3
<1>13. ASSUME manual_write(t) PROVE ObjectInv'
  <2>1. pc[t] = "write" /\ Kind = "manual_eventfd" /\ event' = event + 1 /\ InForce
    BY <1>13 DEF manual_write, At, Kind
  <2>2. Moves(t, "idle", "wait", left[t])
    BY <1>1, <1>13 DEF manual_write, Moves, Goto, Enter
  <2>3. ResetRuns' => ResetRuns
    BY <1>1, <2>2, LabelsMove
  <2>4. event >= 0
    BY <1>2, <1>11, <2>1
  <2>5. owed' \in {0, 1} /\ (owed' = 1 => ~ResetRuns')
    <3>1. CASE ResetRuns
      BY <1>10, <1>11, <2>1, <3>1
    <3>2. CASE ~ResetRuns
      BY <1>10, <1>11, <2>1, <2>3, <3>2
    <3>3. QED
      BY <3>1, <3>2
  <2>6. event' > 0 /\ event' >= -1 /\ event' # -1 /\ event' \in Int
    BY <1>2, <2>1, <2>4
  <2>7. ManualTokens'
    BY <2>5, <2>6 DEF ManualTokens
  <2>8. QED
    BY <1>2, <1>9, <2>2, <2>5, <2>6, <2>7
<1>14. ASSUME manual_reset_linux(t) PROVE ObjectInv'
  <2>1. Kind = "manual_eventfd" /\ event' = event /\ owed' = 0 /\ Moves(t, "drain", "wait", left[t])
    BY <1>1, <1>14 DEF manual_reset_linux, Kind, objectVars, Moves, Enter
  <2>2. ManualTokens'
    BY <1>2, <1>11, <2>1 DEF ManualTokens
  <2>3. QED
    BY <1>2, <1>9, <2>1, <2>2
<1>15. ASSUME manual_drain(t) PROVE ObjectInv'
  <2>1. pc[t] = "drain" /\ Kind = "manual_eventfd" /\ event' = 0 /\ owed' = owed /\ left' = left
    BY <1>3, <1>15 DEF manual_drain, At, Fits
  <2>2. PICK b \in {"drain", "idle"} : Goto(t, b)
    BY <1>15 DEF manual_drain
  <2>3. PICK c \in {"wait", call[t]} : Moves(t, b, c, left[t])
    BY <1>1, <2>1, <2>2 DEF Moves, Goto, Enter
  <2>4. owed = 0
    BY <1>11, <2>1 DEF ResetRuns
  <2>5. ManualTokens'
    BY <2>1, <2>4 DEF ManualTokens
  <2>6. QED
    BY <1>2, <1>9, <2>1, <2>3, <2>5
<1>16. ASSUME manual_signal_apple(t) PROVE ObjectInv'
  <2>1. pc[t] = "idle" /\ Kind = "manual_kqueue" /\ InForce /\ Moves(t, "idle", call[t], left[t])
    BY <1>1, <1>16 DEF manual_signal_apple, At, Kind, Moves, threadVars
  <2>2. ResetRuns' <=> ResetRuns
    BY <1>1, <2>1, LabelsMove
  <2>3. event' = (IF event = -1 THEN -1 ELSE 1)
    BY <1>16 DEF manual_signal_apple
  <2>4. CASE event = -1
    <3>1. event' = -1 /\ ResetRuns /\ owed' = owed /\ owed = 0
      BY <1>2, <1>10, <1>11, <2>1, <2>3, <2>4
    <3>2. Kind' = Kind => ManualTokens'
      BY <2>1, <2>2, <3>1 DEF ManualTokens
    <3>3. QED
      BY <1>2, <1>9, <2>1, <3>1, <3>2
  <2>5. CASE event # -1
    <3>1. event' = 1
      BY <2>3, <2>5
    <3>2. owed' \in {0, 1} /\ (owed' = 1 => ~ResetRuns')
      <4>1. CASE ResetRuns
        BY <1>10, <1>11, <2>1, <4>1
      <4>2. CASE ~ResetRuns
        BY <1>10, <1>11, <2>1, <2>2, <4>2
      <4>3. QED
        BY <4>1, <4>2
    <3>3. ManualTokens'
      BY <3>1, <3>2 DEF ManualTokens
    <3>4. QED
      BY <1>2, <1>9, <2>1, <3>1, <3>2, <3>3
  <2>6. QED
    BY <2>4, <2>5
<1>17. ASSUME manual_reset_apple(t) PROVE ObjectInv'
  <2>1. Kind = "manual_kqueue" /\ event' = -1 /\ owed' = 0 /\ Moves(t, "readd", "wait", left[t])
    BY <1>1, <1>17 DEF manual_reset_apple, Kind, Moves, Enter
  <2>2. ResetRuns'
    BY <1>1, <2>1, LabelsMove
  <2>3. Kind' = Kind => ManualTokens'
    BY <2>1, <2>2 DEF ManualTokens
  <2>4. QED
    BY <1>2, <1>9, <2>1, <2>3
<1>18. ASSUME manual_readd(t) PROVE ObjectInv'
  <2>1. pc[t] = "readd" /\ Kind = "manual_kqueue" /\ owed' = owed /\ Moves(t, "idle", "wait", left[t])
    BY <1>1, <1>3, <1>18 DEF manual_readd, At, Fits, Moves, Goto, Enter
  <2>2. event' = (IF event = -1 THEN 0 ELSE event)
    BY <1>18 DEF manual_readd
  <2>3. event' # -1 /\ event' >= -1 /\ event' \in Int
    BY <1>2, <1>11, <2>2
  <2>4. owed = 0
    BY <1>11, <2>1 DEF ResetRuns
  <2>5. ManualTokens'
    BY <2>1, <2>3, <2>4 DEF ManualTokens
  <2>6. QED
    BY <1>2, <1>9, <2>1, <2>3, <2>5
<1>19. QED
  BY <1>12, <1>13, <1>14, <1>15, <1>16, <1>17, <1>18

\* Steps that touch neither object nor threads.
LEMMA ObjectStays ==
  ASSUME ObjectInv, UNCHANGED <<objVars, threadVars, setup>>
  PROVE  ObjectInv'
<1>1. UNCHANGED <<count, event, waiters, owed, left, call, pc, setup>>
  BY DEF objVars, objectVars, threadVars
<1>2. Kind' = Kind /\ Dependable' = Dependable /\ Posts' = Posts /\ InSlot' = InSlot
  BY <1>1 DEF Kind, Dependable, Posts, InSlot, Slot
<1>3. Polling' = Polling /\ Waking' = Waking /\ Sending' = Sending /\ ResetRuns' = ResetRuns
  BY <1>1 DEF Polling, Waking, Sending, ResetRuns
<1>4. TypeOK' /\ LabelsFit' /\ CountersFit'
  BY <1>1, <1>2 DEF ObjectInv, TypeOK, LabelsFit, Fits, CountersFit
<1>5. TokensFit
  BY DEF ObjectInv
<1>6. CounterTokens' = CounterTokens /\ AutoTokens' = AutoTokens /\ ClaimTokens' = ClaimTokens
  BY <1>1, <1>3 DEF CounterTokens, AutoTokens, ClaimTokens
<1>7. OsTokens' = OsTokens
  BY <1>1, <1>2 DEF OsTokens
<1>8. ManualTokens' = ManualTokens
  BY <1>1, <1>2, <1>3 DEF ManualTokens
<1>9. TokensFit'
  BY <1>2, <1>5, <1>6, <1>7, <1>8 DEF TokensFit
<1>10. QED
  BY <1>4, <1>9 DEF ObjectInv

\* A step of a thread.
LEMMA ThreadStep ==
  ASSUME ObjectInv, setup' = setup, Next
  PROVE  ObjectInv'
<1>1. PICK t \in setup.threads :
        \/ Giving(t) \/ Waiting(t) \/ Progress(t)
        \/ deadline_passes(t) \/ claim_expires(t) \/ kevent_interrupted(t)
  BY DEF Next
<1>2. t \in Threads
  BY <1>1, Kinds DEF ObjectInv
<1>3. CASE Giving(t)
  <2>1. CASE \E n \in ReleaseSizes :
               \/ eventfd_release(t, n) \/ kqueue_release(t, n) \/ posix_release(t, n)
               \/ mach_release(t, n) \/ dispatch_release(t, n) \/ win32_release(t, n)
    BY <1>2, <2>1, ReleaseSteps, ClaimSteps
  <2>2. CASE auto_signal_linux(t) \/ auto_signal_apple(t)
    BY <1>2, <2>2, Entries
  <2>3. CASE \/ manual_signal_linux(t) \/ manual_reset_linux(t)
             \/ manual_signal_apple(t) \/ manual_reset_apple(t)
    BY <1>2, <2>3, ManualSteps
  <2>4. QED
    BY <1>3, <2>1, <2>2, <2>3 DEF Giving
<1>4. CASE Waiting(t)
  <2>1. CASE try_wait(t)
    BY <1>2, <2>1, TrySteps
  <2>2. CASE kqueue_acquire(t) \/ kqueue_try_acquire_for(t)
    BY <1>2, <2>2, ClaimSteps DEF kqueue_acquire, kqueue_try_acquire_for
  <2>3. CASE auto_wait_linux(t)
    BY <1>2, <2>3, QuietSteps
  <2>4. QED
    BY <1>2, <1>4, <2>1, <2>2, <2>3, Entries DEF Waiting
<1>5. CASE Progress(t)
  <2>1. CASE semaphore_post(t) \/ notify(t)
    BY <1>2, <2>1, LoopSteps
  <2>2. CASE claim_granted(t) \/ renotify(t) \/ unclaim(t) \/ take_late(t)
    BY <1>2, <2>2, ClaimSteps
  <2>3. CASE \/ auto_write(t) \/ auto_exchange(t) \/ auto_increment(t) \/ trigger(t)
             \/ chain_count(t) \/ chain_trigger(t)
    BY <1>2, <2>3, AutoSteps
  <2>4. CASE auto_probe(t) \/ raise_wait_count(t) \/ lower_wait_count(t) \/ chain_wakeup(t)
    BY <1>2, <2>4, QuietSteps
  <2>5. CASE manual_write(t) \/ manual_drain(t) \/ manual_readd(t)
    BY <1>2, <2>5, ManualSteps
  <2>6. CASE look(t) \/ poll_returns(t) \/ last_try(t) \/ os_acquires(t)
    BY <1>2, <2>6, TrySteps
  <2>7. QED
    BY <1>5, <2>1, <2>2, <2>3, <2>4, <2>5, <2>6 DEF Progress
<1>6. CASE deadline_passes(t) \/ claim_expires(t) \/ kevent_interrupted(t)
  BY <1>2, <1>6, QuietSteps
<1>7. QED
  BY <1>1, <1>3, <1>4, <1>5, <1>6

-----------------------------------------------------------------------------
(* The operations.  While the result is open, handler_invoked_ is not set; *)
(* a posted cancel() relies on it being set as soon as the result is not.  *)
(* Who ends without a result has an excuse (Fate).                         *)
Open == {"new", "arm", "armed", "ready", "aborted", "try", "unarmed"}
PostedCancel == {"qt_cancellable", "dispatch_cancellable"}
Told == {"got", "done"}
Uncancelled == {"none", "held"}

Fate(b, class, h, q) ==
  /\ b = "leaked" => class = "asio_future" /\ q = "gone"
  /\ b = "aborted" => h \notin Uncancelled
  /\ b \in {"abandon", "dropped"} =>
       \/ class \in {"qt", "qt_future"}
       \/ class = "asio_future" /\ (h \notin Uncancelled \/ q = "gone")

OpFits(o) ==
  /\ op[o].class \in Cancellable /\ op[o].at \in Open => ~op[o].marked
  /\ op[o].class \in PostedCancel /\ op[o].at \notin Open => op[o].marked
  /\ Fate(op[o].at, op[o].class, op[o].cancel, op[o].promise)
  /\ op[o].promise = "gone" => op[o].class = "asio_future"
  /\ op[o].calls = IF op[o].at \in Told THEN 1 ELSE 0

OpInv == op \in [Ops -> OpType] /\ \A o \in Ops : OpFits(o)

(* The operation goes to b, with that flag, so many calls, that state of   *)
(* its handle and that owner of its promise.                               *)
Becomes(o, b, m, k, h, q) ==
  /\ op' \in [Ops -> OpType]
  /\ \A p \in Ops : p # o => op'[p] = op[p]
  /\ op'[o].class = op[o].class /\ op'[o].at = b /\ op'[o].marked = m /\ op'[o].calls = k
  /\ op'[o].cancel = h /\ op'[o].promise = q

\* The record of an operation, field by field.
LEMMA RecordFields ==
  ASSUME OpInv, NEW o \in Ops
  PROVE  /\ op[o] \in OpType /\ op[o].class \in Classes /\ op[o].at \in OpLabels
         /\ op[o].cancel \in {"none", "held", "flagged", "posted", "over"}
         /\ op[o].marked \in BOOLEAN /\ op[o].calls \in 0 .. 2 /\ op[o].late \in BOOLEAN
         /\ op[o].promise \in {"shared", "closure", "handler", "gone"}
         /\ Handle(o) \in {"none", "held", "flagged", "posted", "over"}
         /\ op[o].cancel \notin Uncancelled => Handle(o) \notin Uncancelled
<1>1. op[o] \in OpType
  BY DEF OpInv
<1>2. QED
  BY <1>1 DEF OpType, Handle, Uncancelled

\* A new record for one operation.
LEMMA RecordUpdate ==
  ASSUME OpInv, NEW o \in Ops, NEW r \in OpType, op' = [op EXCEPT ![o] = r], r.class = op[o].class
  PROVE  Becomes(o, r.at, r.marked, r.calls, r.cancel, r.promise)
<1>1. op'[o] = r /\ op' \in [Ops -> OpType] /\ \A p \in Ops : p # o => op'[p] = op[p]
  BY DEF OpInv
<1>2. QED
  BY <1>1 DEF Becomes

\* An operation whose flag says whether its result is open.
LEMMA OpKeeps ==
  ASSUME OpInv, NEW o \in Ops, NEW b, NEW m, NEW k, NEW h, NEW q, Becomes(o, b, m, k, h, q),
         op[o].class \in Cancellable /\ b \in Open => ~m,
         op[o].class \in PostedCancel /\ b \notin Open => m,
         Fate(b, op[o].class, h, q), q = op[o].promise \/ op[o].class = "asio_future",
         b \in Told => k = 1, b \notin Told => k = 0
  PROVE  OpInv'
<1>1. /\ op'[o].class = op[o].class /\ op'[o].at = b /\ op'[o].marked = m /\ op'[o].calls = k
      /\ op'[o].cancel = h /\ op'[o].promise = q
  BY DEF Becomes
<1>2. OpFits(o)'
  BY <1>1 DEF OpFits, Fate, OpInv
<1>3. ASSUME NEW p \in Ops PROVE OpFits(p)'
  <2>1. CASE p = o
    BY <1>2, <2>1
  <2>2. CASE p # o
    <3>1. op'[p] = op[p] /\ OpFits(p)
      BY <2>2 DEF Becomes, OpInv
    <3>2. QED
      BY <3>1 DEF OpFits, Fate
  <2>3. QED
    BY <2>1, <2>2
<1>4. QED
  BY <1>3 DEF OpInv, Becomes

\* The operation goes on.
LEMMA OpGoes ==
  ASSUME OpInv, NEW o \in Ops, NEW b \in OpLabels,
         OpGoto(o, b) \/ Started(o, b) \/ (start_wait(o) /\ b = "armed"),
         op[o].at \notin Told, b \notin Told, Fate(b, op[o].class, op[o].cancel, op[o].promise),
         op[o].class \in Cancellable /\ b \in Open => op[o].at \in Open,
         op[o].class \in PostedCancel /\ b \notin Open => op[o].at \notin Open
  PROVE  OpInv'
<1>1. PICK q \in {"shared", "closure", "handler", "gone"}, h \in {"none", "held", "flagged", "posted", "over"} :
           /\ op' = [op EXCEPT ![o] = [op[o] EXCEPT !.at = b, !.cancel = h, !.promise = q]]
           /\ op[o].cancel \notin Uncancelled => h \notin Uncancelled
           /\ op[o].promise = "gone" => q = "gone"
           /\ q = op[o].promise \/ op[o].class = "asio_future"
  <2>1. CASE OpGoto(o, b)
    <3>1. [op[o] EXCEPT !.at = b] = [op[o] EXCEPT !.at = b, !.cancel = op[o].cancel, !.promise = op[o].promise]
      BY RecordFields DEF OpType
    <3>2. op' = [op EXCEPT ![o] = [op[o] EXCEPT !.at = b]]
      BY <2>1 DEF OpGoto
    <3>3. PICK h, q : h = op[o].cancel /\ q = op[o].promise
      OBVIOUS
    <3>4. q \in {"shared", "closure", "handler", "gone"} /\ h \in {"none", "held", "flagged", "posted", "over"}
      BY <3>3, RecordFields
    <3>5. op' = [op EXCEPT ![o] = [op[o] EXCEPT !.at = b, !.cancel = h, !.promise = q]]
      BY <3>1, <3>2, <3>3
    <3>6. QED
      BY <3>3, <3>4, <3>5
  <2>2. CASE Started(o, b)
    <3>1. [op[o] EXCEPT !.at = b, !.cancel = Handle(o)] =
            [op[o] EXCEPT !.at = b, !.cancel = Handle(o), !.promise = op[o].promise]
      BY RecordFields DEF OpType
    <3>2. op' = [op EXCEPT ![o] = [op[o] EXCEPT !.at = b, !.cancel = Handle(o)]]
      BY <2>2 DEF Started
    <3>3. PICK h, q : h = Handle(o) /\ q = op[o].promise
      OBVIOUS
    <3>4. /\ q \in {"shared", "closure", "handler", "gone"} /\ h \in {"none", "held", "flagged", "posted", "over"}
          /\ op[o].cancel \notin Uncancelled => h \notin Uncancelled
      BY <3>3, RecordFields
    <3>5. op' = [op EXCEPT ![o] = [op[o] EXCEPT !.at = b, !.cancel = h, !.promise = q]]
      BY <3>1, <3>2, <3>3
    <3>6. QED
      BY <3>3, <3>4, <3>5
  <2>3. CASE start_wait(o) /\ b = "armed"
    <3>1. PICK q \in {"shared", "closure", "handler", "gone"} :
               /\ op' = [op EXCEPT ![o].at = "armed", ![o].cancel = Handle(o), ![o].promise = q]
               /\ op[o].promise = "gone" => q = "gone"
               /\ q = op[o].promise \/ op[o].class = "asio_future"
      <4>1. CASE op[o].class # "asio_future" \/ op[o].promise = "shared"
        BY <2>3, <4>1, RecordFields DEF start_wait
      <4>2. CASE op[o].class = "asio_future" /\ op[o].promise = "closure"
        BY <2>3, <4>2, RecordFields DEF start_wait
      <4>3. CASE op[o].class = "asio_future" /\ op[o].promise \notin {"closure", "shared"}
        BY <2>3, <4>3, RecordFields DEF start_wait
      <4>4. QED
        BY <4>1, <4>2, <4>3
    <3>2. PICK h : h = Handle(o)
      OBVIOUS
    <3>3. /\ h \in {"none", "held", "flagged", "posted", "over"}
          /\ op[o].cancel \notin Uncancelled => h \notin Uncancelled
      BY <3>2, RecordFields
    <3>4. op' = [op EXCEPT ![o] = [op[o] EXCEPT !.at = b, !.cancel = h, !.promise = q]]
      BY <2>3, <3>1, <3>2
    <3>5. QED
      BY <3>1, <3>3, <3>4
  <2>4. QED
    BY <2>1, <2>2, <2>3
<1> DEFINE r == [op[o] EXCEPT !.at = b, !.cancel = h, !.promise = q]
<1>2. /\ r \in OpType /\ r.class = op[o].class /\ r.at = b
      /\ r.marked = op[o].marked /\ r.calls = op[o].calls /\ r.cancel = h /\ r.promise = q
  BY RecordFields DEF OpType
<1>3. op' = [op EXCEPT ![o] = r]
  BY <1>1
<1> HIDE DEF r
<1>4. Becomes(o, b, op[o].marked, op[o].calls, h, q)
  BY <1>2, <1>3, RecordUpdate
<1>5. PICK m : m = op[o].marked
  OBVIOUS
<1>6. /\ op[o].class \in Cancellable /\ op[o].at \in Open => ~m
      /\ op[o].class \in PostedCancel /\ op[o].at \notin Open => m
      /\ op[o].calls = 0
  BY <1>5 DEF OpInv, OpFits
<1>7. Becomes(o, b, m, 0, h, q)
  BY <1>4, <1>5, <1>6
<1>8. op[o].class \in PostedCancel => op[o].class \in Cancellable
  BY DEF PostedCancel, Cancellable
<1>9. Fate(b, op[o].class, h, q)
  BY <1>1 DEF Fate
<1>10. QED
  BY <1>1, <1>6, <1>7, <1>8, <1>9, OpKeeps

\* The handler is called.
LEMMA OpTells ==
  ASSUME OpInv, NEW o \in Ops, NEW b \in Told, Invoke(o, b), op[o].at \notin Told,
         op[o].class \in PostedCancel => op[o].at \notin Open
  PROVE  OpInv'
<1>1. op[o].calls = 0
  BY DEF OpInv, OpFits
<1> DEFINE r == [op[o] EXCEPT !.at = b, !.calls = 1]
<1>2. op[o].calls + 1 = 1 /\ 1 \in 0 .. 2 /\ b \in OpLabels /\ b \notin Open
      /\ Fate(b, op[o].class, op[o].cancel, op[o].promise)
  BY <1>1 DEF Told, OpLabels, Open, Fate
<1>3. /\ r \in OpType /\ r.class = op[o].class /\ r.at = b /\ r.marked = op[o].marked /\ r.calls = 1
      /\ r.cancel = op[o].cancel /\ r.promise = op[o].promise
  BY <1>2, RecordFields DEF OpType
<1>4. op' = [op EXCEPT ![o] = r]
  BY <1>2 DEF Invoke
<1> HIDE DEF r
<1>5. Becomes(o, b, op[o].marked, 1, op[o].cancel, op[o].promise)
  BY <1>3, <1>4, RecordUpdate
<1>6. PICK m : m = op[o].marked
  OBVIOUS
<1>7. op[o].class \in PostedCancel => m
  BY <1>6 DEF OpInv, OpFits
<1>8. Becomes(o, b, m, 1, op[o].cancel, op[o].promise)
  BY <1>5, <1>6
<1>9. QED
  BY <1>2, <1>7, <1>8, OpKeeps

\* The result of an open operation is decided.
LEMMA OpMarks ==
  ASSUME OpInv, NEW o \in Ops, NEW first \in {"deliver", "fail"}, NEW again, Mark(o, first, again),
         op[o].class \in Cancellable, op[o].at \in Open
  PROVE  OpInv'
<1>1. ~op[o].marked /\ op[o].calls = 0
  BY DEF OpInv, OpFits, Open, Told
<1> DEFINE r == [op[o] EXCEPT !.at = first, !.marked = TRUE, !.cancel = Handle(o)]
<1>2. first \in OpLabels /\ first \notin Open /\ first \notin Told
      /\ Fate(first, op[o].class, Handle(o), op[o].promise)
  BY DEF OpLabels, Open, Told, Fate
<1>3. /\ r \in OpType /\ r.class = op[o].class /\ r.at = first /\ r.marked = TRUE
      /\ r.calls = op[o].calls /\ r.cancel = Handle(o) /\ r.promise = op[o].promise
  BY <1>2, RecordFields DEF OpType
<1>4. op' = [op EXCEPT ![o] = r]
  BY <1>1 DEF Mark
<1> HIDE DEF r
<1>5. Becomes(o, first, TRUE, op[o].calls, Handle(o), op[o].promise)
  BY <1>3, <1>4, RecordUpdate
<1>6. PICK m : m = TRUE /\ Becomes(o, first, m, 0, Handle(o), op[o].promise)
  BY <1>1, <1>5
<1>7. m
  BY <1>6
<1>8. QED
  BY <1>2, <1>6, <1>7, OpKeeps

\* cancel(), from the flag to what is posted.
LEMMA OpCancels ==
  ASSUME OpInv, NEW o \in Ops,
         \/ \E classes : FlagCancel(o, classes) \/ PostCancel(o, classes)
         \/ AsioCancel(o)
         \/ \E class \in PostedCancel : CancelPosted(o, {class}, "fail")
  PROVE  OpInv'
<1>1. OpFits(o) /\ op[o].at \in OpLabels
  BY RecordFields DEF OpInv, OpFits
<1>2. ASSUME NEW b \in OpLabels, NEW h \in {"flagged", "posted", "over"},
             op' = [op EXCEPT ![o] = [op[o] EXCEPT !.at = b, !.cancel = h]],
             b = op[o].at \/ (op[o].at = "armed" /\ b = "aborted")
      PROVE  OpInv'
  <2> DEFINE r == [op[o] EXCEPT !.at = b, !.cancel = h]
  <2>1. /\ r \in OpType /\ r.class = op[o].class /\ r.at = b
        /\ r.marked = op[o].marked /\ r.calls = op[o].calls
        /\ r.cancel = h /\ r.promise = op[o].promise
    BY <1>2, RecordFields DEF OpType
  <2>2. op' = [op EXCEPT ![o] = r]
    BY <1>2
  <2> HIDE DEF r
  <2>3. Becomes(o, b, op[o].marked, op[o].calls, h, op[o].promise)
    BY <2>1, <2>2, RecordUpdate
  <2>4. PICK m, k : m = op[o].marked /\ k = op[o].calls
    OBVIOUS
  <2>5. /\ (b \in Open <=> op[o].at \in Open) /\ (b \in Told <=> op[o].at \in Told)
        /\ Fate(b, op[o].class, h, op[o].promise)
    BY <1>1, <1>2 DEF Open, Told, Fate, OpFits, Uncancelled
  <2>6. /\ op[o].class \in Cancellable /\ b \in Open => ~m
        /\ op[o].class \in PostedCancel /\ b \notin Open => m
        /\ b \in Told => k = 1
        /\ b \notin Told => k = 0
    BY <1>1, <2>4, <2>5 DEF OpFits
  <2>7. Becomes(o, b, m, k, h, op[o].promise)
    BY <2>3, <2>4
  <2>8. QED
    BY <2>5, <2>6, <2>7, OpKeeps
<1>3. ASSUME NEW classes, FlagCancel(o, classes) \/ PostCancel(o, classes) PROVE OpInv'
  <2>1. PICK h \in {"flagged", "posted"} : op' = [op EXCEPT ![o] = [op[o] EXCEPT !.cancel = h]]
    BY <1>3 DEF FlagCancel, PostCancel
  <2>2. [op[o] EXCEPT !.cancel = h] = [op[o] EXCEPT !.at = op[o].at, !.cancel = h]
    BY RecordFields DEF OpType
  <2>3. QED
    BY <1>1, <1>2, <2>1, <2>2
<1>4. ASSUME AsioCancel(o) PROVE OpInv'
  <2>1. CASE op[o].at = "armed"
    <3>1. op' = [op EXCEPT ![o] = [op[o] EXCEPT !.at = "aborted", !.cancel = "over"]]
      BY <1>4, <2>1, RecordFields DEF AsioCancel, OpType
    <3>2. "aborted" \in OpLabels
      BY DEF OpLabels
    <3>3. QED
      BY <1>2, <2>1, <3>1, <3>2
  <2>2. CASE op[o].at # "armed"
    <3>1. op' = [op EXCEPT ![o] = [op[o] EXCEPT !.at = op[o].at, !.cancel = "over"]]
      BY <1>4, <2>2, RecordFields DEF AsioCancel, OpType
    <3>2. QED
      BY <1>1, <1>2, <3>1
  <2>3. QED
    BY <2>1, <2>2
<1>5. ASSUME NEW class \in PostedCancel, CancelPosted(o, {class}, "fail") PROVE OpInv'
  <2>1. op[o].class \in PostedCancel /\ op[o].class \in Cancellable
    BY <1>5 DEF CancelPosted, PostedCancel, Cancellable
  <2>2. PICK b : b = IF op[o].marked THEN op[o].at ELSE "fail"
    OBVIOUS
  <2> DEFINE r == [op[o] EXCEPT !.at = b, !.marked = TRUE, !.cancel = "over"]
  <2>3. b \in OpLabels /\ Fate(b, op[o].class, "over", op[o].promise)
    BY <1>1, <2>2 DEF OpLabels, Fate, OpFits, Uncancelled
  <2>4. /\ r \in OpType /\ r.class = op[o].class /\ r.at = b /\ r.marked = TRUE /\ r.calls = op[o].calls
        /\ r.cancel = "over" /\ r.promise = op[o].promise
    BY <2>3, RecordFields DEF OpType
  <2>5. op' = [op EXCEPT ![o] = r]
    BY <1>5, <2>2 DEF CancelPosted
  <2> HIDE DEF r
  <2>6. Becomes(o, b, TRUE, op[o].calls, "over", op[o].promise)
    BY <2>4, <2>5, RecordUpdate
  <2>7. PICK m, k : m = TRUE /\ k = op[o].calls /\ Becomes(o, b, m, k, "over", op[o].promise)
    BY <2>6
  <2>8. m
    BY <2>7
  <2>9. b \notin Open /\ (b \in Told => k = 1) /\ (b \notin Told => k = 0)
    <3>1. CASE op[o].marked
      BY <1>1, <2>1, <2>2, <2>7, <3>1 DEF OpFits
    <3>2. CASE ~op[o].marked
      <4>1. op[o].at \in Open /\ b = "fail"
        BY <1>1, <2>1, <2>2, <3>2 DEF OpFits
      <4>2. op[o].at \notin Told /\ b \notin Told /\ b \notin Open
        BY <4>1 DEF Open, Told
      <4>3. QED
        BY <1>1, <2>7, <4>2 DEF OpFits
    <3>3. QED
      BY <3>1, <3>2
  <2>10. QED
    BY <2>3, <2>7, <2>8, <2>9, OpKeeps
<1>6. QED
  BY <1>3, <1>4, <1>5

\* The steps the headers share.
LEMMA SharedSteps ==
  ASSUME ObjectInv, OpInv, NEW o \in Ops, UNCHANGED <<threadVars, setup>>,
         \/ \E classes, kinds : Arm(o, classes, kinds)
         \/ fd_readable(o) \/ try_again(o) \/ deliver(o) \/ abandon(o)
         \/ \E kinds : FutureCallback(o, kinds)
         \/ start_wait(o) /\ UNCHANGED objVars
         \/ qt_dup_fails(o) /\ UNCHANGED objVars
         \/ \E class, kinds : HandleCancels(o, class, kinds) \/ PostsCancel(o, class, kinds)
         \/ \E kinds : AsioCancels(o, kinds)
         \/ \E class \in PostedCancel : \E kinds : RunsCancel(o, class, kinds)
  PROVE  ObjectInv' /\ OpInv'
<1>1. UNCHANGED objVars => ObjectInv'
  BY ObjectStays
<1>2. /\ "armed" \in OpLabels /\ "armed" \in Open /\ "arm" \in Open /\ "armed" \notin Told /\ "arm" \notin Told
      /\ Fate("armed", op[o].class, op[o].cancel, op[o].promise)
  BY DEF OpLabels, Open, Told, Fate
<1>3. PostedCancel \subseteq Cancellable
  BY DEF PostedCancel, Cancellable
<1>4. ASSUME NEW classes, NEW kinds, Arm(o, classes, kinds) PROVE ObjectInv' /\ OpInv'
  BY <1>1, <1>2, <1>4, OpGoes DEF Arm, Is
<1>5. ASSUME fd_readable(o) PROVE ObjectInv' /\ OpInv'
  <2>1. op[o].at = "armed" /\ OpGoto(o, "ready") /\ UNCHANGED objVars
    BY <1>5 DEF fd_readable
  <2>2. /\ "ready" \in OpLabels /\ "ready" \in Open /\ "ready" \notin Told
        /\ Fate("ready", op[o].class, op[o].cancel, op[o].promise)
    BY DEF OpLabels, Open, Told, Fate
  <2>3. QED
    BY <1>1, <1>2, <2>1, <2>2, OpGoes
<1>6. ASSUME try_again(o) PROVE ObjectInv' /\ OpInv'
  <2>1. op[o].at = "try" /\ op[o].at \in Open /\ op[o].at \notin Told
    BY <1>6 DEF try_again, Open, Told
  <2>2. CASE Available > 0
    <3>1. TakeOne /\ Took
      BY <1>6, <2>2 DEF try_again, TryWait
    <3>2. ObjectInv'
      BY <2>2, <3>1, TakeAside
    <3>3. CASE op[o].class \in Cancellable
      <4>1. Mark(o, "deliver", "leaked")
        BY <1>6, <2>2, <3>3 DEF try_again, TryWait
      <4>2. QED
        BY <2>1, <3>2, <3>3, <4>1, OpMarks
    <3>4. CASE op[o].class \notin Cancellable
      <4>0. op[o].promise = "gone" => op[o].class = "asio_future"
        BY DEF OpInv, OpFits
      <4>1. PICK b \in {"leaked", "deliver"} : OpGoto(o, b) /\ (b = "leaked" => op[o].promise = "gone")
        BY <1>6, <2>2, <3>4 DEF try_again, TryWait
      <4>2. b \in OpLabels /\ b \notin Told /\ Fate(b, op[o].class, op[o].cancel, op[o].promise)
        BY <4>0, <4>1 DEF OpLabels, Told, Fate
      <4>3. QED
        BY <1>3, <2>1, <3>2, <3>4, <4>1, <4>2, OpGoes
    <3>5. QED
      BY <3>3, <3>4
  <2>3. CASE ~(Available > 0)
    <3>1. PICK b \in {"arm", "armed"} : OpGoto(o, b)
      BY <1>6, <2>3 DEF try_again, TryWait
    <3>2. UNCHANGED objVars
      BY <1>6, <2>3 DEF try_again, TryWait
    <3>3. /\ b \in OpLabels /\ b \notin Told /\ b \in Open
          /\ Fate(b, op[o].class, op[o].cancel, op[o].promise)
      BY DEF OpLabels, Told, Open, Fate
    <3>4. QED
      BY <1>1, <2>1, <3>1, <3>2, <3>3, OpGoes
  <2>4. QED
    BY <2>2, <2>3
<1>7. ASSUME deliver(o) PROVE ObjectInv' /\ OpInv'
  <2>1. PICK b \in Told : Invoke(o, b)
    BY <1>7 DEF deliver, invoke_success, invoke_error, Told
  <2>2. op[o].at \in {"deliver", "fail"} /\ UNCHANGED objVars
    BY <1>7 DEF deliver, invoke_success, invoke_error
  <2>3. op[o].at \notin Open /\ op[o].at \notin Told
    BY <2>2 DEF Open, Told
  <2>4. QED
    BY <1>1, <2>1, <2>2, <2>3, OpTells
<1>8. ASSUME abandon(o) PROVE ObjectInv' /\ OpInv'
  <2>1. op[o].at = "abandon" /\ OpGoto(o, "dropped") /\ UNCHANGED objVars
    BY <1>8 DEF abandon
  <2>2. /\ op[o].at \notin Open /\ op[o].at \notin Told
        /\ "dropped" \notin Open /\ "dropped" \notin Told /\ "dropped" \in OpLabels
    BY <2>1 DEF Open, Told, OpLabels
  <2>3. Fate("dropped", op[o].class, op[o].cancel, op[o].promise)
    BY <2>1 DEF OpInv, OpFits, Fate
  <2>4. QED
    BY <1>1, <2>1, <2>2, <2>3, OpGoes
<1>9. ASSUME NEW kinds, FutureCallback(o, kinds) PROVE ObjectInv' /\ OpInv'
  <2>1. PICK b \in {"try", "dropped"} : OpGoto(o, b) /\ (b = "dropped" => op[o].at = "aborted")
    BY <1>9 DEF FutureCallback, Is
  <2>2. op[o].class = "asio_future" /\ op[o].at \in {"ready", "aborted"} /\ UNCHANGED objVars
    BY <1>9 DEF FutureCallback, Is
  <2>3. /\ b \in OpLabels /\ b \notin Told /\ op[o].at \notin Told /\ op[o].class \notin Cancellable
    BY <2>2 DEF OpLabels, InCallback, Told, Cancellable
  <2>4. Fate(b, op[o].class, op[o].cancel, op[o].promise)
    BY <2>1, <2>2 DEF OpInv, OpFits, Fate
  <2>5. QED
    BY <1>1, <1>3, <2>1, <2>2, <2>3, <2>4, OpGoes
<1>10. ASSUME start_wait(o), UNCHANGED objVars PROVE ObjectInv' /\ OpInv'
  <2>1. op[o].at = "arm"
    BY <1>10 DEF start_wait, Is
  <2>2. QED
    BY <1>1, <1>2, <1>10, <2>1, OpGoes
<1>11. ASSUME qt_dup_fails(o), UNCHANGED objVars PROVE ObjectInv' /\ OpInv'
  <2>1. op[o].at = "arm" /\ op[o].class \in Qt
    BY <1>11 DEF qt_dup_fails, Is
  <2>2. PICK b \in {"unarmed", "abandon"} : Started(o, b) /\ (b = "unarmed" <=> op[o].class = "qt_cancellable")
    BY <1>11 DEF qt_dup_fails
  <2>3. /\ b \in OpLabels /\ b \notin Told /\ (b \in Open <=> b = "unarmed")
        /\ Fate(b, op[o].class, op[o].cancel, op[o].promise)
    BY <2>1, <2>2 DEF OpLabels, Told, Open, Fate, Qt
  <2>4. op[o].class \in PostedCancel => b \in Open
    BY <2>1, <2>2, <2>3 DEF PostedCancel, Qt
  <2>5. QED
    BY <1>1, <1>2, <1>11, <2>1, <2>2, <2>3, <2>4, OpGoes
<1>12. ASSUME NEW class, NEW kinds, HandleCancels(o, class, kinds) \/ PostsCancel(o, class, kinds)
       PROVE  ObjectInv' /\ OpInv'
  BY <1>1, <1>12, OpCancels DEF HandleCancels, PostsCancel
<1>13. ASSUME NEW kinds, AsioCancels(o, kinds) PROVE ObjectInv' /\ OpInv'
  BY <1>1, <1>13, OpCancels DEF AsioCancels
<1>14. ASSUME NEW class \in PostedCancel, NEW kinds, RunsCancel(o, class, kinds)
       PROVE  ObjectInv' /\ OpInv'
  BY <1>1, <1>14, OpCancels DEF RunsCancel
<1>15. QED
  BY <1>4, <1>5, <1>6, <1>7, <1>8, <1>9, <1>10, <1>11, <1>12, <1>13, <1>14

\* The first try.
LEMMA StartSteps ==
  ASSUME ObjectInv, OpInv, NEW o \in Ops, UNCHANGED <<threadVars, setup>>,
         NEW class \in Asio \cup Qt \cup Dispatch, NEW kinds,
         NEW first \in {"new", "hop"}, NEW next \in {"arm", "hop"},
         first = "hop" \/ next = "hop" => class = "qt_future",
         Starts(o, class, kinds, first, next)
  PROVE  ObjectInv' /\ OpInv'
<1>1. op[o].class = class /\ op[o].at = first /\ op[o].at \notin Told /\ (first = "new" => op[o].at \in Open)
  BY DEF Starts, Is, Told, Open
<1>2. class = "qt_future" => class \notin Cancellable /\ class \notin PostedCancel
  BY DEF Cancellable, PostedCancel
<1>3. PostedCancel \subseteq Cancellable /\ PostedCancel = {"qt_cancellable", "dispatch_cancellable"}
  BY DEF PostedCancel, Cancellable
<1>4. CASE Available > 0
  <2>1. TakeOne /\ Took
    BY <1>4 DEF Starts, TryWait
  <2>2. ObjectInv'
    BY <1>4, <2>1, TakeAside
  <2>3. CASE class \in PostedCancel
    <3>1. Mark(o, "deliver", "leaked")
      BY <1>3, <1>4, <2>3 DEF Starts, TryWait
    <3>2. QED
      BY <1>1, <1>2, <1>3, <2>2, <2>3, <3>1, OpMarks
  <2>4. CASE class \notin PostedCancel
    <3>1. Invoke(o, "got") \/ OpGoto(o, "deliver")
      BY <1>3, <1>4, <2>4 DEF Starts, TryWait
    <3>2. /\ "got" \in Told /\ "deliver" \in OpLabels /\ "deliver" \notin Told /\ "deliver" \notin Open
          /\ Fate("deliver", op[o].class, op[o].cancel, op[o].promise)
      BY DEF Told, Open, OpLabels, Fate
    <3>3. ASSUME Invoke(o, "got") PROVE OpInv'
      BY <1>1, <2>4, <3>2, <3>3, OpTells
    <3>4. ASSUME OpGoto(o, "deliver") PROVE OpInv'
      BY <1>1, <2>4, <3>2, <3>4, OpGoes
    <3>5. QED
      BY <2>2, <3>1, <3>3, <3>4
  <2>5. QED
    BY <2>3, <2>4
<1>5. CASE ~(Available > 0)
  <2>1. OpGoto(o, next) /\ UNCHANGED objVars
    BY <1>5 DEF Starts, TryWait
  <2>2. /\ next \in OpLabels /\ next \notin Told /\ (next = "arm" => next \in Open)
        /\ Fate(next, op[o].class, op[o].cancel, op[o].promise)
    BY DEF OpLabels, Told, Open, Fate
  <2>3. /\ op[o].class \in Cancellable /\ next \in Open => op[o].at \in Open
        /\ op[o].class \in PostedCancel /\ next \notin Open => op[o].at \notin Open
    BY <1>1, <1>2, <2>2
  <2>4. QED
    BY <1>1, <2>1, <2>2, <2>3, ObjectStays, OpGoes
<1>6. QED
  BY <1>4, <1>5

\* The callbacks.
LEMMA CallbackSteps ==
  ASSUME ObjectInv, OpInv, NEW o \in Ops, UNCHANGED <<threadVars, setup>>,
         NEW classes, NEW kinds, NEW labels, NEW again, labels \subseteq {"ready", "aborted"},
         Callback(o, classes, kinds, labels, again)
  PROVE  ObjectInv' /\ OpInv'
<1>1. op[o].at \in {"ready", "aborted"} /\ UNCHANGED objVars
  BY DEF Callback
<1>2. op[o].at \in Open /\ op[o].at \notin Told
  BY <1>1 DEF Open, Told
<1>3. CASE Flagged(o)
  <2>1. Mark(o, "fail", again) /\ op[o].class \in Cancellable
    BY <1>3 DEF Callback, Flagged
  <2>2. QED
    BY <1>1, <1>2, <2>1, ObjectStays, OpMarks
<1>4. CASE ~Flagged(o)
  <2>1. OpGoto(o, "try")
    BY <1>4 DEF Callback
  <2>2. /\ "try" \in OpLabels /\ "try" \in Open /\ "try" \notin Told
        /\ Fate("try", op[o].class, op[o].cancel, op[o].promise)
    BY DEF OpLabels, InCallback, Open, Told, Fate
  <2>3. QED
    BY <1>1, <1>2, <2>1, <2>2, ObjectStays, OpGoes
<1>5. QED
  BY <1>3, <1>4

\* A step of an operation: its functions are those steps.
LEMMA OpStep ==
  ASSUME ObjectInv, OpInv, NEW o \in Ops, UNCHANGED <<threadVars, setup>>, OpNext(o)
  PROVE  ObjectInv' /\ OpInv'
<1>1. CASE \/ event_async_wait(o) \/ event_async_wait_cancellable(o) \/ event_async_wait_future(o)
           \/ semaphore_async_acquire(o) \/ semaphore_async_acquire_cancellable(o)
           \/ semaphore_async_acquire_future(o)
  BY <1>1, StartSteps DEF Asio, event_async_wait, event_async_wait_cancellable, event_async_wait_future,
       semaphore_async_acquire, semaphore_async_acquire_cancellable, semaphore_async_acquire_future
<1>2. CASE \/ event_qt_start(o) \/ event_qt_cancellable_start(o) \/ event_qt_async_wait_future(o)
           \/ semaphore_qt_start(o) \/ semaphore_qt_cancellable_start(o)
           \/ semaphore_qt_async_acquire_future(o)
  BY <1>2, StartSteps DEF Qt, event_qt_start, event_qt_cancellable_start, event_qt_async_wait_future,
       semaphore_qt_start, semaphore_qt_cancellable_start, semaphore_qt_async_acquire_future
<1>3. CASE \/ event_dispatch_start(o) \/ event_dispatch_cancellable_start(o)
           \/ event_dispatch_async_wait_future(o) \/ semaphore_dispatch_start(o)
           \/ semaphore_dispatch_cancellable_start(o) \/ semaphore_dispatch_async_acquire_future(o)
  BY <1>3, StartSteps DEF Dispatch, event_dispatch_start, event_dispatch_cancellable_start,
       event_dispatch_async_wait_future, semaphore_dispatch_start,
       semaphore_dispatch_cancellable_start, semaphore_dispatch_async_acquire_future
<1>4. CASE \/ event_op_complete(o) \/ event_cancellable_op_complete(o) \/ event_qt_on_notified(o)
           \/ event_qt_cancellable_on_notified(o) \/ event_dispatch_event(o)
           \/ event_dispatch_future_event(o) \/ event_dispatch_cancellable_event(o)
  BY <1>4, CallbackSteps DEF event_op_complete, event_cancellable_op_complete, event_qt_on_notified,
       event_qt_cancellable_on_notified, event_dispatch_event, event_dispatch_future_event,
       event_dispatch_cancellable_event
<1>5. CASE \/ semaphore_op_complete(o) \/ semaphore_cancellable_op_complete(o)
           \/ semaphore_qt_on_notified(o) \/ semaphore_qt_cancellable_on_notified(o)
           \/ semaphore_dispatch_event(o) \/ semaphore_dispatch_future_event(o)
           \/ semaphore_dispatch_cancellable_event(o)
  BY <1>5, CallbackSteps DEF semaphore_op_complete, semaphore_cancellable_op_complete,
       semaphore_qt_on_notified, semaphore_qt_cancellable_on_notified, semaphore_dispatch_event,
       semaphore_dispatch_future_event, semaphore_dispatch_cancellable_event
<1>6. CASE \/ event_start_wait(o) \/ semaphore_start_wait(o) \/ event_do_wait(o)
           \/ semaphore_do_wait(o) \/ fd_readable(o) \/ try_again(o) \/ deliver(o) \/ abandon(o)
           \/ qt_dup_fails(o) /\ UNCHANGED objVars
  BY <1>6, SharedSteps DEF event_start_wait, semaphore_start_wait, event_do_wait, semaphore_do_wait
<1>7. CASE \/ event_qt_arm_notifier(o) \/ event_qt_cancellable_arm_notifier(o)
           \/ event_dispatch_resume(o) \/ semaphore_qt_arm_notifier(o)
           \/ semaphore_qt_cancellable_arm_notifier(o) \/ semaphore_dispatch_resume(o)
  BY <1>7, SharedSteps DEF event_qt_arm_notifier, event_qt_cancellable_arm_notifier,
       event_dispatch_resume, semaphore_qt_arm_notifier, semaphore_qt_cancellable_arm_notifier,
       semaphore_dispatch_resume
<1>8. CASE \/ event_wait_handle_cancel(o) \/ event_future_state_destroyed(o)
           \/ event_qt_handle_cancel(o) \/ event_dispatch_handle_cancel(o)
           \/ event_op_cancel(o) \/ event_qt_cancel(o) \/ event_qt_cancelled(o)
           \/ event_dispatch_cancel(o) \/ event_dispatch_cancel_handler(o)
  BY <1>8, SharedSteps DEF event_wait_handle_cancel, event_future_state_destroyed,
       event_qt_handle_cancel, event_dispatch_handle_cancel, event_op_cancel, event_qt_cancel,
       event_qt_cancelled, event_dispatch_cancel, event_dispatch_cancel_handler, PostedCancel
<1>9. CASE \/ semaphore_handle_cancel(o) \/ semaphore_future_state_destroyed(o)
           \/ semaphore_qt_handle_cancel(o) \/ semaphore_dispatch_handle_cancel(o)
           \/ semaphore_op_cancel(o) \/ semaphore_qt_cancel(o) \/ semaphore_qt_cancelled(o)
           \/ semaphore_dispatch_cancel(o) \/ semaphore_dispatch_cancel_handler(o)
  BY <1>9, SharedSteps DEF semaphore_handle_cancel, semaphore_future_state_destroyed,
       semaphore_qt_handle_cancel, semaphore_dispatch_handle_cancel, semaphore_op_cancel,
       semaphore_qt_cancel, semaphore_qt_cancelled, semaphore_dispatch_cancel,
       semaphore_dispatch_cancel_handler, PostedCancel
<1>10. QED
  BY <1>1, <1>2, <1>3, <1>4, <1>5, <1>6, <1>7, <1>8, <1>9
     DEF OpNext, OpStart, OpProgress, CancelProgress

-----------------------------------------------------------------------------
(* Only the events and semaphores that have a descriptor have operations.  *)
OpsFit == Kind \notin ManualEvents \cup AsyncSemaphores => \A o \in Ops : op[o].at = "new"

\* The others have none that could begin.
LEMMA NoneBegins ==
  ASSUME Kind \notin ManualEvents \cup AsyncSemaphores, NEW o \in Ops, op[o].at = "new"
  PROVE  ~OpNext(o)
<1> USE DEF Kind
<1>1. ~OpStart(o) /\ ~event_qt_start(o) /\ ~semaphore_qt_start(o)
  BY DEF Starts, OpStart, event_async_wait, event_async_wait_cancellable, event_async_wait_future,
       event_qt_start, event_qt_cancellable_start, event_qt_async_wait_future, event_dispatch_start,
       event_dispatch_cancellable_start, event_dispatch_async_wait_future,
       semaphore_async_acquire, semaphore_async_acquire_cancellable, semaphore_async_acquire_future,
       semaphore_qt_start, semaphore_qt_cancellable_start, semaphore_qt_async_acquire_future,
       semaphore_dispatch_start, semaphore_dispatch_cancellable_start,
       semaphore_dispatch_async_acquire_future
<1>2. ~OpProgress(o)
  BY DEF OpProgress, Arm, Callback, FutureCallback, event_start_wait, event_op_complete,
       event_cancellable_op_complete, event_do_wait, event_qt_arm_notifier,
       event_qt_cancellable_arm_notifier, event_qt_on_notified, event_qt_cancellable_on_notified,
       event_dispatch_resume, event_dispatch_event, event_dispatch_future_event,
       event_dispatch_cancellable_event, semaphore_start_wait, semaphore_op_complete,
       semaphore_cancellable_op_complete, semaphore_do_wait, semaphore_qt_arm_notifier,
       semaphore_qt_cancellable_arm_notifier, semaphore_qt_on_notified,
       semaphore_qt_cancellable_on_notified, semaphore_dispatch_resume, semaphore_dispatch_event,
       semaphore_dispatch_future_event, semaphore_dispatch_cancellable_event,
       fd_readable, try_again, deliver, invoke_success, invoke_error, abandon
<1>3. ~CancelProgress(o)
  BY DEF CancelProgress, AsioCancels, PostsCancel, RunsCancel, event_op_cancel, event_qt_cancel,
       event_qt_cancelled, event_dispatch_cancel, event_dispatch_cancel_handler,
       semaphore_op_cancel, semaphore_qt_cancel, semaphore_qt_cancelled, semaphore_dispatch_cancel,
       semaphore_dispatch_cancel_handler
<1>4. ~(\/ event_wait_handle_cancel(o) \/ event_future_state_destroyed(o)
        \/ event_qt_handle_cancel(o) \/ event_dispatch_handle_cancel(o)
        \/ semaphore_handle_cancel(o) \/ semaphore_future_state_destroyed(o)
        \/ semaphore_qt_handle_cancel(o) \/ semaphore_dispatch_handle_cancel(o)
        \/ qt_dup_fails(o))
  BY DEF HandleCancels, event_wait_handle_cancel, event_future_state_destroyed,
       event_qt_handle_cancel, event_dispatch_handle_cancel, semaphore_handle_cancel,
       semaphore_future_state_destroyed, semaphore_qt_handle_cancel,
       semaphore_dispatch_handle_cancel, qt_dup_fails, Is
<1>5. QED
  BY <1>1, <1>2, <1>3, <1>4 DEF OpNext

-----------------------------------------------------------------------------
(* The theorems.                                                           *)
Inv == ObjectInv /\ OpInv /\ OpsFit

\* At first nobody is in a call and there is no token.
LEMMA AtFirst ==
  ASSUME AsyncInit
  PROVE  Inv
<1>1. /\ setup \in Setups /\ count = 0 /\ event = 0 /\ waiters = 0 /\ owed = 0
      /\ left = [t \in Threads |-> 0] /\ call = [t \in Threads |-> "wait"]
      /\ pc = [t \in Threads |-> "idle"]
  BY DEF AsyncInit, Init
<1>2. TypeOK
  BY <1>1 DEF TypeOK, Labels, Calls
<1>3. LabelsFit
  BY <1>1 DEF LabelsFit, Fits
<1>4. CountersFit
  <2>1. InSlot = {}
    BY <1>1 DEF InSlot, Slot
  <2>2. QED
    BY <1>1, <2>1, FS_EmptySet DEF CountersFit
<1>5. TokensFit
  <2>1. CounterTokens /\ AutoTokens /\ ClaimTokens
    BY <1>1 DEF CounterTokens, AutoTokens, ClaimTokens
  <2>2. ManualTokens
    BY <1>1 DEF ManualTokens
  <2>3. OsTokens
    <3>1. ASSUME NEW p \in Posts PROVE FALSE
      <4>1. p[1] \in Threads /\ p[2] \in 1 .. left[p[1]]
        BY <3>1 DEF Posts
      <4>2. left[p[1]] = 0
        BY <1>1, <4>1
      <4>3. QED
        BY <4>1, <4>2
    <3>2. Posts = {}
      BY <3>1
    <3>3. IsFiniteSet(Posts) /\ Cardinality(Posts) = 0
      BY <3>2, FS_EmptySet
    <3>4. QED
      BY <1>1, <3>3 DEF OsTokens
  <2>4. QED
    BY <2>1, <2>2, <2>3 DEF TokensFit
<1>6. ASSUME NEW o \in Ops
      PROVE  /\ op[o] \in OpType
             /\ op[o].at = "new" /\ op[o].calls = 0 /\ op[o].marked = FALSE /\ op[o].promise # "gone"
  <2>1. PICK class : class = IF o \in DOMAIN setup.ops THEN setup.ops[o] ELSE "none"
    OBVIOUS
  <2>2. class \in Classes
    BY <1>1, <2>1, WaitParameters DEF Classes
  <2>3. PICK q \in {"closure", "shared"} :
          op[o] = [class |-> class, at |-> "new", cancel |-> "none", marked |-> FALSE, calls |-> 0,
                   promise |-> q, late |-> FALSE]
    BY <2>1 DEF AsyncInit, OpInit
  <2>4. QED
    BY <2>2, <2>3 DEF OpType, OpLabels
<1>7. op \in [Ops -> OpType]
  <2>1. op = [o \in Ops |-> op[o]]
    BY DEF AsyncInit, OpInit
  <2>2. QED
    BY <1>6, <2>1
<1>8. ASSUME NEW o \in Ops PROVE OpFits(o)
  BY <1>6 DEF OpFits, Open, Told, Fate
<1>9. OpsFit
  BY <1>6 DEF OpsFit
<1>10. QED
  BY <1>2, <1>3, <1>4, <1>5, <1>7, <1>8, <1>9 DEF Inv, ObjectInv, OpInv

\* Every step of threads and operations keeps the invariant.
LEMMA EveryStep ==
  ASSUME Inv, [AsyncNext]_allVars
  PROVE  Inv'
<1>1. ObjectInv /\ OpInv /\ OpsFit
  BY DEF Inv
<1>2. CASE Next /\ UNCHANGED op /\ UNCHANGED setup
  <2>1. ObjectInv'
    BY <1>1, <1>2, ThreadStep
  <2>2. OpInv' /\ OpsFit'
    BY <1>1, <1>2 DEF OpInv, OpFits, Fate, OpsFit, Kind
  <2>3. QED
    BY <2>1, <2>2 DEF Inv
<1>3. CASE UNCHANGED threadVars /\ UNCHANGED setup /\ \E o \in Ops : OpNext(o)
  <2>1. ObjectInv' /\ OpInv'
    BY <1>1, <1>3, OpStep
  <2>2. Kind \in ManualEvents \cup AsyncSemaphores
    BY <1>1, <1>3, NoneBegins DEF OpsFit
  <2>3. OpsFit'
    BY <1>3, <2>2 DEF OpsFit, Kind
  <2>4. QED
    BY <2>1, <2>3 DEF Inv
<1>4. CASE UNCHANGED allVars
  <2>1. UNCHANGED <<objVars, threadVars, setup>> /\ op' = op
    BY <1>4 DEF allVars, objVars
  <2>2. ObjectInv'
    BY <1>1, <2>1, ObjectStays
  <2>3. OpInv' /\ OpsFit'
    BY <1>1, <2>1 DEF OpInv, OpFits, Fate, OpsFit, Kind
  <2>4. QED
    BY <2>2, <2>3 DEF Inv
<1>5. QED
  BY <1>2, <1>3, <1>4 DEF AsyncNext

\* The inductive invariant of native events, semaphores and operations.
THEOREM WaitInvariant == AsyncSpec => []Inv
<1>1. AsyncInit => Inv
  BY AtFirst
<1>2. Inv /\ [AsyncNext]_allVars => Inv'
  BY EveryStep
<1>3. QED
  BY <1>1, <1>2, PTL DEF AsyncSpec

\* Nobody sleeps while a token is there and nobody is about to take it or to
\* trigger: not with the coalescing triggers of a kqueue, nor with signals
\* that send none.
THEOREM SleeperIsWoken == AsyncSpec => []NoStrandedSleeper
<1>1. ASSUME Inv PROVE NoStrandedSleeper
  <2>1. TypeOK /\ LabelsFit /\ TokensFit /\ op \in [Ops -> OpType]
    BY <1>1 DEF Inv, ObjectInv, OpInv
  <2> DEFINE Busy == {"posting", "notify", "write", "trigger", "look", "lastTry", "chain",
                     "chainCount", "chainTrigger", "renotify"}
  <2>2. ASSUME Dependable, owed > 0, event <= 0, Kind \notin ManualEvents,
               Sleepers \cup ArmedOps # {}
        PROVE  \E t \in Threads : pc[t] \in Busy
    <3>1. count \in Int /\ event \in Int /\ owed \in Int
      BY <2>1 DEF TypeOK
    <3>2. ~(Kind \in {"eventfd_semaphore", "auto_eventfd"})
      BY <2>1, <2>2, <3>1 DEF TokensFit, CounterTokens
    <3>3. CASE Kind \in OsSemaphores
      <4>1. IsFiniteSet(Posts) /\ event + Cardinality(Posts) = owed
        BY <2>1, <3>3 DEF TokensFit, OsTokens
      <4>2. Posts # {}
        BY <2>2, <3>1, <4>1, FS_EmptySet
      <4>3. PICK p \in Posts : TRUE
        BY <4>2
      <4>4. p[1] \in Threads /\ p[2] \in 1 .. left[p[1]]
        BY <4>3 DEF Posts
      <4>5. left[p[1]] \in Nat /\ left[p[1]] # 0
        BY <2>1, <4>4 DEF TypeOK
      <4>6. pc[p[1]] \in {"posting", "notify"}
        BY <1>1, <4>4, <4>5 DEF Inv, ObjectInv, CountersFit
      <4>7. QED
        BY <4>4, <4>6
    <3>4. CASE Kind = "kqueue_semaphore"
      BY <2>1, <2>2, <3>4 DEF TokensFit, ClaimTokens, Sending
    <3>5. CASE Kind = "auto_kqueue"
      <4>1. ArmedOps = {}
        BY <1>1, <3>5 DEF ArmedOps, Inv, OpsFit, ManualEvents, AsyncSemaphores
      <4>2. PICK t \in Threads : pc[t] \in {"poll", "claimed"}
        BY <2>2, <4>1 DEF Sleepers
      <4>3. pc[t] = "poll"
        BY <2>1, <3>5, <4>2 DEF LabelsFit, Fits
      <4>4. count > 0 /\ Polling
        BY <2>1, <2>2, <3>1, <3>5, <4>3 DEF TokensFit, AutoTokens, Polling
      <4>5. Waking
        BY <2>1, <2>2, <3>5, <4>4 DEF TokensFit, AutoTokens
      <4>6. QED
        BY <4>5 DEF Waking, WakingLabels
    <3>6. QED
      BY <2>1, <2>2, <3>2, <3>3, <3>4, <3>5, Kinds
  <2>3. QED
    BY <2>1, <2>2 DEF NoStrandedSleeper, Kind
<1>2. QED
  BY <1>1, WaitInvariant, PTL

\* A signal of the manual event that no reset overlapped or followed is seen.
THEOREM SignalIsSeen == AsyncSpec => []SetIsSeen
<1>1. ASSUME Inv PROVE SetIsSeen
  BY <1>1 DEF Inv, ObjectInv, TokensFit, ManualTokens, SetIsSeen, Kind
<1>2. QED
  BY <1>1, WaitInvariant, PTL

\* The handler is called once, although callback and cancel() race for it; an
\* operation that ends without a result is one of Qt without a descriptor or
\* the future of Asio, cancelled or without its promise, and only the latter
\* takes a token for nobody.
THEOREM CalledOnce == AsyncSpec => []HandlerOnce
<1>1. ASSUME Inv PROVE HandlerOnce
  <2>1. SUFFICES ASSUME NEW o \in Ops
                 PROVE  /\ op[o].calls <= 1
                        /\ op[o].at \in {"got", "done"} => op[o].calls = 1
                        /\ op[o].at = "dropped" => Excused(o)
                        /\ op[o].at = "leaked" => op[o].class = "asio_future" /\ op[o].promise = "gone"
    BY DEF HandlerOnce
  <2>2. OpFits(o)
    BY <1>1 DEF Inv, OpInv
  <2>3. QED
    BY <2>2 DEF OpFits, Told, Fate, Excused, Uncancelled
<1>2. QED
  BY <1>1, WaitInvariant, PTL

\* No token is taken twice or before it is given: kqueue_semaphore is the only
\* semaphore that hands out more than it was given, and no auto-reset event does.
THEOREM NoTokenTwice == AsyncSpec => []NoOvergrant
<1>1. ASSUME Inv PROVE NoOvergrant
  <2>1. TypeOK /\ TokensFit
    BY <1>1 DEF Inv, ObjectInv
  <2>2. Kind \in OsSemaphores => owed >= 0
    BY <2>1, FS_CardinalityType DEF TypeOK, TokensFit, OsTokens
  <2>3. Kind \in {"eventfd_semaphore", "auto_eventfd", "auto_kqueue"} => owed >= 0
    BY <2>1 DEF TypeOK, TokensFit, CounterTokens, AutoTokens
  <2>4. QED
    BY <2>2, <2>3 DEF NoOvergrant, Kind, Semaphores, AutoEvents
<1>2. QED
  BY <1>1, WaitInvariant, PTL

===============================================================================
