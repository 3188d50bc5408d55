-------------------------- MODULE AsyncAcquireProofs --------------------------
(***************************************************************************)
(* Proofs, for any finite sets of threads and of asynchronous operations,  *)
(* of the safety properties of the native mutexes and of asynchronous      *)
(* acquisition, and of their refinement of AbstractMutex.                  *)
(*                                                                         *)
(* A step of a thread or of an operation has one of five effects on the    *)
(* lock (Effect): none, it registers or unregisters, it acquires, it       *)
(* releases.  LockFits follows from the effects alone; which labels an     *)
(* operation can be at in which phase of its cancellation is OpFits.       *)
(***************************************************************************)
EXTENDS AsyncAcquire, FiniteSetTheorems, TLAPS

Actors == Threads \cup Ops
Holding == Owners \cup OpOwners
Registered == Waiters \cup OpWaiters

WaiterLabels == {"look", "poll", "drain", "lastTry", "leave", "leaveOwning"}
OwnerOpLabels == {"deliver", "consume", "unregister", "recheck", "undo", "got", "throws", "leaked"}
WaiterOpLabels == {"arm", "armed", "ready", "aborted", "try", "consume", "unregister", "release",
                   "abandon", "unarmed", "failGuarded"}
FastLabels == {"spin", "register", "drain", "took", "leave", "leaveOwning", "post"}

(* LockIsExact in terms of who is inside.                                  *)
LockFits ==
  /\ Fast => \/ Holding = {} /\ state = 2 * Cardinality(Registered)
             \/ (\E x \in Actors : Holding = {x}) /\ state = 2 * Cardinality(Registered) + 1
  /\ ~Fast => \/ Holding = {} /\ event = 1
              \/ (\E x \in Actors : Holding = {x}) /\ event = 0

(* Without a word there is nothing to register with and no timer.          *)
ThreadsFit ==
  ~Fast => ~timer /\ \A t \in Threads : pc[t] \notin FastLabels /\ call[t] # "untilSystem"

(* The operations whose result callback and cancel() compete for; before   *)
(* their result is decided they are unmarked.                              *)
Contested == {"qt_cancellable", "dispatch_cancellable"}
Starting == {"new", "hop", "construct", "arm"}
Undecided == {"new", "construct", "arm", "armed", "ready", "unarmed"} \cup InCallback
Uncancelled == {"none", "held"}

(* Where an operation that has not called the handler will not do so.      *)
Ending == {"abandon", "throws", "post", "dropped"}

OpFits(o) ==
  /\ op[o].class \in Contested =>
       /\ op[o].marked <=> op[o].at \notin Undecided
       /\ op[o].at \in Starting => op[o].cancel = "none"
  /\ op[o].at \in {"undo", "undoPost"} => op[o].class \in Contested
  /\ op[o].at # "leaked"
  /\ op[o].calls \in {0, 1}
  /\ op[o].at \in {"got", "done"} => op[o].calls = 1
  /\ op[o].at \notin {"got", "done", "abandon", "post"} => op[o].calls = 0
  /\ op[o].at = "aborted" => op[o].cancel \notin Uncancelled
  /\ op[o].at \in Ending /\ op[o].calls = 0 => Excused(o)
  /\ ~Fast => op[o].at \notin {"consume", "unregister", "undoPost", "post"}

(* Whoever waits and is owed a wakeup is registered; whoever will look at  *)
(* the word again without being woken is awake.                            *)
Owed == (\E t \in Threads : pc[t] = "poll") \/ (\E o \in OpWaiters : ~op[o].late)
Awake ==
  \/ \E t \in Threads : pc[t] \in {"post", "look", "drain", "lastTry"}
  \/ \E o \in Ops : op[o].at \in {"post", "undoPost", "try"}
WakeFits == Fast /\ Holding = {} /\ event = 0 /\ Owed => Awake

Inv ==
  /\ Undisturbed
  /\ TypeOK /\ op \in [Ops -> OpType]
  /\ LockFits /\ ThreadsFit /\ WakeFits
  /\ \A o \in Ops : OpFits(o)

-----------------------------------------------------------------------------
(* What a step can do to the lock.                                         *)
QuietEffect ==
  /\ Holding' = Holding
  /\ Fast => Registered' = Registered /\ state' = state
  /\ ~Fast => event' = event

RegisterEffect(x) ==
  /\ Fast /\ Holding' = Holding
  /\ x \notin Registered /\ Registered' = Registered \cup {x} /\ state' = state + 2

UnregisterEffect(x) ==
  /\ Fast /\ Holding' = Holding
  /\ x \in Registered /\ Registered' = Registered \ {x} /\ state' = state - 2

AcquireEffect(x) ==
  /\ Holding = {} /\ Holding' = {x}
  /\ Fast => \/ Registered' = Registered /\ state' = state + 1
             \/ x \in Registered /\ Registered' = Registered \ {x} /\ state' = state - 1
  /\ ~Fast => event' = 0

ReleaseEffect(x) ==
  /\ Holding = {x} /\ Holding' = {}
  /\ Fast => Registered' = Registered /\ state' = state - 1
  /\ ~Fast => event' = 1

Effect(x) ==
  \/ QuietEffect \/ RegisterEffect(x) \/ UnregisterEffect(x) \/ AcquireEffect(x) \/ ReleaseEffect(x)

\* The registered are finitely many.
LEMMA RegisteredFinite ==
  /\ IsFiniteSet(Registered) /\ Cardinality(Registered) \in Nat
  /\ Cardinality(Registered) = 0 <=> Registered = {}
<1>1. Registered \subseteq Threads \cup Ops
  BY DEF Registered, Waiters, OpWaiters
<1>2. IsFiniteSet(Threads \cup Ops)
  BY NativeMutexParameters, AsyncParameters, FS_Union
<1>3. QED
  BY <1>1, <1>2, FS_Subset, FS_CardinalityType, FS_EmptySet

\* One more and one less.
LEMMA CountOne ==
  ASSUME NEW S, IsFiniteSet(S), NEW x
  PROVE  /\ Cardinality(S) \in Nat
         /\ x \notin S => Cardinality(S \cup {x}) = Cardinality(S) + 1
         /\ x \in S => Cardinality(S \ {x}) \in Nat /\ Cardinality(S) = Cardinality(S \ {x}) + 1
<1>1. Cardinality(S) \in Nat
  BY FS_CardinalityType
<1>2. x \notin S => Cardinality(S \cup {x}) = Cardinality(S) + 1
  BY FS_AddElement
<1>3. ASSUME x \in S
      PROVE  Cardinality(S \ {x}) \in Nat /\ Cardinality(S) = Cardinality(S \ {x}) + 1
  <2>1. IsFiniteSet(S \ {x}) /\ Cardinality(S \ {x}) = Cardinality(S) - 1
    BY <1>3, FS_RemoveElement
  <2>2. Cardinality(S \ {x}) \in Nat
    BY <2>1, FS_CardinalityType
  <2>3. QED
    BY <1>1, <2>1, <2>2
<1>4. QED
  BY <1>1, <1>2, <1>3

\* The word tells whether the lock is held, by the last bit.
LEMMA WordTells ==
  ASSUME Inv
  PROVE  /\ Fast => (Locked(state) <=> Holding # {})
         /\ Fast /\ Holding # {} => state >= 1 /\ (state > 1 <=> Registered # {})
         /\ Fast /\ Registered # {} => state >= 2
         /\ ~Fast => (event > 0 <=> Holding = {}) /\ event \in {0, 1}
         /\ Free <=> Holding = {}
<1>1. PICK n \in Nat : n = Cardinality(Registered)
  BY RegisteredFinite
<1>2. /\ Fast => \/ Holding = {} /\ state = 2 * n
                 \/ Holding # {} /\ state = 2 * n + 1
      /\ ~Fast => \/ Holding = {} /\ event = 1
                  \/ Holding # {} /\ event = 0
  BY <1>1 DEF Inv, LockFits
<1>3. n = 0 <=> Registered = {}
  BY <1>1, RegisteredFinite
<1>4. (2 * n) % 2 = 0 /\ (2 * n + 1) % 2 = 1
  OBVIOUS
<1>5. Fast => (Locked(state) <=> Holding # {})
  BY <1>2, <1>4 DEF Locked
<1>6. Fast /\ Holding # {} => state >= 1 /\ (state > 1 <=> Registered # {})
  BY <1>2, <1>3
<1>7. Fast /\ Registered # {} => state >= 2
  BY <1>2, <1>3
<1>8. ~Fast => (event > 0 <=> Holding = {}) /\ event \in {0, 1}
  BY <1>2
<1>9. QED
  BY <1>5, <1>6, <1>7, <1>8 DEF Free

\* The effects keep the lock exact.
LEMMA EffectKeeps ==
  ASSUME Inv, NEW x \in Actors, setup' = setup, Effect(x)
  PROVE  LockFits' /\ (Fast => state' \in Nat)
<1>1. PICK n \in Nat : n = Cardinality(Registered)
  BY RegisteredFinite
<1>2. /\ Fast => \/ Holding = {} /\ state = 2 * n
                 \/ (\E y \in Actors : Holding = {y}) /\ state = 2 * n + 1
      /\ ~Fast => \/ Holding = {} /\ event = 1
                  \/ (\E y \in Actors : Holding = {y}) /\ event = 0
  BY <1>1 DEF Inv, LockFits
<1>3. Fast' = Fast /\ IsFiniteSet(Registered)
  BY RegisteredFinite DEF Fast
<1>4. CASE QuietEffect
  BY <1>1, <1>2, <1>3, <1>4 DEF QuietEffect, LockFits, Actors
<1>5. CASE RegisterEffect(x)
  <2>1. Cardinality(Registered') = n + 1 /\ Fast /\ Holding' = Holding /\ state' = state + 2
    BY <1>1, <1>3, <1>5, CountOne DEF RegisterEffect
  <2>2. QED
    BY <1>2, <1>3, <2>1 DEF LockFits, Actors
<1>6. CASE UnregisterEffect(x)
  <2>1. PICK m \in Nat : m = Cardinality(Registered')
    BY <1>3, <1>6, CountOne DEF UnregisterEffect
  <2>2. n = m + 1 /\ Fast /\ Holding' = Holding /\ state' = state - 2
    BY <1>1, <1>3, <1>6, <2>1, CountOne DEF UnregisterEffect
  <2>3. \/ Holding = {} /\ state' = 2 * m
        \/ (\E y \in Actors : Holding = {y}) /\ state' = 2 * m + 1
    BY <1>2, <2>2
  <2>4. QED
    BY <1>3, <2>1, <2>2, <2>3 DEF LockFits, Actors
<1>7. CASE AcquireEffect(x)
  <2>1. Holding = {} /\ Holding' = {x}
    BY <1>7 DEF AcquireEffect
  <2>2. CASE ~Fast
    BY <1>3, <1>7, <2>1, <2>2 DEF AcquireEffect, LockFits, Actors
  <2>3. CASE Fast /\ Registered' = Registered /\ state' = state + 1
    BY <1>1, <1>2, <1>3, <2>1, <2>3 DEF LockFits, Actors
  <2>4. CASE Fast /\ x \in Registered /\ Registered' = Registered \ {x} /\ state' = state - 1
    <3>1. PICK m \in Nat : m = Cardinality(Registered')
      BY <1>3, <2>4, CountOne
    <3>2. n = m + 1
      BY <1>1, <1>3, <2>4, <3>1, CountOne
    <3>3. state' = 2 * m + 1
      BY <1>2, <2>1, <2>4, <3>2
    <3>4. QED
      BY <1>3, <2>1, <2>4, <3>1, <3>3 DEF LockFits, Actors
  <2>5. QED
    BY <1>7, <2>2, <2>3, <2>4 DEF AcquireEffect
<1>8. CASE ReleaseEffect(x)
  BY <1>1, <1>2, <1>3, <1>8 DEF ReleaseEffect, LockFits, Actors
<1>9. QED
  BY <1>4, <1>5, <1>6, <1>7, <1>8 DEF Effect

-----------------------------------------------------------------------------
(* The step of one actor.                                                  *)
Waiting == {t \in Threads : pc[t] \in Blocking}
AbstractVars == <<Holding, Waiting>>
AwakeLabels == {"post", "look", "drain", "lastTry"}
AwakeOpLabels == {"post", "undoPost", "try"}

\* Threads are not operations; who owns and who is registered, by label.
LEMMA ByLabel ==
  /\ \A t \in Threads : t \notin Ops
  /\ \A t \in Threads : /\ t \in Holding <=> pc[t] \in Owning
                        /\ Fast => (t \in Registered <=> pc[t] \in WaiterLabels)
  /\ \A o \in Ops : /\ o \in Holding <=> op[o].at \in OwnerOpLabels
                    /\ o \in Registered <=> op[o].at \in WaiterOpLabels
<1>1. \A t \in Threads : t \notin Ops
  BY AsyncParameters
<1>2. QED
  BY <1>1 DEF Holding, Registered, Owners, OpOwners, Waiters, OpWaiters, WaiterLabels,
              OwnerOpLabels, WaiterOpLabels

\* What the step of a thread to another label does to the sets.
LEMMA ThreadSets ==
  ASSUME TypeOK, NEW t \in Threads, NEW b, pc' = [pc EXCEPT ![t] = b], op' = op, setup' = setup
  PROVE  /\ b \in Owning => Holding' = Holding \cup {t}
         /\ b \notin Owning => Holding' = Holding \ {t}
         /\ Fast /\ b \in WaiterLabels => Registered' = Registered \cup {t}
         /\ Fast /\ b \notin WaiterLabels => Registered' = Registered \ {t}
         /\ b \in Blocking => Waiting' = Waiting \cup {t}
         /\ b \notin Blocking => Waiting' = Waiting \ {t}
<1>1. t \notin Ops /\ Fast' = Fast
  BY AsyncParameters DEF Fast
<1>2. OpOwners' = OpOwners /\ OpWaiters' = OpWaiters /\ t \notin OpOwners /\ t \notin OpWaiters
  BY <1>1 DEF OpOwners, OpWaiters
<1>3. /\ b \in Owning => Owners' = Owners \cup {t}
      /\ b \notin Owning => Owners' = Owners \ {t}
  BY DEF Owners, TypeOK
<1>4. /\ Fast /\ b \in WaiterLabels => Waiters' = Waiters \cup {t}
      /\ Fast /\ b \notin WaiterLabels => Waiters' = Waiters \ {t}
  BY <1>1 DEF Waiters, TypeOK, WaiterLabels
<1>5. /\ b \in Blocking => Waiting' = Waiting \cup {t}
      /\ b \notin Blocking => Waiting' = Waiting \ {t}
  BY DEF Waiting, TypeOK
<1>6. QED
  BY <1>2, <1>3, <1>4, <1>5 DEF Holding, Registered

\* The same for an operation.
LEMMA OpSets ==
  ASSUME Inv, NEW o \in Ops, pc' = pc, setup' = setup,
         \A p \in Ops : p # o => op'[p] = op[p]
  PROVE  /\ op'[o].at \in OwnerOpLabels => Holding' = Holding \cup {o}
         /\ op'[o].at \notin OwnerOpLabels => Holding' = Holding \ {o}
         /\ op'[o].at \in WaiterOpLabels => Registered' = Registered \cup {o}
         /\ op'[o].at \notin WaiterOpLabels => Registered' = Registered \ {o}
         /\ Waiting' = Waiting
<1>1. o \notin Threads /\ Fast' = Fast
  BY AsyncParameters DEF Fast
<1>2. Owners' = Owners /\ Waiters' = Waiters /\ Waiting' = Waiting /\ o \notin Owners /\ o \notin Waiters
  BY <1>1 DEF Owners, Waiters, Waiting
<1>3. /\ op'[o].at \in OwnerOpLabels => OpOwners' = OpOwners \cup {o}
      /\ op'[o].at \notin OwnerOpLabels => OpOwners' = OpOwners \ {o}
  BY DEF OpOwners, OwnerOpLabels
<1>4. /\ op'[o].at \in WaiterOpLabels => OpWaiters' = OpWaiters \cup {o}
      /\ op'[o].at \notin WaiterOpLabels => OpWaiters' = OpWaiters \ {o}
  BY DEF OpWaiters, WaiterOpLabels
<1>5. QED
  BY <1>2, <1>3, <1>4 DEF Holding, Registered

\* An actor whose step has an effect takes a step of the abstract mutex.
LEMMA EffectRefines ==
  ASSUME NEW x \in Actors, Effect(x),
         \/ Waiting' = Waiting \cup {x} /\ x \notin Holding'
         \/ Waiting' = Waiting \ {x},
         ReleaseEffect(x) => Waiting' = Waiting
  PROVE  [Abstract!ANext]_AbstractVars
<1> USE DEF Actors
<1>1. CASE Holding' = Holding
  <2>1. CASE Waiting' = Waiting
    BY <1>1, <2>1 DEF AbstractVars
  <2>2. CASE Waiting' # Waiting /\ x \in Waiting'
    <3>1. Abstract!ARequest(x)
      BY <1>1, <2>2 DEF Abstract!ARequest, Holding, Waiting
    <3>2. QED
      BY <3>1 DEF Abstract!ANext
  <2>3. CASE Waiting' # Waiting /\ x \notin Waiting'
    <3>1. Abstract!AGiveUp(x)
      BY <1>1, <2>3 DEF Abstract!AGiveUp, Holding, Waiting
    <3>2. QED
      BY <3>1 DEF Abstract!ANext
  <2>4. QED
    BY <2>1, <2>2, <2>3
<1>2. CASE AcquireEffect(x)
  <2>1. Abstract!AAcquire(x)
    BY <1>2 DEF AcquireEffect, Abstract!AAcquire, Holding, Waiting
  <2>2. QED
    BY <2>1 DEF Abstract!ANext
<1>3. CASE ReleaseEffect(x)
  <2>1. Abstract!ARelease(x)
    BY <1>3 DEF ReleaseEffect, Abstract!ARelease, Holding, Waiting
  <2>2. QED
    BY <2>1 DEF Abstract!ANext
<1>4. QED
  BY <1>1, <1>2, <1>3 DEF Effect, QuietEffect, RegisterEffect, UnregisterEffect

(* A step of a thread loses no wakeup: the lock is held afterwards, a      *)
(* token is there, the thread is awake, nobody else is concerned, or there *)
(* is nobody to wake.                                                      *)
ThreadWake(t, b) ==
  \/ Holding' # {} \/ event' > 0 \/ b \in AwakeLabels \/ Registered' = {}
  \/ event' = event /\ Holding' = Holding /\ pc[t] \notin AwakeLabels /\ b # "poll"

OpWake(o) ==
  \/ Holding' # {} \/ event' > 0 \/ op'[o].at \in AwakeOpLabels \/ Registered' = {}
  \/ /\ event' = event /\ Holding' = Holding /\ op[o].at \notin AwakeOpLabels
     /\ op'[o].at \in WaiterOpLabels /\ ~op'[o].late =>
          op[o].at \in WaiterOpLabels /\ ~op[o].late

\* Who is owed a wakeup is registered.
LEMMA OwedAreRegistered == Fast /\ Owed => Registered # {}
  BY ByLabel DEF Owed, OpWaiters, WaiterLabels, WaiterOpLabels

\* What a step of a thread has to show.
LEMMA ThreadStep ==
  ASSUME Inv, NEW t \in Threads, NEW b \in Labels, pc' = [pc EXCEPT ![t] = b],
         UNCHANGED <<op, setup>>,
         NEW c \in Calls, call' = [call EXCEPT ![t] = c],
         timer' \in BOOLEAN, event' \in 0 .. MaxTokens,
         Effect(t), ReleaseEffect(t) => b \notin Blocking,
         ~Fast => state' \in Nat /\ ~timer' /\ b \notin FastLabels /\ c # "untilSystem",
         Fast => ThreadWake(t, b)
  PROVE  Inv' /\ [Abstract!ANext]_AbstractVars
<1>1. TypeOK /\ Fast' = Fast /\ t \in Actors
  BY DEF Inv, Fast, Actors
<1>2. LockFits' /\ state' \in Nat
  BY <1>1, EffectKeeps
<1>3. TypeOK'
  BY <1>1, <1>2 DEF TypeOK
<1>4. ThreadsFit'
  BY <1>1 DEF Inv, ThreadsFit, TypeOK
<1>5. (\A o \in Ops : OpFits(o))' /\ (op \in [Ops -> OpType])'
  BY <1>1 DEF Inv, OpFits, Excused
<1>6. WakeFits'
  <2> SUFFICES ASSUME Fast, Holding' = {}, event' = 0, Owed' PROVE Awake'
    BY <1>1 DEF WakeFits
  <2>1. Registered' # {}
    <3>1. (Fast /\ Owed => Registered # {})'
      BY OwedAreRegistered, PTL
    <3>2. QED
      BY <1>1, <3>1
  <2>2. CASE b \in AwakeLabels
    BY <1>1, <2>2 DEF Awake, AwakeLabels, TypeOK
  <2>3. CASE event' = event /\ Holding' = Holding /\ pc[t] \notin AwakeLabels /\ b # "poll"
    <3>1. Owed
      BY <1>1, <2>3 DEF Owed, OpWaiters, TypeOK
    <3>2. Awake
      BY <2>3, <3>1 DEF Inv, WakeFits
    <3>3. QED
      BY <1>1, <2>3, <3>2 DEF Awake, AwakeLabels, TypeOK
  <2>4. QED
    BY <2>1, <2>2, <2>3 DEF ThreadWake
<1>7. [Abstract!ANext]_AbstractVars
  <2>1. Waiting' = Waiting \cup {t} \/ Waiting' = Waiting \ {t}
    BY <1>1, ThreadSets
  <2>2. b \in Blocking => t \notin Holding' /\ Waiting' = Waiting \cup {t}
    BY <1>1, ThreadSets DEF Blocking, Owning
  <2>3. b \notin Blocking => Waiting' = Waiting \ {t}
    BY <1>1, ThreadSets
  <2>4. ReleaseEffect(t) => Waiting' = Waiting
    <3>1. ReleaseEffect(t) => pc[t] \in Owning
      BY ByLabel DEF ReleaseEffect
    <3>2. ReleaseEffect(t) => t \notin Waiting
      BY <3>1 DEF Waiting, Owning, Blocking
    <3>3. QED
      BY <2>3, <3>2
  <2>5. QED
    BY <1>1, <2>2, <2>3, <2>4, EffectRefines
<1>8. Undisturbed'
  BY DEF Inv, Undisturbed
<1>9. QED
  BY <1>2, <1>3, <1>4, <1>5, <1>6, <1>7, <1>8 DEF Inv

\* What a step of an operation has to show; it may take the timer.
LEMMA OpStepTimer ==
  ASSUME Inv, NEW o \in Ops, UNCHANGED <<call, pc, setup>>, event' \in 0 .. MaxTokens,
         timer' \in BOOLEAN, ~Fast => ~timer',
         op' \in [Ops -> OpType], \A p \in Ops : p # o => op'[p] = op[p], OpFits(o)',
         Effect(o), ~Fast => state' \in Nat,
         Fast => OpWake(o)
  PROVE  Inv' /\ [Abstract!ANext]_AbstractVars
<1>1. TypeOK /\ Fast' = Fast /\ o \in Actors
  BY DEF Inv, Fast, Actors
<1>2. LockFits' /\ state' \in Nat
  BY <1>1, EffectKeeps
<1>3. TypeOK'
  BY <1>1, <1>2 DEF TypeOK
<1>4. ThreadsFit'
  BY <1>1 DEF Inv, ThreadsFit
<1>5. ASSUME NEW p \in Ops PROVE OpFits(p)'
  BY <1>1 DEF Inv, OpFits, Excused
<1>6. WakeFits'
  <2> SUFFICES ASSUME Fast, Holding' = {}, event' = 0, Owed' PROVE Awake'
    BY <1>1 DEF WakeFits
  <2>1. Registered' # {}
    <3>1. (Fast /\ Owed => Registered # {})'
      BY OwedAreRegistered, PTL
    <3>2. QED
      BY <1>1, <3>1
  <2>2. CASE op'[o].at \in AwakeOpLabels
    BY <2>2 DEF Awake, AwakeOpLabels
  <2>3. CASE /\ event' = event /\ Holding' = Holding /\ op[o].at \notin AwakeOpLabels
             /\ op'[o].at \in WaiterOpLabels /\ ~op'[o].late =>
                  op[o].at \in WaiterOpLabels /\ ~op[o].late
    <3>1. Owed
      BY <2>3 DEF Owed, OpWaiters, WaiterOpLabels
    <3>2. Awake
      BY <2>3, <3>1 DEF Inv, WakeFits
    <3>3. QED
      BY <2>3, <3>2 DEF Awake, AwakeOpLabels
  <2>4. QED
    BY <2>1, <2>2, <2>3 DEF OpWake
<1>7. [Abstract!ANext]_AbstractVars
  <2>1. Waiting' = Waiting /\ o \notin Waiting
    BY ByLabel DEF Waiting
  <2>2. QED
    BY <1>1, <2>1, EffectRefines
<1>8. Undisturbed'
  BY DEF Inv, Undisturbed
<1>9. QED
  BY <1>2, <1>3, <1>4, <1>5, <1>6, <1>7, <1>8 DEF Inv

\* The same for the steps that leave the timer alone.
LEMMA OpStep ==
  ASSUME Inv, NEW o \in Ops, UNCHANGED <<timer, call, pc, setup>>, event' \in 0 .. MaxTokens,
         op' \in [Ops -> OpType], \A p \in Ops : p # o => op'[p] = op[p], OpFits(o)',
         Effect(o), ~Fast => state' \in Nat,
         Fast => OpWake(o)
  PROVE  Inv' /\ [Abstract!ANext]_AbstractVars
<1>1. timer' \in BOOLEAN /\ (~Fast => ~timer')
  BY DEF Inv, TypeOK, ThreadsFit
<1>2. QED
  BY <1>1, OpStepTimer

-----------------------------------------------------------------------------
(* The threads.                                                            *)

\* The system calls leave the event in its range.
LEMMA SystemCalls ==
  ASSUME TypeOK
  PROVE  /\ WriteOne => event' \in 0 .. MaxTokens /\ event' > 0
         /\ ReadOne => event' \in 0 .. MaxTokens
         /\ event \in {0, 1} /\ ReadOne => event' = 0
         /\ event = 0 /\ WriteOne => event' = 1
<1>1. event \in Nat /\ event <= MaxTokens /\ MaxTokens \in Nat /\ MaxTokens >= 1
  BY NativeMutexParameters DEF TypeOK
<1>2. WriteOne => event' \in 0 .. MaxTokens /\ event' > 0
  BY <1>1 DEF WriteOne
<1>3. ReadOne => event' \in 0 .. MaxTokens
  BY <1>1 DEF ReadOne
<1>4. event \in {0, 1} /\ ReadOne => event' = 0
  BY <1>1 DEF ReadOne
<1>5. event = 0 /\ WriteOne => event' = 1
  BY <1>1 DEF WriteOne
<1>6. QED
  BY <1>2, <1>3, <1>4, <1>5

\* What the move of a thread does, by the labels it comes from and goes to.
LEMMA ThreadLabels ==
  ASSUME Inv, NEW t \in Threads, NEW b, pc' = [pc EXCEPT ![t] = b], op' = op, setup' = setup
  PROVE  /\ (pc[t] \in Owning <=> b \in Owning) => Holding' = Holding
         /\ pc[t] \in Owning => Holding = {t}
         /\ pc[t] \in Owning /\ b \notin Owning => Holding' = {}
         /\ Holding = {} /\ b \in Owning => Holding' = {t}
         /\ Fast => /\ (pc[t] \in WaiterLabels <=> b \in WaiterLabels) => Registered' = Registered
                    /\ pc[t] \notin WaiterLabels /\ b \in WaiterLabels =>
                         t \notin Registered /\ Registered' = Registered \cup {t}
                    /\ pc[t] \in WaiterLabels /\ b \notin WaiterLabels =>
                         t \in Registered /\ Registered' = Registered \ {t}
<1>1. TypeOK
  BY DEF Inv
<1>2. pc[t] \in Owning => Holding = {t}
  <2>1. Holding = {} \/ \E x \in Actors : Holding = {x}
    BY DEF Inv, LockFits
  <2>2. QED
    BY <2>1, ByLabel
<1>3. t \in Holding <=> pc[t] \in Owning
  BY ByLabel
<1>4. (b \in Owning => Holding' = Holding \cup {t}) /\ (b \notin Owning => Holding' = Holding \ {t})
  BY <1>1, ThreadSets
<1>5. /\ (pc[t] \in Owning <=> b \in Owning) => Holding' = Holding
      /\ pc[t] \in Owning /\ b \notin Owning => Holding' = {}
      /\ Holding = {} /\ b \in Owning => Holding' = {t}
  BY <1>2, <1>3, <1>4
<1>6. ASSUME Fast
      PROVE  /\ (pc[t] \in WaiterLabels <=> b \in WaiterLabels) => Registered' = Registered
             /\ pc[t] \notin WaiterLabels /\ b \in WaiterLabels =>
                  t \notin Registered /\ Registered' = Registered \cup {t}
             /\ pc[t] \in WaiterLabels /\ b \notin WaiterLabels =>
                  t \in Registered /\ Registered' = Registered \ {t}
  <2>1. t \in Registered <=> pc[t] \in WaiterLabels
    BY <1>6, ByLabel
  <2>2. /\ b \in WaiterLabels => Registered' = Registered \cup {t}
        /\ b \notin WaiterLabels => Registered' = Registered \ {t}
    BY <1>1, <1>6, ThreadSets
  <2>3. QED
    BY <2>1, <2>2
<1>7. QED
  BY <1>2, <1>5, <1>6

\* The call after a step is one of the calls.
LEMMA CallKept ==
  ASSUME Inv, NEW t \in Threads, NEW b, Goto(t, b)
  PROVE  /\ pc' = [pc EXCEPT ![t] = b]
         /\ \E c \in Calls : call' = [call EXCEPT ![t] = c] /\ (~Fast => c # "untilSystem")
<1>1. call[t] \in Calls /\ (~Fast => call[t] # "untilSystem") /\ "lock" \in Calls
  BY DEF Inv, TypeOK, ThreadsFit, Calls
<1>2. QED
  BY <1>1 DEF Goto, Enter

\* A thread takes the free lock with one exchange or one read.
LEMMA ThreadTakes ==
  ASSUME Inv, NEW t \in Threads, NEW b \in {"cs", "leaveOwning"}, Free, Take, Goto(t, b),
         UNCHANGED <<timer, op, setup>>, pc[t] \notin Owning,
         Fast => (pc[t] \in WaiterLabels <=> b \in WaiterLabels), ~Fast => b = "cs"
  PROVE  Inv' /\ [Abstract!ANext]_AbstractVars
<1>1. PICK c \in Calls : call' = [call EXCEPT ![t] = c] /\ (~Fast => c # "untilSystem")
  BY CallKept
<1>2. pc' = [pc EXCEPT ![t] = b] /\ b \in Owning /\ b \in Labels /\ b \notin Blocking
  BY CallKept DEF Owning, Labels, Blocking
<1>3. Holding = {} /\ Holding' = {t} /\ TypeOK
  BY <1>2, ThreadLabels, WordTells DEF Inv
<1>4. CASE Fast
  <2>1. Registered' = Registered /\ state' = state + 1 /\ event' = event
    BY <1>2, <1>4, ThreadLabels DEF Take, TakeWord
  <2>2. AcquireEffect(t)
    BY <1>3, <1>4, <2>1 DEF AcquireEffect
  <2>3. ThreadWake(t, b)
    BY <1>3 DEF ThreadWake
  <2>4. event' \in 0 .. MaxTokens /\ timer' \in BOOLEAN
    BY <1>3, <2>1 DEF TypeOK
  <2>5. QED
    BY <1>1, <1>2, <1>4, <2>2, <2>3, <2>4, ThreadStep DEF Effect
<1>5. CASE ~Fast
  <2>1. ReadOne /\ state' = state /\ event \in {0, 1}
    BY <1>5, WordTells DEF Take
  <2>2. event' = 0 /\ event' \in 0 .. MaxTokens /\ state' \in Nat /\ timer' \in BOOLEAN /\ ~timer'
    BY <1>3, <1>5, <2>1, SystemCalls DEF TypeOK, Inv, ThreadsFit
  <2>3. AcquireEffect(t)
    BY <1>3, <1>5, <2>2 DEF AcquireEffect
  <2>4. b \notin FastLabels
    BY <1>5 DEF FastLabels
  <2>5. QED
    BY <1>1, <1>2, <1>5, <2>2, <2>3, <2>4, ThreadStep DEF Effect
<1>6. QED
  BY <1>4, <1>5

\* A thread goes on without a change of the lock: it is or is not the owner
\* before and after, and is or is not registered.
LEMMA ThreadGoesOn ==
  ASSUME Inv, NEW t \in Threads, NEW b \in Labels, pc' = [pc EXCEPT ![t] = b],
         NEW c \in Calls, call' = [call EXCEPT ![t] = c], ~Fast => c # "untilSystem",
         UNCHANGED <<state, op, setup>>, timer' \in BOOLEAN, ~Fast => ~timer',
         event' \in 0 .. MaxTokens, ~Fast => event' = event /\ b \notin FastLabels,
         pc[t] \in Owning <=> b \in Owning,
         Fast => (pc[t] \in WaiterLabels <=> b \in WaiterLabels),
         Fast => ThreadWake(t, b)
  PROVE  Inv' /\ [Abstract!ANext]_AbstractVars
<1>1. Holding' = Holding /\ (Fast => Registered' = Registered)
  BY ThreadLabels
<1>2. QuietEffect /\ state' \in Nat
  BY <1>1 DEF QuietEffect, Inv, TypeOK
<1>3. ~ReleaseEffect(t)
  BY <1>1 DEF ReleaseEffect
<1>4. QED
  BY <1>2, <1>3, ThreadStep DEF Effect

\* A thread begins a call.
LEMMA RequestKeeps ==
  ASSUME Inv, NEW t \in Threads, Request(t), UNCHANGED <<op, setup>>
  PROVE  Inv' /\ [Abstract!ANext]_AbstractVars
<1>0. TypeOK /\ timer \in BOOLEAN /\ state \in Nat /\ event \in 0 .. MaxTokens /\ (~Fast => ~timer) /\ Undisturbed
  BY DEF Inv, TypeOK, ThreadsFit
<1>1. CASE try_lock(t)
  BY <1>1, ThreadTakes DEF try_lock, At, Owning, WaiterLabels
<1>2. CASE \/ lock(t) \/ fast_eventfd_try_lock_for(t) \/ fast_eventfd_try_lock_until(t)
           \/ fast_kqueue_try_lock_for(t) \/ fast_kqueue_try_lock_until(t)
  <2>1. PICK c, b : /\ c \in Calls /\ b \in {"spin", "register"} /\ Fast
                    /\ Enter(t, c, b) /\ pc[t] = "idle" /\ UNCHANGED <<state, event, timer>>
    BY <1>2 DEF lock, fast_eventfd_try_lock_for, fast_eventfd_try_lock_until,
                fast_kqueue_try_lock_for, fast_kqueue_try_lock_until, Timed, Until, Calls, Fast, At
  <2>2. pc' = [pc EXCEPT ![t] = b] /\ call' = [call EXCEPT ![t] = c] /\ b \in Labels
    BY <2>1 DEF Enter, Labels
  <2>3. /\ pc[t] \in Owning <=> b \in Owning
        /\ pc[t] \in WaiterLabels <=> b \in WaiterLabels
        /\ pc[t] \notin AwakeLabels /\ b # "poll"
    BY <2>1 DEF Owning, WaiterLabels, AwakeLabels
  <2>4. ThreadWake(t, b)
    BY <2>1, <2>2, <2>3, ThreadLabels DEF ThreadWake
  <2>5. QED
    BY <1>0, <2>1, <2>2, <2>3, <2>4, ThreadGoesOn
<1>3. CASE \/ simple_eventfd_lock(t) \/ simple_kqueue_lock(t)
           \/ simple_eventfd_try_lock_for(t) \/ simple_eventfd_try_lock_until(t)
           \/ simple_kqueue_try_lock_for(t) \/ simple_kqueue_try_lock_until(t)
  <2>1. PICK c, b : /\ c \in Calls /\ c # "untilSystem" /\ b \in {"look", "poll"} /\ ~Fast
                    /\ Enter(t, c, b) /\ pc[t] = "idle"
                    /\ timer' = timer \/ timer' = (timer \/ c = "untilSystem")
                    /\ UNCHANGED <<state, event>>
    BY <1>0, <1>3
       DEF simple_eventfd_lock, simple_kqueue_lock, simple_eventfd_try_lock_for,
           simple_eventfd_try_lock_until, simple_kqueue_try_lock_for,
           simple_kqueue_try_lock_until, Timed, Until, Wait, Calls, Fast, At, Undisturbed,
           wordVars
  <2>2. /\ pc' = [pc EXCEPT ![t] = b] /\ call' = [call EXCEPT ![t] = c] /\ b \in Labels
        /\ timer' \in BOOLEAN /\ ~timer'
    BY <1>0, <2>1 DEF Enter, Labels
  <2>3. /\ pc[t] \in Owning <=> b \in Owning
        /\ b \notin FastLabels
    BY <2>1 DEF Owning, FastLabels
  <2>4. QED
    BY <1>0, <2>1, <2>2, <2>3, ThreadGoesOn
<1>4. QED
  BY <1>1, <1>2, <1>3 DEF Request

\* A thread spins, registers, looks and waits.
LEMMA WaitKeeps ==
  ASSUME Inv, NEW t \in Threads, UNCHANGED <<op, setup>>, spin(t) \/ add_async_waiter(t) \/ look(t)
  PROVE  Inv' /\ [Abstract!ANext]_AbstractVars
<1>0. /\ TypeOK /\ timer \in BOOLEAN /\ state \in Nat /\ event \in 0 .. MaxTokens
      /\ ~Fast => ~timer /\ call[t] # "untilSystem" /\ pc[t] \notin FastLabels
      /\ call[t] \in Calls
  BY DEF Inv, TypeOK, ThreadsFit
<1>1. CASE spin(t)
  <2>1. Fast /\ pc[t] = "spin" /\ pc[t] \notin Owning /\ pc[t] \notin WaiterLabels /\ pc[t] \notin AwakeLabels
    BY <1>0, <1>1 DEF spin, At, FastLabels, Owning, WaiterLabels, AwakeLabels
  <2>2. CASE Free
    BY <1>1, <2>1, <2>2, ThreadTakes DEF spin, WaiterLabels
  <2>3. CASE ~Free
    <3>1. Goto(t, "register") /\ UNCHANGED <<state, event, timer>>
      BY <1>1, <2>3 DEF spin, wordVars
    <3>2. PICK c \in Calls : call' = [call EXCEPT ![t] = c]
      BY <3>1, CallKept
    <3>3. pc' = [pc EXCEPT ![t] = "register"] /\ Holding' # {}
      BY <2>1, <2>3, <3>1, CallKept, ThreadLabels, WordTells DEF Owning
    <3>4. QED
      BY <1>0, <2>1, <3>1, <3>2, <3>3, ThreadGoesOn DEF ThreadWake, Owning, WaiterLabels, Labels
  <2>4. QED
    BY <2>2, <2>3
<1>2. CASE add_async_waiter(t)
  <2>1. /\ Fast /\ pc[t] = "register" /\ pc[t] \notin Owning /\ pc[t] \notin WaiterLabels
        /\ state' = state + 2 /\ event' = event
    BY <1>0, <1>2 DEF add_async_waiter, At, FastLabels, Owning, WaiterLabels
  <2>2. PICK c \in Calls, b \in {"poll", "look"} :
             /\ pc' = [pc EXCEPT ![t] = b] /\ call' = [call EXCEPT ![t] = c] /\ timer' \in BOOLEAN
             /\ b = "poll" => Locked(state)
    <3>1. CASE Locked(state)
      BY <1>0, <1>2, <3>1 DEF add_async_waiter, Wait, Enter
    <3>2. CASE ~Locked(state)
      BY <1>0, <1>2, <3>2, CallKept DEF add_async_waiter
    <3>3. QED
      BY <3>1, <3>2
  <2>3. b \notin Owning /\ b \in WaiterLabels /\ b \in Labels /\ (b # "poll" => b \in AwakeLabels)
    BY DEF Owning, WaiterLabels, Labels, AwakeLabels
  <2>4. RegisterEffect(t)
    BY <2>1, <2>2, <2>3, ThreadLabels DEF RegisterEffect
  <2>5. ThreadWake(t, b)
    <3>1. b = "poll" => Holding # {}
      BY <2>1, <2>2, WordTells
    <3>2. QED
      BY <2>3, <2>4, <3>1 DEF ThreadWake, RegisterEffect
  <2>6. ~ReleaseEffect(t)
    BY <2>4 DEF ReleaseEffect, RegisterEffect
  <2>7. QED
    BY <1>0, <2>1, <2>2, <2>3, <2>4, <2>5, <2>6, ThreadStep DEF Effect
<1>3. CASE look(t)
  <2>1. pc[t] = "look" /\ pc[t] \notin Owning /\ pc[t] \in WaiterLabels
    BY <1>3 DEF look, At, Owning, WaiterLabels
  <2>2. CASE Fast /\ TakeRegistered /\ Goto(t, "took") /\ UNCHANGED timer
    <3>1. PICK c \in Calls : call' = [call EXCEPT ![t] = c]
      BY <2>2, CallKept
    <3>2. pc' = [pc EXCEPT ![t] = "took"]
      BY <2>2, CallKept
    <3>3. Holding = {} /\ Holding' = {t} /\ t \in Registered /\ Registered' = Registered \ {t}
      <4>1. Holding = {}
        BY <2>2, WordTells DEF TakeRegistered
      <4>2. "took" \in Owning /\ "took" \notin WaiterLabels
        BY DEF Owning, WaiterLabels
      <4>3. QED
        BY <2>1, <2>2, <3>2, <4>1, <4>2, ThreadLabels
    <3>4. state' = state - 1 /\ event' = event
      BY <1>0, <2>2 DEF TakeRegistered
    <3>5. AcquireEffect(t) /\ ThreadWake(t, "took") /\ ~ReleaseEffect(t)
      BY <2>2, <3>3, <3>4 DEF AcquireEffect, ThreadWake, ReleaseEffect
    <3>6. "took" \in Labels /\ event' \in 0 .. MaxTokens /\ timer' \in BOOLEAN /\ Effect(t)
      BY <1>0, <2>2, <3>4, <3>5 DEF Labels, Effect
    <3>7. QED
      BY <2>2, <3>1, <3>2, <3>5, <3>6, ThreadStep
  <2>3. CASE ~Fast /\ Free /\ Take /\ Goto(t, "cs") /\ UNCHANGED timer
    BY <2>1, <2>3, ThreadTakes
  <2>4. CASE ~Free /\ Wait(t, call[t]) /\ UNCHANGED wordVars
    <3>1. /\ pc' = [pc EXCEPT ![t] = "poll"] /\ call' = [call EXCEPT ![t] = call[t]]
          /\ state' = state /\ event' = event /\ timer' \in BOOLEAN
          /\ timer' = (timer \/ call[t] = "untilSystem")
      BY <1>0, <2>4 DEF Wait, Enter, wordVars
    <3>2. Holding' # {}
      <4>1. Holding # {}
        BY <2>4, WordTells
      <4>2. "poll" \notin Owning
        BY DEF Owning
      <4>3. QED
        BY <2>1, <3>1, <4>1, <4>2, ThreadLabels
    <3>3. ThreadWake(t, "poll") /\ "poll" \in WaiterLabels /\ "poll" \notin Owning /\ "poll" \in Labels
      BY <3>2 DEF ThreadWake, WaiterLabels, Owning, Labels
    <3>4. ~Fast => ~timer' /\ "poll" \notin FastLabels
      BY <1>0, <3>1 DEF FastLabels
    <3>5. event' \in 0 .. MaxTokens /\ (pc[t] \in Owning <=> "poll" \in Owning)
          /\ (pc[t] \in WaiterLabels <=> "poll" \in WaiterLabels)
      BY <1>0, <2>1, <3>1, <3>3
    <3>6. QED
      BY <1>0, <3>1, <3>3, <3>4, <3>5, ThreadGoesOn
  <2>5. QED
    BY <1>3, <2>2, <2>3, <2>4 DEF look
<1>4. QED
  BY <1>1, <1>2, <1>3

\* A thread returns from its wait, or consumes a token as the owner.
LEMMA WokenKeeps ==
  ASSUME Inv, NEW t \in Threads, UNCHANGED <<op, setup>>,
         \/ consume_lock(t) \/ fast_poll_returns(t) \/ simple_poll_returns(t) \/ kevent_returns(t)
         \/ kevent_interrupted(t) \/ timer_taken(t) \/ drain(t) \/ deadline_passes(t)
  PROVE  Inv' /\ [Abstract!ANext]_AbstractVars
<1>0. /\ TypeOK /\ timer \in BOOLEAN /\ state \in Nat /\ event \in 0 .. MaxTokens /\ Undisturbed
      /\ ~Fast => ~timer /\ call[t] # "untilSystem" /\ pc[t] \notin FastLabels
  BY DEF Inv, TypeOK, ThreadsFit
<1>1. ASSUME NEW b \in {"look", "drain", "lastTry", "leave"}, Fast, Goto(t, b),
             state' = state, event' \in 0 .. MaxTokens, timer' \in BOOLEAN,
             pc[t] \in {"poll", "drain"}, b = "leave" => event' = event /\ pc[t] = "poll"
      PROVE  Inv' /\ [Abstract!ANext]_AbstractVars
  <2>1. PICK c \in Calls : call' = [call EXCEPT ![t] = c]
    BY <1>1, CallKept
  <2>2. /\ pc' = [pc EXCEPT ![t] = b] /\ b \in Labels
        /\ b \notin Owning /\ pc[t] \notin Owning /\ b \in WaiterLabels /\ pc[t] \in WaiterLabels
    BY <1>1, CallKept DEF Labels, Owning, WaiterLabels
  <2>3. Holding' = Holding
    BY <2>2, ThreadLabels
  <2>4. ThreadWake(t, b)
    BY <1>1, <2>3 DEF ThreadWake, AwakeLabels
  <2>5. QED
    BY <1>1, <2>1, <2>2, <2>4, ThreadGoesOn
<1>2. CASE consume_lock(t)
  <2>1. /\ Fast /\ pc[t] = "took" /\ Goto(t, "cs") /\ state' = state /\ timer' \in BOOLEAN
        /\ event' \in 0 .. MaxTokens
    BY <1>0, <1>2, SystemCalls DEF consume_lock, ConsumeLock, At, FastLabels
  <2>2. PICK c \in Calls : call' = [call EXCEPT ![t] = c]
    BY <2>1, CallKept
  <2>3. /\ pc' = [pc EXCEPT ![t] = "cs"] /\ "cs" \in Labels
        /\ pc[t] \in Owning /\ "cs" \in Owning /\ pc[t] \notin WaiterLabels /\ "cs" \notin WaiterLabels
    BY <2>1, CallKept DEF Labels, Owning, WaiterLabels
  <2>4. ThreadWake(t, "cs")
    BY <2>3, ThreadLabels DEF ThreadWake
  <2>5. QED
    BY <1>0, <2>1, <2>2, <2>3, <2>4, ThreadGoesOn
<1>3. CASE fast_poll_returns(t)
  BY <1>0, <1>1, <1>3 DEF fast_poll_returns, At, Fast
<1>4. CASE simple_poll_returns(t)
  <2>1. /\ ~Fast /\ pc[t] = "poll" /\ Goto(t, "look") /\ UNCHANGED <<state, event, timer>>
    BY <1>4 DEF simple_poll_returns, At, Fast
  <2>2. PICK c \in Calls : call' = [call EXCEPT ![t] = c] /\ c # "untilSystem"
    BY <2>1, CallKept
  <2>3. /\ pc' = [pc EXCEPT ![t] = "look"] /\ "look" \in Labels
        /\ pc[t] \notin Owning /\ "look" \notin Owning /\ "look" \notin FastLabels
    BY <2>1, CallKept DEF Labels, Owning, FastLabels
  <2>4. QED
    BY <1>0, <2>1, <2>2, <2>3, ThreadGoesOn
<1>5. CASE kevent_returns(t)
  <2>1. /\ pc[t] = "poll" /\ Kqueue /\ event > 0 /\ ReadOne /\ Goto(t, AfterKevent(t))
        /\ timer' = (timer /\ call[t] # "untilSystem") /\ state' = state
    BY <1>5 DEF kevent_returns, At
  <2>2. timer' \in BOOLEAN /\ event' \in 0 .. MaxTokens
    BY <1>0, <2>1, SystemCalls
  <2>3. CASE Fast
    <3>1. setup.kind # "simple_kqueue"
      BY <2>3 DEF Fast
    <3>2. CASE call[t] = "untilSystem"
      <4>1. AfterKevent(t) = "lastTry"
        BY <2>3, <3>1, <3>2 DEF AfterKevent
      <4>2. Goto(t, "lastTry")
        BY <2>1, <4>1
      <4>3. QED
        BY <1>1, <2>1, <2>2, <2>3, <4>2
    <3>3. CASE call[t] = "lock"
      <4>1. AfterKevent(t) = "look"
        BY <2>3, <3>1, <3>3 DEF AfterKevent
      <4>2. Goto(t, "look")
        BY <2>1, <4>1
      <4>3. QED
        BY <1>1, <2>1, <2>2, <2>3, <4>2
    <3>4. CASE call[t] \notin {"untilSystem", "lock"}
      <4>1. AfterKevent(t) = "drain"
        BY <2>3, <3>1, <3>4 DEF AfterKevent
      <4>2. Goto(t, "drain")
        BY <2>1, <4>1
      <4>3. QED
        BY <1>1, <2>1, <2>2, <2>3, <4>2
    <3>5. QED
      BY <3>2, <3>3, <3>4
  <2>4. CASE ~Fast
    <3>1. setup.kind = "simple_kqueue"
      BY <2>1, <2>4 DEF Fast, Kqueue
    <3>0. AfterKevent(t) = "cs"
      BY <2>4, <3>1 DEF AfterKevent
    <3>2. Goto(t, "cs") /\ timer' = timer /\ Free /\ Take /\ pc[t] \notin Owning
      BY <1>0, <2>1, <2>4, <3>0 DEF Free, Take, Owning
    <3>3. QED
      BY <2>4, <3>2, ThreadTakes
  <2>5. QED
    BY <2>3, <2>4
<1>6. CASE timer_taken(t)
  <2>0. Fast /\ setup.kind # "simple_kqueue"
    BY <1>0, <1>6 DEF timer_taken, Fast
  <2>1. /\ Fast /\ pc[t] = "poll" /\ timer' = FALSE /\ state' = state /\ event' = event
        /\ Goto(t, IF call[t] = "untilSystem" THEN "lastTry" ELSE AfterKevent(t))
    BY <1>6, <2>0 DEF timer_taken, At, wordVars
  <2>2. PICK b \in {"look", "drain", "lastTry"} :
             b = IF call[t] = "untilSystem" THEN "lastTry" ELSE AfterKevent(t)
    BY <2>1 DEF AfterKevent, Fast
  <2>3. QED
    BY <1>0, <1>1, <2>1, <2>2
<1>7. CASE drain(t)
  <2>1. /\ Fast /\ pc[t] = "drain" /\ Goto(t, "look") /\ state' = state /\ timer' \in BOOLEAN
        /\ event' \in 0 .. MaxTokens
    BY <1>0, <1>7, SystemCalls DEF drain, ConsumeLock, At, FastLabels
  <2>2. QED
    BY <1>0, <1>1, <2>1
<1>8. CASE deadline_passes(t)
  <2>1. /\ pc[t] = "poll" /\ UNCHANGED <<state, event, timer>>
        /\ Goto(t, IF Fast /\ call[t] = "for" THEN "leave" ELSE "lastTry")
    BY <1>8 DEF deadline_passes, At
  <2>2. CASE Fast
    <3>1. PICK b \in {"leave", "lastTry"} : b = IF call[t] = "for" THEN "leave" ELSE "lastTry"
      OBVIOUS
    <3>2. Goto(t, b)
      BY <2>1, <2>2, <3>1
    <3>3. QED
      BY <1>0, <1>1, <2>1, <2>2, <3>2
  <2>3. CASE ~Fast
    <3>1. Goto(t, "lastTry")
      BY <2>1, <2>3
    <3>2. PICK c \in Calls : call' = [call EXCEPT ![t] = c] /\ c # "untilSystem"
      BY <2>3, <3>1, CallKept
    <3>3. /\ pc' = [pc EXCEPT ![t] = "lastTry"] /\ "lastTry" \in Labels
          /\ pc[t] \notin Owning /\ "lastTry" \notin Owning /\ "lastTry" \notin FastLabels
      BY <2>1, <3>1, CallKept DEF Labels, Owning, FastLabels
    <3>4. QED
      BY <1>0, <2>1, <2>3, <3>2, <3>3, ThreadGoesOn
  <2>4. QED
    BY <2>2, <2>3
<1>9. CASE kevent_interrupted(t)
  <2>1. Fast /\ setup.kind # "simple_kqueue"
    BY <1>0, <1>9 DEF kevent_interrupted, Kqueue, Fast, Undisturbed
  <2>2. AfterKevent(t) = "look"
    BY <1>9, <2>1 DEF kevent_interrupted, AfterKevent
  <2>3. pc[t] = "poll" /\ Goto(t, "look") /\ UNCHANGED <<state, event, timer>>
    BY <1>9, <2>2 DEF kevent_interrupted, At
  <2>4. QED
    BY <1>0, <1>1, <2>1, <2>3
<1>10. QED
  BY <1>2, <1>3, <1>4, <1>5, <1>6, <1>7, <1>8, <1>9

\* A timed call ends, the guard unregisters.
LEMMA EndKeeps ==
  ASSUME Inv, NEW t \in Threads, UNCHANGED <<op, setup>>, last_try(t) \/ remove_async_waiter(t)
  PROVE  Inv' /\ [Abstract!ANext]_AbstractVars
<1>0. /\ TypeOK /\ timer \in BOOLEAN /\ state \in Nat /\ event \in 0 .. MaxTokens
      /\ ~Fast => ~timer /\ call[t] # "untilSystem" /\ pc[t] \notin FastLabels
  BY DEF Inv, TypeOK, ThreadsFit
<1>1. CASE last_try(t)
  <2>1. pc[t] = "lastTry" /\ pc[t] \notin Owning /\ pc[t] \in WaiterLabels /\ timer' = timer
    BY <1>1 DEF last_try, At, Owning, WaiterLabels
  <2>2. CASE Free
    <3>1. Take /\ Goto(t, IF Fast THEN "leaveOwning" ELSE "cs")
      BY <1>1, <2>2 DEF last_try
    <3>2. "leaveOwning" \in WaiterLabels
      BY DEF WaiterLabels
    <3>3. CASE Fast
      <4>1. Goto(t, "leaveOwning")
        BY <3>1, <3>3
      <4>2. QED
        BY <2>1, <2>2, <3>1, <3>2, <3>3, <4>1, ThreadTakes
    <3>4. CASE ~Fast
      <4>1. Goto(t, "cs")
        BY <3>1, <3>4
      <4>2. QED
        BY <2>1, <2>2, <3>1, <3>4, <4>1, ThreadTakes
    <3>5. QED
      BY <3>3, <3>4
  <2>3. CASE ~Free
    <3>1. PICK b \in {"leave", "idle"} : b = IF Fast THEN "leave" ELSE "idle"
      OBVIOUS
    <3>2. Goto(t, b) /\ UNCHANGED <<state, event>>
      BY <1>1, <2>3, <3>1 DEF last_try, wordVars
    <3>3. PICK c \in Calls : call' = [call EXCEPT ![t] = c] /\ (~Fast => c # "untilSystem")
      BY <3>2, CallKept
    <3>4. /\ pc' = [pc EXCEPT ![t] = b] /\ b \in Labels /\ b \notin Owning
          /\ Fast => b \in WaiterLabels
          /\ ~Fast => b \notin FastLabels
      BY <3>1, <3>2, CallKept DEF Labels, Owning, WaiterLabels, FastLabels
    <3>5. ThreadWake(t, b)
      BY <2>1, <2>3, <3>4, ThreadLabels, WordTells DEF ThreadWake
    <3>6. QED
      BY <1>0, <2>1, <3>2, <3>3, <3>4, <3>5, ThreadGoesOn
  <2>4. QED
    BY <2>2, <2>3
<1>2. CASE remove_async_waiter(t)
  <2>1. PICK b \in {"idle", "cs"} : b = IF At(t, "leave") THEN "idle" ELSE "cs"
    OBVIOUS
  <2>2. /\ Fast /\ pc[t] \in WaiterLabels /\ pc[t] \in {"leave", "leaveOwning"}
        /\ state' = state - 2 /\ UNCHANGED <<event, timer>> /\ Goto(t, b)
    BY <1>0, <1>2, <2>1 DEF remove_async_waiter, FastLabels, WaiterLabels
  <2>3. PICK c \in Calls : call' = [call EXCEPT ![t] = c]
    BY <2>2, CallKept
  <2>4. /\ pc' = [pc EXCEPT ![t] = b] /\ b \in Labels /\ b \notin WaiterLabels /\ b \notin Blocking
        /\ (pc[t] \in Owning <=> b \in Owning) /\ pc[t] \notin AwakeLabels /\ b # "poll"
    BY <2>1, <2>2, CallKept DEF Labels, WaiterLabels, Owning, AwakeLabels, Blocking, At
  <2>5. UnregisterEffect(t)
    BY <2>2, <2>4, ThreadLabels DEF UnregisterEffect
  <2>6. ThreadWake(t, b)
    BY <2>2, <2>4, <2>5 DEF ThreadWake, UnregisterEffect
  <2>7. QED
    BY <1>0, <2>2, <2>3, <2>4, <2>5, <2>6, ThreadStep DEF Effect
<1>3. QED
  BY <1>1, <1>2

\* The owner unlocks and wakes.
LEMMA UnlockKeeps ==
  ASSUME Inv, NEW t \in Threads, UNCHANGED <<op, setup>>, unlock(t) \/ post(t)
  PROVE  Inv' /\ [Abstract!ANext]_AbstractVars
<1>0. /\ TypeOK /\ timer \in BOOLEAN /\ state \in Nat /\ event \in 0 .. MaxTokens
      /\ ~Fast => ~timer /\ call[t] # "untilSystem" /\ pc[t] \notin FastLabels
  BY DEF Inv, TypeOK, ThreadsFit
<1>1. CASE unlock(t)
  <2>1. PICK b \in {"post", "idle"} : b = IF Notifies THEN "post" ELSE "idle"
    OBVIOUS
  <2>2. pc[t] = "cs" /\ Goto(t, b) /\ Release /\ timer' = timer
    BY <1>1, <2>1 DEF unlock, At
  <2>3. PICK c \in Calls : call' = [call EXCEPT ![t] = c] /\ (~Fast => c # "untilSystem")
    BY <2>2, CallKept
  <2>4. /\ pc' = [pc EXCEPT ![t] = b] /\ b \in Labels /\ b \notin WaiterLabels /\ b \notin Blocking
        /\ pc[t] \notin WaiterLabels /\ pc[t] \in Owning /\ b \notin Owning
    BY <2>2, CallKept DEF Labels, WaiterLabels, Owning, Blocking
  <2>5. Holding = {t} /\ Holding' = {} /\ (Fast => Registered' = Registered)
    BY <2>4, ThreadLabels
  <2>6. CASE Fast
    <3>1. state' = state - 1 /\ event' = event
      BY <2>2, <2>6 DEF Release
    <3>2. ReleaseEffect(t)
      BY <2>5, <2>6, <3>1 DEF ReleaseEffect
    <3>3. ThreadWake(t, b)
      <4>1. CASE state > 1
        BY <2>1, <2>6, <4>1 DEF Notifies, ThreadWake, AwakeLabels
      <4>2. CASE ~(state > 1)
        BY <2>5, <2>6, <4>2, WordTells DEF ThreadWake
      <4>3. QED
        BY <4>1, <4>2
    <3>4. QED
      BY <1>0, <2>2, <2>3, <2>4, <2>6, <3>1, <3>2, <3>3, ThreadStep DEF Effect
  <2>7. CASE ~Fast
    <3>1. WriteOne /\ state' = state /\ b = "idle"
      BY <2>1, <2>2, <2>7 DEF Release, Notifies
    <3>2. event = 0
      BY <1>0, <2>5, <2>7, WordTells
    <3>3. event' = 1 /\ event' \in 0 .. MaxTokens
      BY <1>0, <3>1, <3>2, SystemCalls
    <3>4. ReleaseEffect(t) /\ b \notin FastLabels
      BY <2>5, <2>7, <3>1, <3>3 DEF ReleaseEffect, FastLabels
    <3>5. QED
      BY <1>0, <2>2, <2>3, <2>4, <2>7, <3>1, <3>3, <3>4, ThreadStep DEF Effect
  <2>8. QED
    BY <2>6, <2>7
<1>2. CASE post(t)
  <2>1. /\ Fast /\ pc[t] = "post" /\ Goto(t, "idle") /\ UNCHANGED <<state, timer>>
        /\ event' \in 0 .. MaxTokens /\ event' > 0
    BY <1>0, <1>2, SystemCalls DEF post, At, FastLabels
  <2>2. PICK c \in Calls : call' = [call EXCEPT ![t] = c]
    BY <2>1, CallKept
  <2>3. /\ pc' = [pc EXCEPT ![t] = "idle"] /\ "idle" \in Labels
        /\ pc[t] \notin Owning /\ "idle" \notin Owning
        /\ pc[t] \notin WaiterLabels /\ "idle" \notin WaiterLabels
    BY <2>1, CallKept DEF Labels, Owning, WaiterLabels
  <2>4. QED
    BY <1>0, <2>1, <2>2, <2>3, ThreadGoesOn DEF ThreadWake
<1>3. QED
  BY <1>1, <1>2

-----------------------------------------------------------------------------
(* The operations.                                                         *)

(* Operation o goes to b; m, k and l are marked, calls and late then.      *)
Becomes(o, b, m, k, l) ==
  /\ op' \in [Ops -> OpType]
  /\ \A p \in Ops : p # o => op'[p] = op[p]
  /\ op'[o].class = op[o].class /\ op'[o].at = b
  /\ op'[o].marked = m /\ op'[o].calls = k /\ op'[o].late = l
  /\ op[o].class \in Contested /\ b \in Starting => op'[o].cancel = op[o].cancel
  /\ op[o].cancel \notin Uncancelled => op'[o].cancel \notin Uncancelled
  /\ op[o].promise = "gone" => op'[o].promise = "gone"

(* What keeps OpFits.                                                      *)
Fitting(o, b, m, k) ==
  /\ op[o].class \in Contested => /\ m <=> b \notin Undecided
                                  /\ b \in Starting => op[o].at \in Starting
  /\ b \in {"undo", "undoPost"} => op[o].class \in Contested
  /\ b # "leaked"
  /\ k \in {0, 1}
  /\ b \in {"got", "done"} => k = 1
  /\ b \notin {"got", "done", "abandon", "post"} => k = 0
  /\ b = "aborted" => op[o].cancel \notin Uncancelled
  /\ b \in Ending /\ k = 0 => Excused(o)
  /\ ~Fast => b \notin {"consume", "unregister", "undoPost", "post"}

\* It does.
LEMMA FittingKeeps ==
  ASSUME Inv, NEW o \in Ops, NEW b, NEW m, NEW k, NEW l, setup' = setup,
         Becomes(o, b, m, k, l), Fitting(o, b, m, k)
  PROVE  OpFits(o)'
<1>1. OpFits(o) /\ Fast' = Fast
  BY DEF Inv, Fast
<1>2. /\ op'[o].class = op[o].class /\ op'[o].at = b /\ op'[o].marked = m /\ op'[o].calls = k
      /\ op[o].class \in Contested /\ b \in Starting => op'[o].cancel = op[o].cancel
  BY DEF Becomes
<1>3. op[o].class \in Contested =>
        /\ op'[o].marked <=> op'[o].at \notin Undecided
        /\ op'[o].at \in Starting => op'[o].cancel = "none"
  BY <1>1, <1>2 DEF OpFits, Fitting
<1>4. /\ b = "aborted" => op'[o].cancel \notin Uncancelled
      /\ Excused(o) => Excused(o)'
  BY <1>2 DEF Becomes, Fitting, Excused, Uncancelled
<1>5. QED
  BY <1>1, <1>2, <1>3, <1>4 DEF OpFits, Fitting

\* An update of the record of an operation.
LEMMA RecordUpdate ==
  ASSUME Inv, NEW o \in Ops, NEW r \in OpType, op' = [op EXCEPT ![o] = r],
         r.class = op[o].class,
         op[o].class \in Contested /\ r.at \in Starting => r.cancel = op[o].cancel,
         op[o].cancel \notin Uncancelled => r.cancel \notin Uncancelled,
         op[o].promise = "gone" => r.promise = "gone"
  PROVE  Becomes(o, r.at, r.marked, r.calls, r.late)
<1>1. op \in [Ops -> OpType]
  BY DEF Inv
<1>2. op'[o] = r /\ op' \in [Ops -> OpType] /\ \A p \in Ops : p # o => op'[p] = op[p]
  BY <1>1
<1>3. QED
  BY <1>2 DEF Becomes

\* The record of an operation, field by field.
LEMMA RecordFields ==
  ASSUME Inv, NEW o \in Ops
  PROVE  /\ op[o] \in OpType /\ op[o].class \in Classes /\ op[o].at \in OpLabels
         /\ op[o].cancel \in {"none", "held", "flagged", "posted", "over"}
         /\ op[o].marked \in BOOLEAN /\ op[o].calls \in 0 .. 2 /\ op[o].late \in BOOLEAN
         /\ op[o].promise \in {"shared", "closure", "handler", "gone"}
         /\ Handle(o) \in {"none", "held", "flagged", "posted", "over"}
         /\ op[o].cancel \notin Uncancelled => Handle(o) \notin Uncancelled
<1>1. op[o] \in OpType
  BY DEF Inv
<1>2. QED
  BY <1>1 DEF OpType, Handle, Uncancelled

\* The operation moves, with or without a call of the handler.
LEMMA GotoBecomes ==
  ASSUME Inv, NEW o \in Ops, NEW b \in OpLabels
  PROVE  /\ OpGoto(o, b) => Becomes(o, b, op[o].marked, op[o].calls, op[o].late)
         /\ Invoke(o, b) /\ op[o].calls = 0 => Becomes(o, b, op[o].marked, 1, op[o].late)
<1>1. ASSUME OpGoto(o, b) PROVE Becomes(o, b, op[o].marked, op[o].calls, op[o].late)
  <2> DEFINE r == [op[o] EXCEPT !.at = b]
  <2>1. /\ r \in OpType /\ r.class = op[o].class /\ r.at = b /\ r.cancel = op[o].cancel
        /\ r.promise = op[o].promise
        /\ r.marked = op[o].marked /\ r.calls = op[o].calls /\ r.late = op[o].late
    BY RecordFields DEF OpType
  <2>2. op' = [op EXCEPT ![o] = r]
    BY <1>1 DEF OpGoto
  <2> HIDE DEF r
  <2>3. QED
    BY <2>1, <2>2, RecordUpdate, RecordFields
<1>2. ASSUME Invoke(o, b), op[o].calls = 0 PROVE Becomes(o, b, op[o].marked, 1, op[o].late)
  <2> DEFINE r == [op[o] EXCEPT !.at = b, !.calls = 1]
  <2>0. op[o].calls + 1 = 1 /\ 1 \in 0 .. 2
    BY <1>2
  <2>1. /\ r \in OpType /\ r.class = op[o].class /\ r.at = b /\ r.cancel = op[o].cancel
        /\ r.promise = op[o].promise
        /\ r.marked = op[o].marked /\ r.calls = 1 /\ r.late = op[o].late
    BY <2>0, RecordFields DEF OpType
  <2>2. op' = [op EXCEPT ![o] = r]
    BY <1>2, <2>0 DEF Invoke
  <2> HIDE DEF r
  <2>3. QED
    BY <2>1, <2>2, RecordUpdate, RecordFields
<1>3. QED
  BY <1>1, <1>2

\* The caller gets the handle.
LEMMA StartedBecomes ==
  ASSUME Inv, NEW o \in Ops, NEW b \in OpLabels, b \notin Starting
  PROVE  /\ Started(o, b) => Becomes(o, b, op[o].marked, op[o].calls, op[o].late)
         /\ start_wait(o) => Becomes(o, "armed", op[o].marked, op[o].calls, op[o].late)
<1>1. Handle(o) \in {"none", "held", "flagged", "posted", "over"}
  BY RecordFields DEF Handle
<1>2. ASSUME Started(o, b) PROVE Becomes(o, b, op[o].marked, op[o].calls, op[o].late)
  <2> DEFINE r == [op[o] EXCEPT !.at = b, !.cancel = Handle(o)]
  <2>1. /\ r \in OpType /\ r.class = op[o].class /\ r.at = b
        /\ r.cancel = Handle(o) /\ r.promise = op[o].promise
        /\ r.marked = op[o].marked /\ r.calls = op[o].calls /\ r.late = op[o].late
    BY <1>1, RecordFields DEF OpType
  <2>2. op' = [op EXCEPT ![o] = r]
    BY <1>2 DEF Started
  <2> HIDE DEF r
  <2>3. QED
    BY <2>1, <2>2, RecordUpdate, RecordFields
<1>3. ASSUME start_wait(o) PROVE Becomes(o, "armed", op[o].marked, op[o].calls, op[o].late)
  <2>1. PICK q \in {"shared", "closure", "handler", "gone"} :
             /\ op' = [op EXCEPT ![o].at = "armed", ![o].cancel = Handle(o), ![o].promise = q]
             /\ op[o].promise = "gone" => q = "gone"
    <3>1. CASE op[o].class # "asio_future" \/ op[o].promise = "shared"
      BY <1>3, <3>1, RecordFields DEF start_wait
    <3>2. CASE op[o].class = "asio_future" /\ op[o].promise = "closure"
      BY <1>3, <3>2, RecordFields DEF start_wait
    <3>3. CASE op[o].class = "asio_future" /\ op[o].promise \notin {"shared", "closure"}
      BY <1>3, <3>3, RecordFields DEF start_wait
    <3>4. QED
      BY <3>1, <3>2, <3>3
  <2> DEFINE r == [op[o] EXCEPT !.at = "armed", !.cancel = Handle(o), !.promise = q]
  <2>2. "armed" \in OpLabels /\ "armed" \notin Starting
    BY DEF OpLabels, Starting
  <2>3. /\ r \in OpType /\ r.class = op[o].class /\ r.at = "armed"
        /\ r.cancel = Handle(o) /\ r.promise = q
        /\ r.marked = op[o].marked /\ r.calls = op[o].calls /\ r.late = op[o].late
    BY <1>1, <2>2, RecordFields DEF OpType
  <2>4. op' = [op EXCEPT ![o] = r]
    BY <2>1
  <2> HIDE DEF r
  <2>5. /\ op[o].cancel \notin Uncancelled => r.cancel \notin Uncancelled
        /\ op[o].promise = "gone" => r.promise = "gone"
    BY <2>1, <2>3, RecordFields
  <2>6. QED
    BY <2>2, <2>3, <2>4, <2>5, RecordUpdate
<1>4. QED
  BY <1>2, <1>3

\* The first to mark the operation decides its result.
LEMMA MarkBecomes ==
  ASSUME Inv, NEW o \in Ops, NEW first \in OpLabels, NEW again, first \notin Starting,
         op[o].class \in Contested, op[o].at \in Undecided, Mark(o, first, again)
  PROVE  \E m : m = TRUE /\ Becomes(o, first, m, op[o].calls, op[o].late)
<1>1. Handle(o) \in {"none", "held", "flagged", "posted", "over"}
  BY RecordFields DEF Handle
<1>2. ~op[o].marked
  BY DEF Inv, OpFits
<1> DEFINE r == [op[o] EXCEPT !.at = first, !.marked = TRUE, !.cancel = Handle(o)]
<1>3. /\ r \in OpType /\ r.class = op[o].class /\ r.at = first
      /\ r.cancel = Handle(o) /\ r.promise = op[o].promise
      /\ r.marked = TRUE /\ r.calls = op[o].calls /\ r.late = op[o].late
  BY <1>1, RecordFields DEF OpType
<1>4. op' = [op EXCEPT ![o] = r]
  BY <1>2 DEF Mark
<1> HIDE DEF r
<1>5. Becomes(o, first, TRUE, op[o].calls, op[o].late)
  BY <1>3, <1>4, RecordUpdate, RecordFields
<1>6. QED
  BY <1>5

\* What the move of an operation does, by the labels it comes from and goes to.
LEMMA OpMoves ==
  ASSUME Inv, NEW o \in Ops, NEW b, NEW m, NEW k, NEW l, Becomes(o, b, m, k, l),
         pc' = pc, setup' = setup
  PROVE  /\ (op[o].at \in OwnerOpLabels <=> b \in OwnerOpLabels) => Holding' = Holding
         /\ op[o].at \in OwnerOpLabels => Holding = {o}
         /\ op[o].at \in OwnerOpLabels /\ b \notin OwnerOpLabels => Holding' = {}
         /\ Holding = {} /\ b \in OwnerOpLabels => Holding' = {o}
         /\ (op[o].at \in WaiterOpLabels <=> b \in WaiterOpLabels) => Registered' = Registered
         /\ op[o].at \notin WaiterOpLabels /\ b \in WaiterOpLabels =>
              o \notin Registered /\ Registered' = Registered \cup {o}
         /\ op[o].at \in WaiterOpLabels /\ b \notin WaiterOpLabels =>
              o \in Registered /\ Registered' = Registered \ {o}
<1>1. op'[o].at = b /\ \A p \in Ops : p # o => op'[p] = op[p]
  BY DEF Becomes
<1>2. op[o].at \in OwnerOpLabels => Holding = {o}
  <2>1. Holding = {} \/ \E x \in Actors : Holding = {x}
    BY DEF Inv, LockFits
  <2>2. QED
    BY <2>1, ByLabel
<1>3. /\ o \in Holding <=> op[o].at \in OwnerOpLabels
      /\ o \in Registered <=> op[o].at \in WaiterOpLabels
  BY ByLabel
<1>4. /\ b \in OwnerOpLabels => Holding' = Holding \cup {o}
      /\ b \notin OwnerOpLabels => Holding' = Holding \ {o}
      /\ b \in WaiterOpLabels => Registered' = Registered \cup {o}
      /\ b \notin WaiterOpLabels => Registered' = Registered \ {o}
  BY <1>1, OpSets
<1>5. QED
  BY <1>2, <1>3, <1>4

\* An operation goes on without a change of the lock.
LEMMA OpGoesOn ==
  ASSUME Inv, NEW o \in Ops, NEW b, NEW m, NEW k, Becomes(o, b, m, k, op[o].late),
         Fitting(o, b, m, k),
         UNCHANGED <<timer, call, pc, setup, state>>, event' \in 0 .. MaxTokens,
         ~Fast => event' = event,
         op[o].at \in OwnerOpLabels <=> b \in OwnerOpLabels,
         Fast => (op[o].at \in WaiterOpLabels <=> b \in WaiterOpLabels),
         \/ b \in OwnerOpLabels \/ event' > 0 \/ b \in AwakeOpLabels \/ Holding # {}
         \/ event' = event /\ op[o].at \notin AwakeOpLabels
  PROVE  Inv' /\ [Abstract!ANext]_AbstractVars
<1>1. Holding' = Holding /\ (Fast => Registered' = Registered)
  BY OpMoves
<1>2. QuietEffect /\ state' \in Nat /\ OpFits(o)'
  BY <1>1, FittingKeeps DEF QuietEffect, Inv, TypeOK
<1>3. /\ op' \in [Ops -> OpType] /\ op'[o].at = b /\ op'[o].late = op[o].late
      /\ \A p \in Ops : p # o => op'[p] = op[p]
  BY DEF Becomes
<1>4. b \in OwnerOpLabels => Holding # {}
  BY OpMoves
<1>5. Fast => OpWake(o)
  BY <1>1, <1>3, <1>4 DEF OpWake
<1>6. QED
  BY <1>2, <1>3, <1>5, OpStep DEF Effect

\* An operation takes the free lock.
LEMMA OpTakes ==
  ASSUME Inv, NEW o \in Ops, NEW b, NEW m, NEW k, Becomes(o, b, m, k, op[o].late),
         Fitting(o, b, m, k), UNCHANGED <<timer, call, pc, setup>>, Free, Take,
         b \in OwnerOpLabels, Fast => (op[o].at \in WaiterOpLabels <=> b \in WaiterOpLabels)
  PROVE  Inv' /\ [Abstract!ANext]_AbstractVars
<1>1. TypeOK /\ state \in Nat /\ event \in 0 .. MaxTokens /\ OpFits(o)'
  BY FittingKeeps DEF Inv, TypeOK
<1>2. Holding = {} /\ Holding' = {o} /\ (Fast => Registered' = Registered)
  BY OpMoves, WordTells
<1>3. /\ Fast => state' = state + 1 /\ event' = event
      /\ ~Fast => ReadOne /\ state' = state
  BY DEF Take, TakeWord
<1>4. /\ event' \in 0 .. MaxTokens
      /\ ~Fast => event' = 0
  BY <1>1, <1>3, SystemCalls, WordTells
<1>5. AcquireEffect(o)
  BY <1>2, <1>3, <1>4 DEF AcquireEffect
<1>6. OpWake(o)
  BY <1>2 DEF OpWake
<1>7. op' \in [Ops -> OpType] /\ \A p \in Ops : p # o => op'[p] = op[p]
  BY DEF Becomes
<1>8. QED
  BY <1>1, <1>3, <1>4, <1>5, <1>6, <1>7, OpStep DEF Effect

\* An operation gives the lock back.
LEMMA OpReleases ==
  ASSUME Inv, NEW o \in Ops, NEW b, NEW m, NEW k, Becomes(o, b, m, k, op[o].late),
         Fitting(o, b, m, k), UNCHANGED <<timer, call, pc, setup>>, Release,
         op[o].at \in OwnerOpLabels, op[o].at \notin WaiterOpLabels,
         b \notin OwnerOpLabels, b \notin WaiterOpLabels, Notifies => b \in AwakeOpLabels
  PROVE  Inv' /\ [Abstract!ANext]_AbstractVars
<1>1. TypeOK /\ state \in Nat /\ event \in 0 .. MaxTokens /\ OpFits(o)'
  BY FittingKeeps DEF Inv, TypeOK
<1>2. Holding = {o} /\ Holding' = {} /\ Registered' = Registered
  BY OpMoves
<1>3. /\ Fast => state' = state - 1 /\ event' = event
      /\ ~Fast => WriteOne /\ state' = state
  BY DEF Release
<1>4. ~Fast => event = 0
  BY <1>1, <1>2, WordTells
<1>5. /\ event' \in 0 .. MaxTokens
      /\ ~Fast => event' = 1
  BY <1>1, <1>3, <1>4, SystemCalls
<1>6. ReleaseEffect(o)
  BY <1>2, <1>3, <1>5 DEF ReleaseEffect
<1>7. op' \in [Ops -> OpType] /\ op'[o].at = b /\ \A p \in Ops : p # o => op'[p] = op[p]
  BY DEF Becomes
<1>8. Fast => OpWake(o)
  <2>1. CASE Fast /\ state > 1
    BY <1>7, <2>1 DEF Notifies, OpWake
  <2>2. CASE Fast /\ ~(state > 1)
    BY <1>2, <2>2, WordTells DEF OpWake
  <2>3. QED
    BY <2>1, <2>2
<1>9. QED
  BY <1>1, <1>3, <1>5, <1>6, <1>7, <1>8, OpStep DEF Effect

\* An operation starts, with the lock or without it.
LEMMA StartKeeps ==
  ASSUME Inv, NEW o \in Ops, UNCHANGED <<timer, call, pc, setup>>, OpStart(o)
  PROVE  Inv' /\ [Abstract!ANext]_AbstractVars
<1>0. OpFits(o) /\ state \in Nat /\ event \in 0 .. MaxTokens
  BY DEF Inv, TypeOK
<1>1. ASSUME NEW b, NEW m, NEW k, op[o].at \in {"new", "hop"}, b \in {"deliver", "got"},
             Becomes(o, b, m, k, op[o].late), Fitting(o, b, m, k), Free, Take
      PROVE  Inv' /\ [Abstract!ANext]_AbstractVars
  <2>1. b \in OwnerOpLabels /\ b \notin WaiterOpLabels /\ op[o].at \notin WaiterOpLabels
    BY <1>1 DEF OwnerOpLabels, WaiterOpLabels
  <2>2. QED
    BY <1>1, <2>1, OpTakes
<1>2. ASSUME NEW b \in {"construct", "hop"}, op[o].at \in {"new", "hop"}, OpGoto(o, b),
             op[o].class \in Contested => op[o].at = "new" /\ b = "construct", UNCHANGED wordVars
      PROVE  Inv' /\ [Abstract!ANext]_AbstractVars
  <2>1. /\ b \notin OwnerOpLabels /\ b \notin WaiterOpLabels /\ b \in OpLabels
        /\ op[o].at \notin OwnerOpLabels /\ op[o].at \notin WaiterOpLabels
        /\ op[o].at \notin AwakeOpLabels
    BY <1>2 DEF OwnerOpLabels, WaiterOpLabels, AwakeOpLabels, OpLabels
  <2>2. Becomes(o, b, op[o].marked, op[o].calls, op[o].late)
    BY <1>2, <2>1, GotoBecomes
  <2>3. Fitting(o, b, op[o].marked, op[o].calls)
    BY <1>0, <1>2 DEF OpFits, Fitting, Undecided, Starting, Ending
  <2>4. QED
    BY <1>0, <1>2, <2>1, <2>2, <2>3, OpGoesOn DEF wordVars
<1>3. ASSUME op[o].at \in {"new", "hop"}, op[o].class \notin Contested, OpGoto(o, "deliver"), Free, Take
      PROVE  Inv' /\ [Abstract!ANext]_AbstractVars
  <2>1. Becomes(o, "deliver", op[o].marked, op[o].calls, op[o].late)
    BY <1>3, GotoBecomes DEF OpLabels
  <2>2. Fitting(o, "deliver", op[o].marked, op[o].calls)
    BY <1>0, <1>3 DEF OpFits, Fitting, Ending
  <2>3. QED
    BY <1>1, <1>3, <2>1, <2>2
<1>4. ASSUME op[o].at = "new", op[o].class \notin Contested, Invoke(o, "got"), Free, Take
      PROVE  Inv' /\ [Abstract!ANext]_AbstractVars
  <2>1. op[o].calls = 0
    BY <1>0, <1>4 DEF OpFits
  <2>2. Becomes(o, "got", op[o].marked, 1, op[o].late)
    BY <1>4, <2>1, GotoBecomes DEF OpLabels
  <2>3. Fitting(o, "got", op[o].marked, 1)
    BY <1>4 DEF Fitting, Ending
  <2>4. QED
    BY <1>1, <1>4, <2>2, <2>3
<1>5. ASSUME op[o].at = "new", op[o].class \in Contested, Mark(o, "deliver", "leaked"), Free, Take
      PROVE  Inv' /\ [Abstract!ANext]_AbstractVars
  <2>1. "deliver" \in OpLabels /\ "deliver" \notin Starting /\ op[o].at \in Undecided
    BY <1>5 DEF OpLabels, Starting, Undecided
  <2>m. PICK m : m = TRUE /\ Becomes(o, "deliver", m, op[o].calls, op[o].late)
    BY <1>5, <2>1, MarkBecomes
  <2>2. Becomes(o, "deliver", m, op[o].calls, op[o].late)
    BY <2>m
  <2>3. Fitting(o, "deliver", m, op[o].calls)
    BY <1>0, <1>5, <2>m DEF OpFits, Fitting, Undecided, Starting, InCallback, Ending
  <2>4. QED
    BY <1>1, <1>5, <2>2, <2>3
<1>6. CASE \/ asio_async_acquire(o) \/ asio_async_acquire_cancellable(o) \/ qt_start(o) \/ dispatch_start(o)
  <2>1. /\ op[o].at \in {"new", "hop"} /\ op[o].class \notin Contested
        /\ TryLock(o, OpGoto(o, "deliver"), OpGoto(o, "construct"))
    BY <1>6 DEF asio_async_acquire, asio_async_acquire_cancellable, qt_start, dispatch_start, Is, Contested
  <2>2. QED
    BY <1>2, <1>3, <2>1 DEF TryLock
<1>7. CASE asio_async_acquire_future(o) \/ qt_future_start(o) \/ dispatch_future_start(o)
  <2>1. /\ op[o].at = "new" /\ op[o].class \notin Contested
        /\ \/ TryLock(o, Invoke(o, "got"), OpGoto(o, "construct"))
           \/ TryLock(o, Invoke(o, "got"), OpGoto(o, "hop"))
    BY <1>7 DEF asio_async_acquire_future, qt_future_start, dispatch_future_start, Is, Contested
  <2>2. QED
    BY <1>2, <1>4, <2>1 DEF TryLock
<1>8. CASE qt_cancellable_start(o) \/ dispatch_cancellable_start(o)
  <2>1. /\ op[o].at = "new" /\ op[o].class \in Contested
        /\ TryLock(o, Mark(o, "deliver", "leaked"), OpGoto(o, "construct"))
    BY <1>8 DEF qt_cancellable_start, dispatch_cancellable_start, Is, Contested
  <2>2. QED
    BY <1>2, <1>5, <2>1 DEF TryLock
<1>9. QED
  BY <1>6, <1>7, <1>8 DEF OpStart

\* The guard of an operation registers.
LEMMA RegisterKeeps ==
  ASSUME Inv, NEW o \in Ops, UNCHANGED <<timer, call, pc, setup>>, register(o)
  PROVE  Inv' /\ [Abstract!ANext]_AbstractVars
<1>0. OpFits(o) /\ state \in Nat /\ event' = event /\ event \in 0 .. MaxTokens
  BY DEF Inv, TypeOK, register
<1>1. /\ op[o].at = "construct" /\ op[o].at \notin OwnerOpLabels /\ op[o].at \notin WaiterOpLabels
      /\ op[o].at \notin AwakeOpLabels /\ "arm" \notin OwnerOpLabels /\ "arm" \in WaiterOpLabels
      /\ "arm" \in OpLabels
  BY DEF register, OwnerOpLabels, WaiterOpLabels, AwakeOpLabels, OpLabels
<1>2. PICK l \in BOOLEAN : l = (Fast /\ Free)
  BY DEF Free
<1>3. Becomes(o, "arm", op[o].marked, op[o].calls, l)
  <2> DEFINE r == [op[o] EXCEPT !.at = "arm", !.late = l]
  <2>1. /\ r \in OpType /\ r.class = op[o].class /\ r.at = "arm" /\ r.cancel = op[o].cancel
        /\ r.promise = op[o].promise
        /\ r.marked = op[o].marked /\ r.calls = op[o].calls /\ r.late = l
    BY <1>1, RecordFields DEF OpType
  <2>2. op' = [op EXCEPT ![o] = r]
    BY <1>2 DEF register
  <2> HIDE DEF r
  <2>3. QED
    BY <2>1, <2>2, RecordUpdate, RecordFields
<1>4. Fitting(o, "arm", op[o].marked, op[o].calls)
  BY <1>0, <1>1 DEF OpFits, Fitting, Undecided, Starting, Ending
<1>5. OpFits(o)'
  BY <1>3, <1>4, FittingKeeps
<1>6. Holding' = Holding /\ o \notin Registered /\ Registered' = Registered \cup {o}
  BY <1>1, <1>3, OpMoves
<1>7. /\ op' \in [Ops -> OpType] /\ op'[o].at = "arm" /\ op'[o].late = l
      /\ \A p \in Ops : p # o => op'[p] = op[p]
  BY <1>3 DEF Becomes
<1>8. CASE Fast
  <2>1. RegisterEffect(o)
    BY <1>6, <1>8 DEF RegisterEffect, register
  <2>2. ~l => Holding # {}
    BY <1>2, <1>8, WordTells
  <2>3. OpWake(o)
    BY <1>0, <1>1, <1>6, <1>7, <2>2 DEF OpWake
  <2>4. QED
    BY <1>0, <1>5, <1>7, <1>8, <2>1, <2>3, OpStep DEF Effect
<1>9. CASE ~Fast
  <2>1. QuietEffect /\ state' \in Nat
    BY <1>0, <1>6, <1>9 DEF QuietEffect, register
  <2>2. QED
    BY <1>0, <1>5, <1>7, <1>9, <2>1, OpStep DEF Effect
<1>10. QED
  BY <1>8, <1>9

\* An operation arms its wait and is called back.
LEMMA CallbackKeeps ==
  ASSUME Inv, NEW o \in Ops, UNCHANGED <<timer, call, pc, setup>>, UNCHANGED wordVars,
         \/ asio_start_wait(o) \/ qt_create_and_arm_notifier(o) \/ dispatch_resume(o)
         \/ qt_dup_fails(o) \/ fd_readable(o) \/ timer_readable(o)
         \/ asio_complete(o) \/ asio_future_complete(o)
         \/ qt_on_notified(o) \/ qt_cancellable_on_notified(o) \/ dispatch_event(o)
         \/ dispatch_future_event(o) \/ dispatch_cancellable_event(o)
  PROVE  Inv' /\ [Abstract!ANext]_AbstractVars
<1>0. OpFits(o) /\ state' = state /\ event' = event /\ event \in 0 .. MaxTokens
  BY DEF Inv, TypeOK, wordVars
<1>1. ASSUME NEW b \in {"armed", "unarmed", "abandon", "ready", "release", "try"}, NEW m, NEW k,
             op[o].at \in {"arm", "armed", "ready", "aborted"},
             Becomes(o, b, m, k, op[o].late), Fitting(o, b, m, k)
      PROVE  Inv' /\ [Abstract!ANext]_AbstractVars
  <2>1. /\ b \notin OwnerOpLabels /\ b \in WaiterOpLabels
        /\ op[o].at \notin OwnerOpLabels /\ op[o].at \in WaiterOpLabels
        /\ op[o].at \notin AwakeOpLabels
    BY <1>1 DEF OwnerOpLabels, WaiterOpLabels, AwakeOpLabels
  <2>2. QED
    BY <1>0, <1>1, <2>1, OpGoesOn
<1>2. ASSUME NEW b \in {"armed", "unarmed", "abandon", "ready", "release", "try"},
             op[o].at \in {"arm", "armed", "ready", "aborted"},
             op[o].class \in Contested => b \notin {"abandon", "release"} /\ op[o].at # "aborted",
             b = "abandon" => Excused(o),
             Becomes(o, b, op[o].marked, op[o].calls, op[o].late)
      PROVE  Inv' /\ [Abstract!ANext]_AbstractVars
  <2>1. Fitting(o, b, op[o].marked, op[o].calls)
    BY <1>0, <1>2 DEF OpFits, Fitting, Undecided, Starting, InCallback, Ending
  <2>2. QED
    BY <1>1, <1>2, <2>1
<1>3. ASSUME NEW b \in {"armed", "unarmed", "abandon", "ready", "release", "try"},
             op[o].at \in {"arm", "armed", "ready", "aborted"},
             op[o].class \in Contested => b \notin {"abandon", "release"} /\ op[o].at # "aborted",
             b = "abandon" => Excused(o),
             OpGoto(o, b) \/ Started(o, b) \/ (b = "armed" /\ start_wait(o))
      PROVE  Inv' /\ [Abstract!ANext]_AbstractVars
  <2>1. b \in OpLabels /\ b \notin Starting
    BY DEF OpLabels, Starting, InCallback
  <2>2. Becomes(o, b, op[o].marked, op[o].calls, op[o].late)
    BY <1>3, <2>1, GotoBecomes, StartedBecomes
  <2>3. QED
    BY <1>2, <1>3, <2>2
<1>4. ASSUME NEW again, op[o].at = "ready", op[o].class \in Contested, Mark(o, "release", again)
      PROVE  Inv' /\ [Abstract!ANext]_AbstractVars
  <2>1. "release" \in OpLabels /\ "release" \notin Starting /\ op[o].at \in Undecided
    BY <1>4 DEF OpLabels, Starting, Undecided
  <2>2. PICK m : m = TRUE /\ Becomes(o, "release", m, op[o].calls, op[o].late)
    BY <1>4, <2>1, MarkBecomes
  <2>3. Fitting(o, "release", m, op[o].calls)
    BY <1>0, <1>4, <2>2 DEF OpFits, Fitting, Undecided, Starting, InCallback, Ending
  <2>4. Becomes(o, "release", m, op[o].calls, op[o].late)
    BY <2>2
  <2>5. QED
    BY <1>1, <1>4, <2>3, <2>4
<1>5. CASE asio_start_wait(o) \/ qt_create_and_arm_notifier(o) \/ dispatch_resume(o)
  <2>1. op[o].at = "arm" /\ (Started(o, "armed") \/ start_wait(o))
    BY <1>5 DEF asio_start_wait, start_wait, qt_create_and_arm_notifier, dispatch_resume, Is
  <2>2. QED
    BY <1>3, <2>1
<1>6. CASE qt_dup_fails(o)
  <2>1. CASE op[o].class = "qt_cancellable"
    <3>1. op[o].at = "arm" /\ Started(o, "unarmed")
      BY <1>6, <2>1 DEF qt_dup_fails, Is
    <3>2. QED
      BY <1>3, <3>1
  <2>2. CASE op[o].class # "qt_cancellable"
    <3>1. op[o].at = "arm" /\ Started(o, "abandon") /\ op[o].class \notin Contested /\ Excused(o)
      BY <1>6, <2>2 DEF qt_dup_fails, Is, Qt, Contested, Excused
    <3>2. QED
      BY <1>3, <3>1
  <2>3. QED
    BY <2>1, <2>2
<1>7. CASE fd_readable(o) \/ timer_readable(o)
  BY <1>3, <1>7 DEF fd_readable, timer_readable
<1>8. CASE asio_complete(o)
  <2>1. op[o].at \in {"ready", "aborted"} /\ op[o].class \notin Contested
    BY <1>8 DEF asio_complete, Is, Contested
  <2>2. OpGoto(o, "release") \/ OpGoto(o, "try")
    BY <1>8 DEF asio_complete
  <2>3. QED
    BY <1>3, <2>1, <2>2
<1>9. CASE asio_future_complete(o)
  <2>1. /\ op[o].at \in {"ready", "aborted"} /\ op[o].class \notin Contested
        /\ (Excused(o) /\ OpGoto(o, "abandon")) \/ OpGoto(o, "try")
    BY <1>0, <1>9 DEF asio_future_complete, Is, Contested, OpFits, Excused, Uncancelled
  <2>2. QED
    BY <1>3, <2>1
<1>10. CASE qt_on_notified(o) \/ dispatch_event(o) \/ dispatch_future_event(o)
  <2>1. op[o].at = "ready" /\ OpGoto(o, "try")
    BY <1>10 DEF qt_on_notified, dispatch_event, dispatch_future_event, Is
  <2>2. QED
    BY <1>3, <2>1
<1>11. CASE qt_cancellable_on_notified(o) \/ dispatch_cancellable_event(o)
  <2>1. /\ op[o].at = "ready" /\ op[o].class \in Contested
        /\ OpGoto(o, "try") \/ Mark(o, "release", "done") \/ Mark(o, "release", "armed")
    BY <1>11 DEF qt_cancellable_on_notified, dispatch_cancellable_event, Is, Contested
  <2>2. QED
    BY <1>3, <1>4, <2>1
<1>12. QED
  BY <1>5, <1>6, <1>7, <1>8, <1>9, <1>10, <1>11

\* The callback tries the lock; with it, the guard is dismissed.
LEMMA TryKeeps ==
  ASSUME Inv, NEW o \in Ops, UNCHANGED <<timer, call, pc, setup>>,
         try_acquire(o) \/ consume(o) \/ unregister(o)
  PROVE  Inv' /\ [Abstract!ANext]_AbstractVars
<1>0. OpFits(o) /\ TypeOK /\ state \in Nat /\ event \in 0 .. MaxTokens
  BY DEF Inv, TypeOK
<1>1. ASSUME NEW b \in {"consume", "unregister", "recheck", "arm", "armed"}, OpGoto(o, b),
             op[o].at \in {"try", "consume", "unregister"},
             ~Fast => b \notin {"consume", "unregister"},
             op[o].class \in Contested => b # "arm"
      PROVE  /\ Becomes(o, b, op[o].marked, op[o].calls, op[o].late)
             /\ Fitting(o, b, op[o].marked, op[o].calls)
  <2>1. Becomes(o, b, op[o].marked, op[o].calls, op[o].late)
    BY <1>1, GotoBecomes DEF OpLabels, InCallback
  <2>2. Fitting(o, b, op[o].marked, op[o].calls)
    BY <1>0, <1>1 DEF OpFits, Fitting, Undecided, Starting, InCallback, Ending
  <2>3. QED
    BY <2>1, <2>2
<1>2. /\ "try" \notin OwnerOpLabels /\ "consume" \in OwnerOpLabels /\ "unregister" \in OwnerOpLabels
      /\ "recheck" \in OwnerOpLabels /\ "arm" \notin OwnerOpLabels /\ "armed" \notin OwnerOpLabels
      /\ "try" \in WaiterOpLabels /\ "consume" \in WaiterOpLabels /\ "unregister" \in WaiterOpLabels
      /\ "recheck" \notin WaiterOpLabels /\ "arm" \in WaiterOpLabels /\ "armed" \in WaiterOpLabels
  BY DEF OwnerOpLabels, WaiterOpLabels
<1>3. CASE try_acquire(o) /\ Free
  <2>1. PICK b \in {"consume", "recheck"} : b = IF Fast THEN "consume" ELSE "recheck"
    OBVIOUS
  <2>2. op[o].at = "try" /\ Take /\ OpGoto(o, b)
    BY <1>3, <2>1 DEF try_acquire, TryLock
  <2>3. (~Fast => b # "consume") /\ (Fast => b = "consume")
    BY <2>1
  <2>4. /\ Becomes(o, b, op[o].marked, op[o].calls, op[o].late)
        /\ Fitting(o, b, op[o].marked, op[o].calls)
    BY <1>1, <2>2, <2>3
  <2>5. QED
    BY <1>2, <1>3, <2>2, <2>3, <2>4, OpTakes
<1>4. CASE try_acquire(o) /\ ~Free
  <2>1. PICK b \in {"arm", "armed"} :
             b = IF op[o].class \in Asio \cup {"dispatch_future"} THEN "arm" ELSE "armed"
    OBVIOUS
  <2>2. op[o].at = "try" /\ UNCHANGED wordVars /\ OpGoto(o, b)
    BY <1>4, <2>1 DEF try_acquire, TryLock
  <2>3. op[o].class \in Contested => b # "arm"
    BY <2>1 DEF Contested, Asio
  <2>4. /\ Becomes(o, b, op[o].marked, op[o].calls, op[o].late)
        /\ Fitting(o, b, op[o].marked, op[o].calls)
    BY <1>1, <2>2, <2>3
  <2>5. Holding # {}
    BY <1>4, WordTells
  <2>6. QED
    BY <1>0, <1>2, <2>2, <2>4, <2>5, OpGoesOn DEF wordVars
<1>5. CASE consume(o)
  <2>1. /\ op[o].at = "consume" /\ OpGoto(o, "unregister") /\ state' = state
        /\ event' \in 0 .. MaxTokens /\ Fast
    BY <1>0, <1>5, SystemCalls DEF consume, OpFits
  <2>2. /\ Becomes(o, "unregister", op[o].marked, op[o].calls, op[o].late)
        /\ Fitting(o, "unregister", op[o].marked, op[o].calls)
    BY <1>1, <2>1
  <2>3. QED
    BY <1>2, <2>1, <2>2, OpGoesOn
<1>6. CASE unregister(o)
  <2>1. op[o].at = "unregister" /\ OpGoto(o, "recheck") /\ state' = state - 2 /\ event' = event /\ Fast
    BY <1>0, <1>6 DEF unregister, OpFits
  <2>2. /\ Becomes(o, "recheck", op[o].marked, op[o].calls, op[o].late)
        /\ Fitting(o, "recheck", op[o].marked, op[o].calls)
    BY <1>1, <2>1
  <2>3. /\ Holding' = Holding /\ Holding = {o} /\ o \in Registered /\ Registered' = Registered \ {o}
    BY <1>2, <2>1, <2>2, OpMoves
  <2>4. UnregisterEffect(o) /\ OpWake(o) /\ OpFits(o)'
    BY <2>1, <2>2, <2>3, FittingKeeps DEF UnregisterEffect, OpWake
  <2>5. op' \in [Ops -> OpType] /\ \A p \in Ops : p # o => op'[p] = op[p]
    BY <2>2 DEF Becomes
  <2>6. QED
    BY <1>0, <2>1, <2>4, <2>5, OpStep DEF Effect
<1>7. QED
  BY <1>3, <1>4, <1>5, <1>6

\* What was acquired is handed over, or given back because of a cancel().
LEMMA AcquiredKeeps ==
  ASSUME Inv, NEW o \in Ops, UNCHANGED <<timer, call, pc, setup>>, UNCHANGED wordVars,
         \/ asio_acquired(o) \/ asio_future_acquired(o) \/ deliver_success(o)
         \/ qt_recheck(o) \/ dispatch_recheck(o)
  PROVE  Inv' /\ [Abstract!ANext]_AbstractVars
<1>0. OpFits(o) /\ state' = state /\ event' = event /\ event \in 0 .. MaxTokens
  BY DEF Inv, TypeOK, wordVars
<1>1. /\ op[o].at = "recheck" /\ op[o].calls = 0 /\ op[o].at \in Undecided
      /\ op[o].at \in OwnerOpLabels /\ op[o].at \notin WaiterOpLabels
  BY <1>0 DEF asio_acquired, asio_future_acquired, deliver_success, qt_recheck, dispatch_recheck,
              Is, OpFits, Undecided, InCallback, OwnerOpLabels, WaiterOpLabels
<1>2. ASSUME NEW b \in {"got", "throws", "deliver", "undo"}, NEW m, NEW k,
             Becomes(o, b, m, k, op[o].late), Fitting(o, b, m, k)
      PROVE  Inv' /\ [Abstract!ANext]_AbstractVars
  <2>1. b \in OwnerOpLabels /\ b \notin WaiterOpLabels
    BY DEF OwnerOpLabels, WaiterOpLabels
  <2>2. QED
    BY <1>0, <1>1, <1>2, <2>1, OpGoesOn
<1>3. ASSUME NEW b \in {"throws", "deliver", "undo"}, OpGoto(o, b),
             op[o].class \in Contested <=> b = "undo", b = "throws" => Excused(o)
      PROVE  Inv' /\ [Abstract!ANext]_AbstractVars
  <2>1. Becomes(o, b, op[o].marked, op[o].calls, op[o].late)
    BY <1>3, GotoBecomes DEF OpLabels, InCallback
  <2>2. Fitting(o, b, op[o].marked, op[o].calls)
    BY <1>0, <1>1, <1>3 DEF OpFits, Fitting, Undecided, Starting, InCallback, Ending
  <2>3. QED
    BY <1>2, <2>1, <2>2
<1>4. ASSUME op[o].class \notin Contested, Invoke(o, "got")
      PROVE  Inv' /\ [Abstract!ANext]_AbstractVars
  <2>1. Becomes(o, "got", op[o].marked, 1, op[o].late)
    BY <1>1, <1>4, GotoBecomes DEF OpLabels
  <2>2. Fitting(o, "got", op[o].marked, 1)
    BY <1>4 DEF Fitting, Ending
  <2>3. QED
    BY <1>2, <2>1, <2>2
<1>5. ASSUME op[o].class \in Contested, Mark(o, "deliver", "leaked")
      PROVE  Inv' /\ [Abstract!ANext]_AbstractVars
  <2>1. "deliver" \in OpLabels /\ "deliver" \notin Starting
    BY DEF OpLabels, Starting
  <2>2. PICK m : m = TRUE /\ Becomes(o, "deliver", m, op[o].calls, op[o].late)
    BY <1>1, <1>5, <2>1, MarkBecomes
  <2>3. Fitting(o, "deliver", m, op[o].calls)
    BY <1>0, <1>1, <2>2 DEF OpFits, Fitting, Undecided, Starting, InCallback, Ending
  <2>4. Becomes(o, "deliver", m, op[o].calls, op[o].late)
    BY <2>2
  <2>5. QED
    BY <1>2, <2>3, <2>4
<1>6. CASE asio_acquired(o) \/ asio_future_acquired(o)
  <2>1. op[o].class \notin Contested /\ (Invoke(o, "got") \/ (Excused(o) /\ OpGoto(o, "throws")))
    BY <1>6 DEF asio_acquired, asio_future_acquired, Is, Contested, Excused
  <2>2. QED
    BY <1>3, <1>4, <2>1
<1>7. CASE deliver_success(o)
  <2>1. op[o].class \notin Contested /\ OpGoto(o, "deliver")
    BY <1>7 DEF deliver_success, Is, Contested
  <2>2. QED
    BY <1>3, <2>1
<1>8. CASE qt_recheck(o) \/ dispatch_recheck(o)
  <2>1. op[o].class \in Contested /\ (OpGoto(o, "undo") \/ Mark(o, "deliver", "leaked"))
    BY <1>8 DEF qt_recheck, dispatch_recheck, Is, Contested
  <2>2. QED
    BY <1>3, <1>5, <2>1
<1>9. QED
  BY <1>6, <1>7, <1>8

\* The lock is given back, by the callback that saw the flag or by the user.
LEMMA GiveBackKeeps ==
  ASSUME Inv, NEW o \in Ops, UNCHANGED <<timer, call, pc, setup>>,
         undo(o) \/ undo_post(o) \/ op_unlock(o) \/ op_post(o)
  PROVE  Inv' /\ [Abstract!ANext]_AbstractVars
<1>0. OpFits(o) /\ TypeOK /\ state \in Nat /\ event \in 0 .. MaxTokens
  BY DEF Inv, TypeOK
<1>1. /\ "undo" \in OwnerOpLabels /\ "got" \in OwnerOpLabels /\ "throws" \in OwnerOpLabels
      /\ "undoPost" \notin OwnerOpLabels /\ "post" \notin OwnerOpLabels /\ "fail" \notin OwnerOpLabels
      /\ "done" \notin OwnerOpLabels /\ "dropped" \notin OwnerOpLabels
      /\ "undo" \notin WaiterOpLabels /\ "got" \notin WaiterOpLabels /\ "throws" \notin WaiterOpLabels
      /\ "undoPost" \notin WaiterOpLabels /\ "post" \notin WaiterOpLabels
      /\ "fail" \notin WaiterOpLabels /\ "done" \notin WaiterOpLabels /\ "dropped" \notin WaiterOpLabels
      /\ "post" \in AwakeOpLabels /\ "undoPost" \in AwakeOpLabels
  BY DEF OwnerOpLabels, WaiterOpLabels, AwakeOpLabels
<1>2. ASSUME op[o].at \in {"undo", "undoPost"}, Mark(o, "fail", "done")
      PROVE  \E m : /\ Becomes(o, "fail", m, op[o].calls, op[o].late)
                    /\ Fitting(o, "fail", m, op[o].calls)
  <2>1. /\ "fail" \in OpLabels /\ "fail" \notin Starting
        /\ op[o].at \in Undecided /\ op[o].class \in Contested
    BY <1>0, <1>2 DEF OpLabels, Starting, Undecided, InCallback, OpFits
  <2>2. PICK m : m = TRUE /\ Becomes(o, "fail", m, op[o].calls, op[o].late)
    BY <1>2, <2>1, MarkBecomes
  <2>3. Fitting(o, "fail", m, op[o].calls)
    BY <1>0, <1>2, <2>2 DEF OpFits, Fitting, Undecided, Starting, InCallback, Ending
  <2>4. QED
    BY <2>2, <2>3
<1>3. CASE undo(o)
  <2>1. op[o].at = "undo" /\ Release
    BY <1>3 DEF undo
  <2>2. CASE Notifies
    <3>1. OpGoto(o, "undoPost") /\ Fast
      BY <1>3, <2>2 DEF undo, Notifies
    <3>2. Becomes(o, "undoPost", op[o].marked, op[o].calls, op[o].late)
      BY <3>1, GotoBecomes DEF OpLabels, InCallback
    <3>3. Fitting(o, "undoPost", op[o].marked, op[o].calls)
      BY <1>0, <2>1, <3>1 DEF OpFits, Fitting, Undecided, Starting, InCallback, Ending
    <3>4. QED
      BY <1>1, <2>1, <3>2, <3>3, OpReleases
  <2>3. CASE ~Notifies
    <3>1. Mark(o, "fail", "done")
      BY <1>3, <2>3 DEF undo
    <3>2. QED
      BY <1>1, <1>2, <2>1, <2>3, <3>1, OpReleases
  <2>4. QED
    BY <2>2, <2>3
<1>4. CASE undo_post(o)
  <2>1. /\ op[o].at = "undoPost" /\ Mark(o, "fail", "done") /\ state' = state
        /\ event' \in 0 .. MaxTokens /\ event' > 0 /\ Fast
    BY <1>0, <1>4, SystemCalls DEF undo_post, OpFits
  <2>2. QED
    BY <1>1, <1>2, <2>1, OpGoesOn
<1>5. CASE op_unlock(o)
  <2>1. PICK b \in {"post", "done", "dropped"} :
             b = IF Notifies THEN "post" ELSE IF op[o].at = "got" THEN "done" ELSE "dropped"
    OBVIOUS
  <2>2. op[o].at \in {"got", "throws"} /\ Release /\ OpGoto(o, b)
    BY <1>5, <2>1 DEF op_unlock
  <2>3. /\ Notifies => b = "post"
        /\ b = "post" => Fast
        /\ b = "done" => op[o].at = "got"
        /\ b = "dropped" => op[o].at = "throws"
    <3>1. Notifies => Fast
      BY DEF Notifies
    <3>2. QED
      BY <2>1, <2>2, <3>1
  <2>4. Becomes(o, b, op[o].marked, op[o].calls, op[o].late)
    BY <2>2, GotoBecomes DEF OpLabels
  <2>5. Fitting(o, b, op[o].marked, op[o].calls)
    BY <1>0, <2>2, <2>3 DEF OpFits, Fitting, Undecided, Starting, InCallback, Ending
  <2>6. QED
    BY <1>1, <2>2, <2>3, <2>4, <2>5, OpReleases
<1>6. CASE op_post(o)
  <2>1. PICK b \in {"done", "dropped"} : b = IF op[o].calls = 1 THEN "done" ELSE "dropped"
    OBVIOUS
  <2>2. /\ op[o].at = "post" /\ OpGoto(o, b) /\ state' = state
        /\ event' \in 0 .. MaxTokens /\ event' > 0 /\ Fast
    BY <1>0, <1>6, <2>1, SystemCalls DEF op_post, OpFits
  <2>3. Becomes(o, b, op[o].marked, op[o].calls, op[o].late)
    BY <2>2, GotoBecomes DEF OpLabels
  <2>4. Fitting(o, b, op[o].marked, op[o].calls)
    BY <1>0, <2>1, <2>2 DEF OpFits, Fitting, Undecided, Starting, InCallback, Ending
  <2>5. QED
    BY <1>1, <2>2, <2>3, <2>4, OpGoesOn
<1>7. QED
  BY <1>3, <1>4, <1>5, <1>6

\* The guard is released, results are delivered.
LEMMA DeliveryKeeps ==
  ASSUME Inv, NEW o \in Ops, UNCHANGED <<timer, call, pc, setup>>,
         guard_release(o) \/ deliver_cancellation(o) \/ deliver(o)
  PROVE  Inv' /\ [Abstract!ANext]_AbstractVars
<1>0. OpFits(o) /\ TypeOK /\ state \in Nat /\ event \in 0 .. MaxTokens
  BY DEF Inv, TypeOK
<1>1. CASE guard_release(o)
  <2>1. PICK b \in {"fail", "done", "dropped"} :
             b = IF op[o].at = "abandon" THEN IF op[o].calls = 1 THEN "done" ELSE "dropped" ELSE "fail"
    OBVIOUS
  <2>2. /\ op[o].at \in {"release", "abandon"} /\ OpGoto(o, b) /\ event' = event
        /\ state' = IF Fast THEN state - 2 ELSE state
    BY <1>1, <2>1 DEF guard_release, Unregister
  <2>3. Becomes(o, b, op[o].marked, op[o].calls, op[o].late)
    BY <2>2, GotoBecomes DEF OpLabels
  <2>4. Fitting(o, b, op[o].marked, op[o].calls)
    BY <1>0, <2>1, <2>2 DEF OpFits, Fitting, Undecided, Starting, InCallback, Ending
  <2>5. /\ op[o].at \notin OwnerOpLabels /\ b \notin OwnerOpLabels /\ op[o].at \notin AwakeOpLabels
        /\ op[o].at \in WaiterOpLabels /\ b \notin WaiterOpLabels
    BY <2>2 DEF OwnerOpLabels, WaiterOpLabels, AwakeOpLabels
  <2>6. Holding' = Holding /\ o \in Registered /\ Registered' = Registered \ {o}
    BY <2>3, <2>5, OpMoves
  <2>7. /\ op' \in [Ops -> OpType] /\ op'[o].at = b /\ \A p \in Ops : p # o => op'[p] = op[p]
    BY <2>3 DEF Becomes
  <2>8. OpWake(o) /\ OpFits(o)'
    BY <2>2, <2>3, <2>4, <2>5, <2>6, <2>7, FittingKeeps DEF OpWake
  <2>9. CASE Fast
    <3>1. UnregisterEffect(o)
      BY <2>2, <2>6, <2>9 DEF UnregisterEffect
    <3>2. QED
      BY <1>0, <2>2, <2>7, <2>8, <2>9, <3>1, OpStep DEF Effect
  <2>10. CASE ~Fast
    <3>1. QuietEffect /\ state' \in Nat
      BY <1>0, <2>2, <2>6, <2>10 DEF QuietEffect
    <3>2. QED
      BY <1>0, <2>2, <2>7, <2>8, <2>10, <3>1, OpStep DEF Effect
  <2>11. QED
    BY <2>9, <2>10
<1>2. ASSUME NEW a \in {"failGuarded", "deliver", "fail"}, NEW b \in {"abandon", "got", "done"},
             op[o].at = a, Invoke(o, b), UNCHANGED wordVars,
             <<a, b>> \in {<<"failGuarded", "abandon">>, <<"deliver", "got">>, <<"fail", "done">>}
      PROVE  Inv' /\ [Abstract!ANext]_AbstractVars
  <2>1. op[o].calls = 0
    BY <1>0, <1>2 DEF OpFits
  <2>2. Becomes(o, b, op[o].marked, 1, op[o].late)
    BY <1>2, <2>1, GotoBecomes DEF OpLabels
  <2>3. Fitting(o, b, op[o].marked, 1)
    BY <1>0, <1>2 DEF OpFits, Fitting, Undecided, Starting, InCallback, Ending
  <2>4. /\ op[o].at \in OwnerOpLabels <=> b \in OwnerOpLabels
        /\ op[o].at \in WaiterOpLabels <=> b \in WaiterOpLabels
        /\ op[o].at \notin AwakeOpLabels
    BY <1>2 DEF OwnerOpLabels, WaiterOpLabels, AwakeOpLabels
  <2>5. QED
    BY <1>0, <1>2, <2>2, <2>3, <2>4, OpGoesOn DEF wordVars
<1>3. CASE deliver_cancellation(o)
  BY <1>2, <1>3 DEF deliver_cancellation
<1>4. CASE deliver(o)
  BY <1>2, <1>4 DEF deliver, invoke_success, invoke_error
<1>5. QED
  BY <1>1, <1>3, <1>4

\* cancel(), from the flag to what was posted.
LEMMA CancelKeeps ==
  ASSUME Inv, NEW o \in Ops, UNCHANGED <<timer, call, pc, setup>>, UNCHANGED wordVars,
         \/ \E classes : FlagCancel(o, classes) \/ PostCancel(o, classes)
         \/ AsioCancel(o)
         \/ CancelPosted(o, {"qt_cancellable"}, "failGuarded")
         \/ CancelPosted(o, {"dispatch_cancellable"}, "release")
  PROVE  Inv' /\ [Abstract!ANext]_AbstractVars
<1>0. OpFits(o) /\ state' = state /\ event' = event /\ event \in 0 .. MaxTokens
  BY DEF Inv, TypeOK, wordVars
<1>1. ASSUME NEW m, Becomes(o, op[o].at, m, op[o].calls, op[o].late), m = op[o].marked
      PROVE  Inv' /\ [Abstract!ANext]_AbstractVars
  <2>1. Fitting(o, op[o].at, op[o].marked, op[o].calls)
    BY <1>0 DEF OpFits, Fitting
  <2>2. Becomes(o, op[o].at, op[o].marked, op[o].calls, op[o].late)
    BY <1>1
  <2>3. CASE op[o].at \in AwakeOpLabels
    BY <1>0, <2>1, <2>2, <2>3, OpGoesOn
  <2>4. CASE op[o].at \notin AwakeOpLabels
    BY <1>0, <2>1, <2>2, <2>4, OpGoesOn
  <2>5. QED
    BY <2>3, <2>4
<1>2. CASE \E classes : FlagCancel(o, classes) \/ PostCancel(o, classes)
  <2>1. PICK c \in {"flagged", "posted"} : op' = [op EXCEPT ![o].cancel = c] /\ op[o].cancel # "none"
    BY <1>2 DEF FlagCancel, PostCancel
  <2> DEFINE r == [op[o] EXCEPT !.cancel = c]
  <2>2. /\ r \in OpType /\ r.class = op[o].class /\ r.at = op[o].at
        /\ r.cancel \notin Uncancelled /\ r.promise = op[o].promise
        /\ r.marked = op[o].marked /\ r.calls = op[o].calls /\ r.late = op[o].late
    BY RecordFields DEF OpType, Uncancelled
  <2>3. op' = [op EXCEPT ![o] = r]
    BY <2>1
  <2> HIDE DEF r
  <2>4. op[o].class \in Contested => op[o].at \notin Starting
    BY <1>0, <2>1 DEF OpFits
  <2>5. Becomes(o, op[o].at, op[o].marked, op[o].calls, op[o].late)
    BY <2>2, <2>3, <2>4, RecordUpdate
  <2>6. QED
    BY <1>1, <2>5
<1>3. CASE AsioCancel(o)
  <2>1. PICK b \in OpLabels : b = IF op[o].at = "armed" THEN "aborted" ELSE op[o].at
    BY RecordFields DEF OpLabels
  <2>2. /\ op' = [op EXCEPT ![o].cancel = "over", ![o].at = b]
        /\ op[o].class \notin Contested /\ op[o].cancel \notin Uncancelled
    BY <1>3, <2>1 DEF AsioCancel, Asio, Contested, Uncancelled
  <2> DEFINE r == [op[o] EXCEPT !.cancel = "over", !.at = b]
  <2>3. /\ r \in OpType /\ r.class = op[o].class /\ r.at = b
        /\ r.cancel \notin Uncancelled /\ r.promise = op[o].promise
        /\ r.marked = op[o].marked /\ r.calls = op[o].calls /\ r.late = op[o].late
    BY RecordFields DEF OpType, Uncancelled
  <2>4. op' = [op EXCEPT ![o] = r]
    BY <2>2
  <2> HIDE DEF r
  <2>5. Becomes(o, b, op[o].marked, op[o].calls, op[o].late)
    BY <2>2, <2>3, <2>4, RecordUpdate
  <2>6. CASE op[o].at = "armed"
    <3>1. b = "aborted"
      BY <2>1, <2>6
    <3>2. Fitting(o, b, op[o].marked, op[o].calls)
      BY <1>0, <2>2, <2>6, <3>1 DEF OpFits, Fitting, Ending
    <3>3. /\ op[o].at \notin OwnerOpLabels /\ b \notin OwnerOpLabels /\ op[o].at \notin AwakeOpLabels
          /\ op[o].at \in WaiterOpLabels /\ b \in WaiterOpLabels
      BY <2>6, <3>1 DEF OwnerOpLabels, WaiterOpLabels, AwakeOpLabels
    <3>4. QED
      BY <1>0, <2>5, <3>2, <3>3, OpGoesOn
  <2>7. CASE op[o].at # "armed"
    BY <1>1, <2>1, <2>5, <2>7
  <2>8. QED
    BY <2>6, <2>7
<1>4. ASSUME NEW classes, NEW label \in {"failGuarded", "release"}, classes \subseteq Contested,
             CancelPosted(o, classes, label)
      PROVE  Inv' /\ [Abstract!ANext]_AbstractVars
  <2>1. /\ op[o].class \in Contested /\ op[o].cancel = "posted" /\ op[o].at \notin InCallback
        /\ op[o].at \notin Starting
    BY <1>0, <1>4 DEF CancelPosted, OpFits
  <2>2. PICK b \in OpLabels : b = IF op[o].marked THEN op[o].at ELSE label
    <3>1. op[o].at \in OpLabels /\ label \in OpLabels
      BY RecordFields DEF OpLabels
    <3>2. QED
      BY <3>1
  <2>3. op' = [op EXCEPT ![o].cancel = "over", ![o].marked = TRUE, ![o].at = b]
    BY <1>4, <2>2 DEF CancelPosted
  <2> DEFINE r == [op[o] EXCEPT !.cancel = "over", !.marked = TRUE, !.at = b]
  <2>4. /\ r \in OpType /\ r.class = op[o].class /\ r.at = b
        /\ r.cancel \notin Uncancelled /\ r.promise = op[o].promise
        /\ r.marked = TRUE /\ r.calls = op[o].calls /\ r.late = op[o].late
    BY RecordFields DEF OpType, Uncancelled
  <2>5. op' = [op EXCEPT ![o] = r]
    BY <2>3
  <2> HIDE DEF r
  <2>6. b \notin Starting
    BY <2>1, <2>2 DEF Starting
  <2>7. Becomes(o, b, TRUE, op[o].calls, op[o].late)
    BY <2>4, <2>5, <2>6, RecordUpdate
  <2>8. PICK m : m = TRUE /\ Becomes(o, b, m, op[o].calls, op[o].late)
    BY <2>7
  <2>9. CASE op[o].marked
    <3>1. b = op[o].at /\ m = op[o].marked
      BY <2>2, <2>8, <2>9, RecordFields
    <3>2. QED
      BY <1>1, <2>8, <3>1
  <2>10. CASE ~op[o].marked
    <3>1. b = label
      BY <2>2, <2>10
    <3>2. op[o].at \in {"armed", "ready", "unarmed"}
      BY <1>0, <2>1, <2>10 DEF OpFits, Undecided, Starting
    <3>3. Fitting(o, b, m, op[o].calls)
      BY <1>0, <2>8, <3>1, <3>2 DEF OpFits, Fitting, Undecided, Starting, InCallback, Ending
    <3>4. /\ op[o].at \notin OwnerOpLabels /\ b \notin OwnerOpLabels /\ op[o].at \notin AwakeOpLabels
          /\ op[o].at \in WaiterOpLabels /\ b \in WaiterOpLabels
      BY <3>1, <3>2 DEF OwnerOpLabels, WaiterOpLabels, AwakeOpLabels
    <3>5. Becomes(o, b, m, op[o].calls, op[o].late)
      BY <2>8
    <3>6. QED
      BY <1>0, <3>3, <3>4, <3>5, OpGoesOn
  <2>11. QED
    BY <2>9, <2>10
<1>5. {"qt_cancellable"} \subseteq Contested /\ {"dispatch_cancellable"} \subseteq Contested
  BY DEF Contested
<1>6. QED
  BY <1>2, <1>3, <1>4, <1>5

-----------------------------------------------------------------------------
\* Every step of an operation.
LEMMA OpKeeps ==
  ASSUME Inv, NEW o \in Ops, UNCHANGED <<timer, call, pc, setup>>, OpNext(o)
  PROVE  Inv' /\ [Abstract!ANext]_AbstractVars
<1>1. CASE OpStart(o) \/ (op[o].at = "hop" /\ qt_start(o))
  BY <1>1, StartKeeps DEF OpStart
<1>2. CASE register(o)
  BY <1>2, RegisterKeeps
<1>3. CASE \/ asio_start_wait(o) \/ qt_create_and_arm_notifier(o) \/ dispatch_resume(o)
           \/ (qt_dup_fails(o) /\ UNCHANGED wordVars) \/ fd_readable(o) \/ timer_readable(o)
           \/ asio_complete(o)
           \/ asio_future_complete(o)
           \/ qt_on_notified(o) \/ qt_cancellable_on_notified(o) \/ dispatch_event(o)
           \/ dispatch_future_event(o) \/ dispatch_cancellable_event(o)
  <2>1. UNCHANGED wordVars
    BY <1>3 DEF asio_start_wait, qt_create_and_arm_notifier, dispatch_resume, fd_readable,
                timer_readable, asio_complete, asio_future_complete, qt_on_notified, qt_cancellable_on_notified,
                dispatch_event, dispatch_future_event, dispatch_cancellable_event
  <2>2. QED
    BY <1>3, <2>1, CallbackKeeps
<1>4. CASE try_acquire(o) \/ consume(o) \/ unregister(o)
  BY <1>4, TryKeeps
<1>5. CASE \/ asio_acquired(o) \/ asio_future_acquired(o) \/ deliver_success(o)
           \/ qt_recheck(o) \/ dispatch_recheck(o)
  <2>1. UNCHANGED wordVars
    BY <1>5 DEF asio_acquired, asio_future_acquired, deliver_success, qt_recheck, dispatch_recheck
  <2>2. QED
    BY <1>5, <2>1, AcquiredKeeps
<1>6. CASE undo(o) \/ undo_post(o) \/ op_unlock(o) \/ op_post(o)
  BY <1>6, GiveBackKeeps
<1>7. CASE guard_release(o) \/ deliver_cancellation(o) \/ deliver(o)
  BY <1>7, DeliveryKeeps
<1>8. CASE \/ CancelProgress(o) \/ asio_cancel(o) \/ asio_future_cancel(o)
           \/ qt_handle_cancel(o) \/ dispatch_handle_cancel(o)
  <2>1. UNCHANGED wordVars
    BY <1>8 DEF CancelProgress, asio_cancel, asio_future_cancel, qt_handle_cancel, dispatch_handle_cancel,
                asio_cancel_wait, qt_cancel, qt_cancelled, dispatch_cancel, dispatch_cancel_handler
  <2>2. \/ \E classes : FlagCancel(o, classes) \/ PostCancel(o, classes)
        \/ AsioCancel(o)
        \/ CancelPosted(o, {"qt_cancellable"}, "failGuarded")
        \/ CancelPosted(o, {"dispatch_cancellable"}, "release")
    BY <1>8 DEF CancelProgress, asio_cancel, asio_future_cancel, qt_handle_cancel, dispatch_handle_cancel,
                asio_cancel_wait, qt_cancel, qt_cancelled, dispatch_cancel, dispatch_cancel_handler
  <2>3. QED
    BY <2>1, <2>2, CancelKeeps
<1>9. QED
  BY <1>1, <1>2, <1>3, <1>4, <1>5, <1>6, <1>7, <1>8 DEF OpNext, OpProgress

\* The owner takes the timer for its token.
LEMMA ConsumeTimerKeeps ==
  ASSUME Inv, NEW o \in Ops, UNCHANGED <<call, pc, setup>>, consume_timer(o)
  PROVE  Inv' /\ [Abstract!ANext]_AbstractVars
<1>1. /\ op[o].at = "consume" /\ OpGoto(o, "unregister") /\ timer' = FALSE
      /\ state' = state /\ event' = event /\ event \in 0 .. MaxTokens /\ OpFits(o)
  BY DEF consume_timer, wordVars, Inv, TypeOK
<1>2. Fast
  BY <1>1 DEF OpFits
<1>3. Becomes(o, "unregister", op[o].marked, op[o].calls, op[o].late)
  BY <1>1, GotoBecomes DEF OpLabels, InCallback
<1>4. Fitting(o, "unregister", op[o].marked, op[o].calls)
  BY <1>1, <1>2 DEF OpFits, Fitting, Undecided, Starting, InCallback, Ending
<1>5. /\ op[o].at \in OwnerOpLabels /\ "unregister" \in OwnerOpLabels
      /\ op[o].at \in WaiterOpLabels /\ "unregister" \in WaiterOpLabels
  BY <1>1 DEF OwnerOpLabels, WaiterOpLabels
<1>6. Holding' = Holding /\ Holding = {o} /\ Registered' = Registered
  BY <1>3, <1>5, OpMoves
<1>7. QuietEffect /\ OpWake(o) /\ OpFits(o)'
  BY <1>1, <1>3, <1>4, <1>6, FittingKeeps DEF QuietEffect, OpWake
<1>8. op' \in [Ops -> OpType] /\ \A p \in Ops : p # o => op'[p] = op[p]
  BY <1>3 DEF Becomes
<1>9. QED
  BY <1>1, <1>2, <1>7, <1>8, OpStepTimer DEF Effect

\* Every step.
LEMMA StepKeeps ==
  ASSUME Inv, [AsyncNext]_allVars
  PROVE  Inv' /\ [Abstract!ANext]_AbstractVars
<1>1. ASSUME NEW t \in setup.threads, UNCHANGED <<op, setup>>,
             \/ Request(t) \/ Progress(t)
             \/ deadline_passes(t) \/ timer_taken(t) \/ kevent_interrupted(t)
      PROVE  Inv' /\ [Abstract!ANext]_AbstractVars
  <2>1. t \in Threads
    BY NativeMutexParameters DEF Inv, TypeOK
  <2>2. QED
    BY <1>1, <2>1, RequestKeeps, WaitKeeps, WokenKeeps, EndKeeps, UnlockKeeps DEF Progress
<1>2. ASSUME NEW o \in Ops, UNCHANGED threadVars, setup' = setup, OpNext(o)
      PROVE  Inv' /\ [Abstract!ANext]_AbstractVars
  BY <1>2, OpKeeps DEF threadVars
<1>3. CASE UNCHANGED allVars
  <2>1. /\ setup' = setup /\ state' = state /\ event' = event /\ timer' = timer
        /\ call' = call /\ pc' = pc /\ op' = op
    BY <1>3 DEF allVars
  <2>2. Fast' = Fast /\ Holding' = Holding /\ Registered' = Registered /\ Waiting' = Waiting
    BY <2>1 DEF Fast, Holding, Registered, Waiting, Owners, OpOwners, Waiters, OpWaiters
  <2>3. TypeOK' /\ (op \in [Ops -> OpType])' /\ LockFits' /\ ThreadsFit' /\ WakeFits'
    BY <2>1, <2>2 DEF Inv, TypeOK, LockFits, ThreadsFit, WakeFits, Owed, Awake, OpWaiters, Actors
  <2>4. (\A o \in Ops : OpFits(o))'
    BY <2>1, <2>2 DEF Inv, OpFits, Excused
  <2>5. Undisturbed'
    BY <2>1 DEF Inv, Undisturbed
  <2>6. QED
    BY <2>2, <2>3, <2>4, <2>5 DEF Inv, AbstractVars
<1>4. QED
  BY <1>1, <1>2, <1>3, ConsumeTimerKeeps DEF AsyncNext, Next

\* The invariant holds initially.
LEMMA InitKeeps ==
  ASSUME AsyncInit, Undisturbed
  PROVE  Inv /\ Holding = {} /\ Waiting = {}
<1>1. /\ setup \in Setups /\ state = 0 /\ timer = FALSE /\ call = [t \in Threads |-> "lock"]
      /\ pc = [t \in Threads |-> "idle"] /\ event = IF Fast THEN 0 ELSE 1
  BY DEF AsyncInit, Init
<1>2. \A o \in Ops : /\ op[o].class \in Classes /\ op[o].at = "new" /\ op[o].cancel = "none"
                     /\ op[o].marked = FALSE /\ op[o].calls = 0 /\ op[o].late = FALSE
  BY <1>1, AsyncParameters DEF AsyncInit, OpInit, Classes
<1>3. op \in [Ops -> OpType]
  <2>1. "new" \in OpLabels /\ FALSE \in BOOLEAN /\ 0 \in 0 .. 2
    BY DEF OpLabels
  <2>2. \A o \in Ops : (IF o \in DOMAIN setup.ops THEN setup.ops[o] ELSE "none") \in Classes
    BY <1>1, AsyncParameters DEF Classes
  <2>3. QED
    BY <2>1, <2>2 DEF AsyncInit, OpInit, OpType
<1>4. Holding = {} /\ Registered = {} /\ Waiting = {}
  BY <1>1, <1>2 DEF Holding, Registered, Waiting, Owners, OpOwners, Waiters, OpWaiters, Owning, Blocking
<1>5. Cardinality(Registered) = 0
  BY <1>4, RegisteredFinite
<1>6. TypeOK
  <2>1. event \in {0, 1} /\ event \in 0 .. MaxTokens
    BY <1>1, NativeMutexParameters
  <2>2. call \in [Threads -> Calls] /\ pc \in [Threads -> Labels]
    BY <1>1 DEF Calls, Labels
  <2>3. QED
    BY <1>1, <2>1, <2>2 DEF TypeOK
<1>7. LockFits
  BY <1>1, <1>4, <1>5 DEF LockFits
<1>8. ThreadsFit
  BY <1>1 DEF ThreadsFit, FastLabels
<1>9. WakeFits
  BY <1>4, OwedAreRegistered DEF WakeFits
<1>10. ASSUME NEW o \in Ops PROVE OpFits(o)
  BY <1>2 DEF OpFits, Undecided, Starting, InCallback, Ending
<1>11. QED
  BY <1>3, <1>4, <1>6, <1>7, <1>8, <1>9, <1>10 DEF Inv

-----------------------------------------------------------------------------
(* The results.  Undisturbed, about the initial state, excludes signals    *)
(* and deadlines on the system clock for the kqueue_mutex without backoff  *)
(* only: with them its lock() may return without the lock.                 *)

\* The invariant holds in every reachable state, however threads, event
\* loops and cancel() interleave.
THEOREM AcquireInvariant == AsyncSpec /\ Undisturbed => []Inv
<1>1. AsyncInit /\ Undisturbed => Inv
  BY InitKeeps
<1>2. Inv /\ [AsyncNext]_allVars => Inv'
  BY StepKeeps
<1>3. QED
  BY <1>1, <1>2, PTL DEF AsyncSpec

\* Bit 0 of the word tells whether somebody owns the lock, the upper bits
\* count the guards of threads and of operations that are alive, and the
\* descriptor of a mutex without a word holds a token iff the lock is free
\* (of the kqueue_mutex, while no signal and no timer ends its kevent).
THEOREM ExactLock == AsyncSpec /\ Undisturbed => []LockIsExact
<1>1. Inv => LockIsExact
  <2> SUFFICES ASSUME Inv PROVE LockIsExact
    OBVIOUS
  <2>1. PICK n \in Nat : n = Cardinality(Waiters \cup OpWaiters)
    BY RegisteredFinite DEF Registered
  <2>2. /\ Fast => \/ Owners \cup OpOwners = {} /\ state = 2 * n
                   \/ Owners \cup OpOwners # {} /\ state = 2 * n + 1
        /\ ~Fast => \/ Owners \cup OpOwners = {} /\ event = 1
                    \/ Owners \cup OpOwners # {} /\ event = 0
    BY <2>1 DEF Inv, LockFits, Holding, Registered
  <2>3. CASE Owners \cup OpOwners = {}
    BY <2>1, <2>2, <2>3 DEF LockIsExact, Inv
  <2>4. CASE Owners \cup OpOwners # {}
    BY <2>1, <2>2, <2>4 DEF LockIsExact, Inv
  <2>5. QED
    BY <2>3, <2>4
<1>2. QED
  BY <1>1, AcquireInvariant, PTL

\* Callback and cancel() of an operation race for its result, and the handler
\* is called at most once; an operation that is over has called it, unless it
\* is one that may end without a result (Excused).
THEOREM CalledOnce == AsyncSpec /\ Undisturbed => []HandlerOnce
<1>1. Inv => HandlerOnce
  <2> SUFFICES ASSUME Inv, NEW o \in Ops
               PROVE  /\ op[o].calls <= 1
                      /\ op[o].at \in {"got", "done"} => op[o].calls = 1
                      /\ op[o].at = "dropped" => Excused(o)
                      /\ op[o].at # "leaked"
    BY DEF HandlerOnce
  <2>1. OpFits(o)
    BY DEF Inv
  <2>2. op[o].calls \in {0, 1}
    BY <2>1 DEF OpFits
  <2>3. QED
    BY <2>1, <2>2 DEF OpFits, Ending
<1>2. QED
  BY <1>1, AcquireInvariant, PTL

\* When the lock is free and the descriptor empty while somebody who is owed
\* a wakeup waits on it, a write is on its way or another waiter is awake and
\* will look at the word.
THEOREM WakeupKept == AsyncSpec /\ Undisturbed => []NoLostWakeup
<1>1. Inv => NoLostWakeup
  <2> SUFFICES ASSUME Inv, Fast, ~Locked(state), event = 0,
                      (\E t \in Threads : At(t, "poll")) \/ \E o \in Ops : op[o].at = "armed" /\ Entitled(o)
               PROVE  \/ \E t \in Threads : At(t, "post") \/ (t \in Waiters /\ pc[t] \notin {"poll", "leave"})
                      \/ \E o \in Ops : op[o].at \in {"post", "undoPost", "ready", "try"}
    BY DEF NoLostWakeup
  <2>1. Holding = {}
    BY WordTells
  <2>2. Owed
    BY DEF Owed, At, Entitled, OpWaiters
  <2>3. Awake
    BY <2>1, <2>2 DEF Inv, WakeFits
  <2>4. QED
    BY <2>3 DEF Awake, At, Waiters
<1>2. QED
  BY <1>1, AcquireInvariant, PTL

\* Who returns from lock(), from a timed call that succeeded or from an
\* asynchronous acquisition is the only owner.
THEOREM SingleOwner == AsyncSpec /\ Undisturbed => []OneOwner
<1>1. Inv => OneOwner
  <2> SUFFICES ASSUME Inv PROVE Cardinality(Holding) <= 1
    BY DEF OneOwner, Holding
  <2>1. Holding = {} \/ \E x \in Actors : Holding = {x}
    BY DEF Inv, LockFits
  <2>2. CASE Holding = {}
    BY <2>2, FS_EmptySet
  <2>3. ASSUME NEW x, Holding = {x} PROVE Cardinality(Holding) <= 1
    <3>1. Cardinality({x}) = 1
      BY FS_Singleton
    <3>2. QED
      BY <2>3, <3>1
  <2>4. QED
    BY <2>1, <2>2, <2>3
<1>2. QED
  BY <1>1, AcquireInvariant, PTL

\* Word, descriptor, threads and operations together behave as a mutex: at
\* most one of them owns it, and takes it only when nobody does.  The mutexes
\* with backoff and the eventfd_mutex do so under signals and with any clock.
THEOREM Refinement == AsyncSpec /\ Undisturbed => ImplementsMutex
<1>1. AsyncInit /\ Undisturbed => Abstract!AInit
  BY InitKeeps DEF Abstract!AInit, Holding, Waiting
<1>2. Inv /\ [AsyncNext]_allVars => [Abstract!ANext]_(Abstract!avars)
  BY StepKeeps DEF AbstractVars, Abstract!avars, Holding, Waiting
<1>3. QED
  BY <1>1, <1>2, AcquireInvariant, PTL DEF AsyncSpec, ImplementsMutex, Abstract!AbstractSpec

===============================================================================
