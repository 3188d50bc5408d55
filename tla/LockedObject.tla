----------------------------- MODULE LockedObject -----------------------------
(***************************************************************************)
(* locked_object<T, Mutex> with its guards, on the spinlocks.  Threads     *)
(* reach the mutex and the value through guards only; a guard is moved     *)
(* between variables, assigned over another one and destroyed.             *)
(*                                                                         *)
(* lock_and and its relatives are a call that fills a variable, accesses   *)
(* through it and its destruction, which an exception of fn causes too.    *)
(* The const overloads do the same with a pointer to const.  A thread with *)
(* a guard asks for another one only if the lock is recursive: otherwise   *)
(* it would wait for itself.                                               *)
(***************************************************************************)
EXTENDS Spinlocks

CONSTANT Slots   \* the variables of a thread that hold guards

(* A setup also says which slots are used and how often the value is       *)
(* written at most; with 0 it is not read either.                          *)
ASSUME ObjectParameters ==
  /\ IsFiniteSet(Slots) /\ 0 \notin Slots
  /\ \A u \in Setups : u.slots \subseteq Slots /\ u.writes \in Nat

VARIABLES
  guard,    \* per thread and slot: "null" (mtx_ is nullptr), "lock", "shared"
  frame,    \* per thread: the operation of guards it is in
  value,    \* value_
  copy,     \* per thread: what it read, before it writes; -1: nothing
  writes    \* writes made to the value (history)

allVars == <<setup, lockVars, guard, frame, value, copy, writes>>
dataVars == <<value, copy, writes>>

(* An operation: "acquire": a call of the mutex on behalf of slot `to`;    *)
(* "assign": the guard of slot `to` unlocks, then takes over what comes    *)
(* from slot `from` or from the call (NoSlot); "destroy".                  *)
NoSlot == 0
None == [do |-> "none", to |-> NoSlot, from |-> NoSlot, new |-> "null", was |-> 0]
Frame(do, to, from, new, was) == [do |-> do, to |-> to, from |-> from, new |-> new, was |-> was]

Is(t, do) == frame[t].do = do /\ At(t, "ready")
SetFrame(t, f) == frame' = [frame EXCEPT ![t] = f]
NoGuard(t) == \A s \in Slots : guard[t][s] = "null"
Release(t, g) == IF g = "shared" THEN UnlockShared(t) ELSE Unlock(t)

ObjectInit ==
  /\ Init
  /\ guard = [t \in Threads |-> [s \in Slots |-> "null"]]
  /\ frame = [t \in Threads |-> None]
  /\ value = 0 /\ writes = 0
  /\ copy = [t \in Threads |-> -1]

-----------------------------------------------------------------------------
(* The calls of locked_object: the mutex's function, then a guard.         *)
Call(t, s, new, call) ==
  /\ Is(t, "none") /\ (Kind("recursive") \/ NoGuard(t)) /\ copy[t] = -1
  /\ call
  /\ SetFrame(t, Frame("acquire", s, NoSlot, new, depth[t]))
  /\ UNCHANGED <<guard, dataVars>>

do_lock(t, s) == Call(t, s, "lock", Lock(t))
do_try_lock(t, s) == Call(t, s, "lock", TryLock(t))
do_lock_shared(t, s) == Call(t, s, "shared", LockShared(t))
do_try_lock_shared(t, s) == Call(t, s, "shared", TryLockShared(t))

(* The mutex's function has returned; true if there is one more open call. *)
(* The guard is made, and moved into its variable.                         *)
returned(t) ==
  /\ Is(t, "acquire")
  /\ LET f == frame[t] IN
       IF depth[t] = f.was THEN SetFrame(t, None) /\ UNCHANGED guard
       ELSE IF guard[t][f.to] = "null"
       THEN guard' = [guard EXCEPT ![t][f.to] = f.new] /\ SetFrame(t, None)
       ELSE SetFrame(t, [f EXCEPT !.do = "assign"]) /\ UNCHANGED guard
  /\ UNCHANGED <<lockVars, dataVars>>

(* Move construction and move assignment between two variables.            *)
move(t, s, r) ==
  /\ Is(t, "none") /\ copy[t] = -1
  /\ s # r /\ guard[t][r] # "null"
  /\ IF guard[t][s] = "null"
     THEN guard' = [guard EXCEPT ![t][s] = guard[t][r], ![t][r] = "null"] /\ UNCHANGED frame
     ELSE SetFrame(t, Frame("assign", s, r, guard[t][r], 0)) /\ UNCHANGED guard
  /\ UNCHANGED <<lockVars, dataVars>>

destroy(t, s) ==
  /\ Is(t, "none") /\ copy[t] = -1
  /\ guard[t][s] # "null"
  /\ SetFrame(t, Frame("destroy", s, NoSlot, "null", 0))
  /\ UNCHANGED <<lockVars, guard, dataVars>>

(* Both unlock what the target had, and then change the pointers.          *)
guard_unlock(t) ==
  /\ Is(t, "assign") \/ Is(t, "destroy")
  /\ Release(t, guard[t][frame[t].to])
  /\ SetFrame(t, [frame[t] EXCEPT !.do = "unlocked"])
  /\ UNCHANGED <<guard, dataVars>>

unlocked_keeps_source(t) ==   \* mutant: the source of an assignment keeps its mtx_
  /\ Is(t, "unlocked")
  /\ guard' = [guard EXCEPT ![t][frame[t].to] = frame[t].new]
  /\ SetFrame(t, None)
  /\ UNCHANGED <<lockVars, dataVars>>

unlocked(t) ==
  /\ Is(t, "unlocked")
  /\ LET f == frame[t] IN
       guard' = [guard EXCEPT ![t] = [s \in Slots |-> IF s = f.to THEN f.new
                                                      ELSE IF s = f.from THEN "null" ELSE @[s]]]
  /\ SetFrame(t, None)
  /\ UNCHANGED <<lockVars, dataVars>>

(* Accesses through a guard: any may read, an exclusive one may write.     *)
read_value(t) ==
  /\ Is(t, "none") /\ ~NoGuard(t) /\ setup.writes > 0
  /\ copy[t] = -1
  /\ copy' = [copy EXCEPT ![t] = value]
  /\ UNCHANGED <<lockVars, guard, frame, value, writes>>

write_value(t) ==
  /\ copy[t] # -1
  /\ IF (\E s \in Slots : guard[t][s] = "lock") /\ writes < setup.writes
     THEN value' = copy[t] + 1 /\ writes' = writes + 1
     ELSE UNCHANGED <<value, writes>>
  /\ copy' = [copy EXCEPT ![t] = -1]
  /\ UNCHANGED <<lockVars, guard, frame>>

-----------------------------------------------------------------------------
LockStep(t, step) == step /\ UNCHANGED <<setup, guard, frame, dataVars>>

Progress(t) ==
  \/ LockStep(t, Inner(t))
  \/ /\ \/ returned(t) \/ guard_unlock(t) \/ unlocked(t) \/ write_value(t)
        \/ \E s \in Slots : destroy(t, s)
     /\ UNCHANGED setup

Next == \E t \in setup.threads :
  \/ Progress(t) \/ LockStep(t, Exchange(t) \/ Retry(t))
  \/ /\ \/ read_value(t)
        \/ \E s \in setup.slots :
             \/ do_lock(t, s) \/ do_try_lock(t, s) \/ do_lock_shared(t, s) \/ do_try_lock_shared(t, s)
             \/ \E r \in setup.slots : move(t, s, r)
     /\ UNCHANGED setup

Spec == ObjectInit /\ [][Next]_allVars

(* Threads run and destroy their guards.  Weak exchanges may fail for no   *)
(* reason, but not on every attempt: strong fairness.                      *)
FairSpec ==
  /\ Spec
  /\ \A t \in Threads : /\ WF_allVars(Progress(t))
                        /\ WF_allVars(LockStep(t, RetryDue(t)))
                        /\ SF_allVars(LockStep(t, Exchange(t)))

-----------------------------------------------------------------------------
Guards(t, g) == Cardinality({s \in Slots : guard[t][s] = g})

(* Guards and locks agree: between two operations a thread has as many     *)
(* open lock calls as guards that will unlock, after any sequence of       *)
(* moves, assignments and failed tries.  So nothing is unlocked twice or   *)
(* never.                                                                  *)
GuardsMatchLocks ==
  \A t \in Threads : Is(t, "none") =>
    /\ depth[t] = Guards(t, "lock") + Guards(t, "shared")
    /\ Guards(t, "shared") = (IF reading[t] THEN 1 ELSE 0)

(* No update is lost and no reader sees the value change: whoever is       *)
(* between reading and writing the value has read the latest one.          *)
NoLostUpdate ==
  /\ value = writes
  /\ \A t \in Threads : copy[t] # -1 => copy[t] = value

===============================================================================
