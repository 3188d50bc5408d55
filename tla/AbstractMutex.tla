---------------------------- MODULE AbstractMutex ----------------------------
(***************************************************************************)
(* What every mutex of nova::sync promises to its clients (the `mutex` and *)
(* `timed_mutex` concepts): at most one thread owns the lock, it is        *)
(* acquired only while nobody owns it, only its owner gives it up, and a   *)
(* thread that asked for it either waits, owns it, or gave up (a timed     *)
(* acquisition that ran out of time).  AFairness is the progress a blocking *)
(* lock owes its waiters, short of starvation freedom: free while somebody *)
(* waits, it is eventually acquired.                                       *)
(***************************************************************************)
EXTENDS FiniteSets

CONSTANT Threads

VARIABLES
  holders,   \* the threads that own the lock
  waiting    \* the threads inside a blocking acquisition

avars == <<holders, waiting>>

AInit == holders = {} /\ waiting = {}

\* A thread enters a blocking acquisition that cannot succeed at once.
ARequest(t) ==
  /\ t \notin holders \cup waiting
  /\ waiting' = waiting \cup {t}
  /\ UNCHANGED holders

\* A waiting thread, or one on its fast path, becomes the owner.
AAcquire(t) ==
  /\ holders = {}
  /\ holders' = {t}
  /\ waiting' = waiting \ {t}

\* A timed acquisition fails.
AGiveUp(t) ==
  /\ t \in waiting
  /\ waiting' = waiting \ {t}
  /\ UNCHANGED holders

\* The owner unlocks.
ARelease(t) ==
  /\ holders = {t}
  /\ holders' = {}
  /\ UNCHANGED waiting

ANext == \E t \in Threads : ARequest(t) \/ AAcquire(t) \/ AGiveUp(t) \/ ARelease(t)

AbstractSpec == AInit /\ [][ANext]_avars

\* The lock does not stay free for ever while threads wait for it.
ASomeAcquisition == \E t \in waiting : AAcquire(t)

AFairness == WF_avars(ASomeAcquisition)

=============================================================================
