-------------------------- MODULE AbstractSemaphore --------------------------
(***************************************************************************)
(* What every counting semaphore of nova::sync promises its clients (the   *)
(* `counting_semaphore` concept): tokens are added by release, each        *)
(* successful acquisition consumes one that is there, and, under           *)
(* SFairness, no token stays unused for ever while a thread waits for one. *)
(***************************************************************************)
EXTENDS Integers

CONSTANTS Threads, InitialTokens, ReleaseSizes

VARIABLES
  tokens,    \* tokens released and not yet consumed
  waiting    \* threads inside a blocking acquisition

svars == <<tokens, waiting>>

SInit == tokens = InitialTokens /\ waiting = {}

SRelease(n) == tokens' = tokens + n /\ UNCHANGED waiting

SRequest(t) == t \notin waiting /\ waiting' = waiting \cup {t} /\ UNCHANGED tokens

STake(t) ==
  /\ tokens > 0
  /\ tokens' = tokens - 1
  /\ waiting' = waiting \ {t}

SGiveUp(t) == t \in waiting /\ waiting' = waiting \ {t} /\ UNCHANGED tokens

SNext ==
  \/ \E n \in ReleaseSizes : SRelease(n)
  \/ \E t \in Threads : SRequest(t) \/ STake(t) \/ SGiveUp(t)

SemaphoreSpec == SInit /\ [][SNext]_svars

SSomeTake == \E t \in waiting : STake(t)

SFairness == WF_svars(SSomeTake)

==============================================================================
