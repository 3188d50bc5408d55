-------------------------- MODULE MCParkingSemaphore --------------------------
(* TLC instances of ParkingSemaphore.                                        *)
EXTENDS ParkingSemaphore

CONSTANTS t1, t2, t3

ThreeThreads == {t1, t2, t3}

Use(who, spins, deadlines) ==
  [acquirers |-> who, backoff |-> spins, timed |-> deadlines]

(* Three acquirers, two with deadlines, and one among others.                 *)
AllUsages == {Use(ThreeThreads, TRUE, FALSE), Use({t1, t2}, FALSE, TRUE),
              Use({t1}, TRUE, FALSE)}
ManyAcquirers == {Use(ThreeThreads, FALSE, FALSE)}

=============================================================================
