----------------------- MODULE MCParkingAutoResetEvent -----------------------
(* TLC instances of ParkingAutoResetEvent.                                  *)
EXTENDS ParkingAutoResetEvent

CONSTANTS t1, t2, t3

ThreeThreads == {t1, t2, t3}

Use(who, spins, timed) == [waiting |-> who, backoff |-> spins, deadlines |-> timed]

(* Many waiters without deadlines, or a single one with.                    *)
SoundUsages == {Use(ThreeThreads, FALSE, FALSE), Use({t1}, TRUE, TRUE)}
DeadlineUsage == {Use(ThreeThreads, FALSE, TRUE)}

=============================================================================
