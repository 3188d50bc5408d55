---------------------------- MODULE MCParkingMutex ----------------------------
(* TLC instances of ParkingMutex.                                            *)
EXTENDS ParkingMutex

CONSTANTS t1, t2, t3

ThreeThreads == {t1, t2, t3}

===============================================================================
