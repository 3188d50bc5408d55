---------------------- MODULE MCParkingManualResetEvent ----------------------
(* TLC instances of ParkingManualResetEvent.                                *)
EXTENDS ParkingManualResetEvent

CONSTANTS t1, t2, t3

ThreeThreads == {t1, t2, t3}

==============================================================================
