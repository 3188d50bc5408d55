---------------------------- MODULE MCTicketMutex ----------------------------
(* TLC instances of TicketMutex.                                            *)
EXTENDS TicketMutex

CONSTANTS t1, t2, t3

ThreeThreads == {t1, t2, t3}

==============================================================================
