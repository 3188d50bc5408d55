---------------------------- MODULE MCLockedObject ----------------------------
(* TLC instances of LockedObject.                                            *)
EXTENDS LockedObject

CONSTANTS t1, t2, t3

AllThreads == {t1, t2, t3}

Setup(kind, threads, slots, max) ==
  [kind |-> kind, threads |-> threads, slots |-> slots, writes |-> max]

AllSetups ==
  {Setup("plain", {t1, t2}, {1, 2}, 2), Setup("plain", {t1, t2, t3}, {1}, 0),
   Setup("shared", {t1, t2}, {1, 2}, 2), Setup("shared", {t1, t2, t3}, {1}, 0),
   Setup("recursive", {t1, t2}, {1, 2}, 2), Setup("recursive", {t1, t2, t3}, {1}, 0)}

===============================================================================
