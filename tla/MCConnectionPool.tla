-------------------------- MODULE MCConnectionPool --------------------------
(* Three threads and two slots: one thread can always find the pool full.  *)
EXTENDS ConnectionPool

CONSTANTS t1, t2, t3
MCThreads == {t1, t2, t3}

\* Two connections hold slots and each thread may be discarding another.
MCConnections == 1..5
=============================================================================
