----------------------------- MODULE MCRcuLock -----------------------------
(* Model values for checking RcuLock with TLC.                             *)
EXTENDS RcuLock

CONSTANTS t1, t2, t3, o1, o2

ThreeThreads == {t1, t2, t3}
TwoReaders == {t1, t2}
TwoObjs == {o1, o2}
=============================================================================
