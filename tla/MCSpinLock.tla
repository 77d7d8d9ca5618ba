----------------------------- MODULE MCSpinLock -----------------------------
(* The four cores of the Makefile (CORE_COUNT), and counters so narrow that
   they wrap all the time. *)
EXTENDS SpinLock

CONSTANTS bsp, ap1, ap2, ap3
MCCores == {bsp, ap1, ap2, ap3}
=============================================================================
