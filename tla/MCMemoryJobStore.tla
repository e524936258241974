--------------------------- MODULE MCMemoryJobStore ---------------------------
(* Two sessions, two workers, two attempts, a lease of two ticks and calls   *)
(* that may be one tick late.                                                *)
EXTENDS MemoryJobStore

===============================================================================
