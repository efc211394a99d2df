--------------------------- MODULE MCCommandQueue ---------------------------
(***************************************************************************)
(* Views of the lock-free command queue for model checking.                *)
(***************************************************************************)
EXTENDS CommandQueue, TLC

CONSTANTS c1, c2, c3, t1, t2
OneByT1 == c1 :> t1 @@ c2 :> t2 @@ c3 :> t2
OnlyC1 == c1 :> t1

ASSUME EpochNeverWraps

\* The part of the state that decides which memory is accessed and which command
\* runs next.  The wake flag and the eventfd only decide when the loop runs,
\* which another event source may make it do at any time.
MemoryView == <<soVars, first, last, pc, local, torun, victim, hist>>
=============================================================================
