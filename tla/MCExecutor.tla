----------------------------- MODULE MCExecutor -----------------------------
(***************************************************************************)
(* lib.rs spawns two tasks, a 5 s and an 8 s timer loop, on a 1 ms timer  *)
(* interrupt.  The durations are scaled to 2 and 3 ticks: distinct, so    *)
(* the two timers expire both apart and in the same tick.                  *)
(***************************************************************************)
EXTENDS Executor

CONSTANTS T1, T2

MCTasks == {T1, T2}
MCSpawnOrder == <<T1, T2>>
MCDuration == (T1 :> 2) @@ (T2 :> 3)

=============================================================================
