---------------------------- MODULE MCScheduler ----------------------------
(***************************************************************************)
(* Small programs for the scheduler: which tasks exist, who schedules      *)
(* them, for which thread, and how they may end.                           *)
(***************************************************************************)
EXTENDS Scheduler

CONSTANTS t1, t2, a, b, c

\* One worker, two workers, and two of which one is the caller's thread.
SomeSetups ==
  {[pool |-> {t1}, root |-> NoThread], [pool |-> {t1, t2}, root |-> NoThread],
   [pool |-> {t1, t2}, root |-> t1]}
TwoWorkers == {[pool |-> {t1, t2}, root |-> NoThread]}

\* a is a callback for thread t1 that spawns c; b is a fiber for any thread
\* that parks and may end with its wake-up still registered.
MixedPin      == (a :> t1) @@ (b :> AnyThread) @@ (c :> AnyThread)
MixedParent   == (a :> Main) @@ (b :> Main) @@ (c :> a)
MixedOutcomes == (a :> {"return"}) @@ (b :> {"return", "other"}) @@ (c :> {"return"})
MixedYields   == (a :> 1) @@ (b :> 2) @@ (c :> 0)

\* A single task that parks, seen by two workers.
RaceAny      == a :> AnyThread
RaceParent   == a :> Main
RaceOutcomes == a :> {"return"}
RaceYields   == a :> 2
=============================================================================
