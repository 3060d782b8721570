---------------------------- MODULE GraphWatchdog ----------------------------
(***************************************************************************)
(* The watchdog thread of ngcd/src/backend_target.c, which ends a daemon   *)
(* whose camera graph does not stop, and the main thread it watches.  They *)
(* share two atomics.  A deadline is the time left until it.               *)
(***************************************************************************)
EXTENDS Naturals

CONSTANTS Limit, None  \* GRAPH_STOP_WATCHDOG_NS, and no deadline (0 in C)

ASSUME LimitAssumption == Limit \in Nat \ {0} /\ None \notin Nat

VARIABLES
  deadline,  \* graph_stop_deadline_ns
  shutdown,  \* graph_watchdog_shutdown
  main,      \* the main thread
  fresh,     \* the deadline it computed, before it is stored
  thread,    \* the watchdog thread
  loaded,    \* the deadline it looked at
  age,       \* ghost: how long the current stop has taken, up to Limit
  late       \* ghost: the stop it looked at ended since

vars == <<deadline, shutdown, main, fresh, thread, loaded, age, late>>

Times == 0..Limit \cup {None}

TypeOK ==
  /\ {deadline, fresh, loaded, age} \subseteq Times
  /\ {shutdown, late} \subseteq BOOLEAN
  /\ main \in {"idle", "store", "stop", "clear", "flag", "join", "ended"}
  /\ thread \in {"test", "load", "clock", "sleep", "alarm", "returned"}

Init ==
  /\ deadline = None /\ fresh = None /\ loaded = None /\ age = None
  /\ shutdown = FALSE /\ late = FALSE
  /\ main = "idle" /\ thread = "test"

mine == <<thread, loaded>>      \* the watchdog's own
yours == <<main, fresh, age>>   \* the main thread's own

-----------------------------------------------------------------------------
(* The main thread.  An exit of the process is thread = "alarm".           *)
Main(from, to) == thread # "alarm" /\ main = from /\ main' = to

BeginStop ==
  /\ Main("idle", "store")
  /\ fresh' = Limit /\ age' = 0
  /\ UNCHANGED <<deadline, shutdown, mine, late>>

StoreDeadline ==
  /\ Main("store", "stop")
  /\ deadline' = fresh /\ fresh' = None
  /\ UNCHANGED <<shutdown, mine, age, late>>

StopReturns ==
  /\ Main("stop", "clear")
  /\ UNCHANGED <<deadline, shutdown, fresh, mine, age, late>>

Clear ==
  /\ Main("clear", "idle")
  /\ deadline' = None /\ age' = None
  /\ late' = (late \/ thread = "clock")
  /\ UNCHANGED <<shutdown, fresh, mine>>

(* The end of target_start's failure and of target_stop: clear, flag, join.*)
ClearAgain ==
  /\ Main("idle", "flag")
  /\ deadline' = None
  /\ UNCHANGED <<shutdown, fresh, age, mine, late>>
Flag ==
  /\ Main("flag", "join")
  /\ shutdown' = TRUE
  /\ UNCHANGED <<deadline, fresh, age, mine, late>>
Join ==
  /\ Main("join", "ended") /\ thread = "returned"
  /\ UNCHANGED <<deadline, shutdown, fresh, age, mine, late>>

-----------------------------------------------------------------------------
Test ==
  /\ thread = "test"
  /\ thread' = IF shutdown THEN "returned" ELSE "load"
  /\ UNCHANGED <<deadline, shutdown, yours, loaded, late>>
LoadDeadline ==
  /\ thread = "load"
  /\ thread' = IF deadline = None THEN "sleep" ELSE "clock"
  /\ loaded' = deadline /\ late' = FALSE
  /\ UNCHANGED <<deadline, shutdown, yours>>
ReadClockWrong ==  \* the stop may take one tick less
  /\ thread = "clock"
  /\ thread' = IF loaded <= 1 THEN "alarm" ELSE "sleep"
  /\ UNCHANGED <<deadline, shutdown, yours, loaded, late>>
ReadClock ==
  /\ thread = "clock"
  /\ thread' = IF loaded = 0 THEN "alarm" ELSE "sleep"
  /\ UNCHANGED <<deadline, shutdown, yours, loaded, late>>
SleepWrong ==  \* the deadline is not looked at again
  /\ thread = "sleep"
  /\ thread' = IF loaded = None THEN "sleep" ELSE "clock"
  /\ UNCHANGED <<deadline, shutdown, yours, loaded, late>>
Sleep ==
  /\ thread = "sleep"
  /\ thread' = "test"
  /\ UNCHANGED <<deadline, shutdown, yours, loaded, late>>

Left(t) == IF t \in {None, 0} THEN t ELSE t - 1

Tick ==
  /\ deadline' = Left(deadline) /\ fresh' = Left(fresh) /\ loaded' = Left(loaded)
  /\ age' = IF age \in {None, Limit} THEN age ELSE age + 1
  /\ UNCHANGED <<shutdown, main, thread, late>>

Watch == Test \/ LoadDeadline \/ ReadClock \/ Sleep
StopWatchdog == ClearAgain \/ Flag \/ Join
Next == \/ BeginStop \/ StoreDeadline \/ StopReturns \/ Clear \/ StopWatchdog
        \/ Watch \/ Tick

(* The kernel runs the thread and time passes; a stop may never return.    *)
Spec == Init /\ [][Next]_vars /\ WF_vars(Watch) /\ WF_vars(Tick) /\ WF_vars(Flag)

-----------------------------------------------------------------------------
(* "camera graph stop watchdog expired": the daemon ends only in a stop     *)
(* that has taken the whole limit.  The one exception, `late', is a stop    *)
(* that ended between the watchdog's two looks, at the deadline and at the  *)
(* clock: then a daemon ends whose graph stopped in time.                   *)
AlarmIsDue == thread = "alarm" /\ ~late => main \in {"stop", "clear"} /\ age = Limit

(* A stop that hangs ends the daemon.                                      *)
HangEnds == main = "stop" ~> (main # "stop" \/ thread = "alarm")

=============================================================================
