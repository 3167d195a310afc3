------------------------- MODULE ActivityClassifier -------------------------
(***************************************************************************)
(* ActivityClassifier (activity_classifier.cpp): a level for a reading from *)
(* the thresholds in ConfigManager, and one record of current activity for  *)
(* all receivers.  The RF task reads the four thresholds one by one while    *)
(* an HTTP request on another task may store others.                        *)
(*                                                                         *)
(* lastUpdateTime is kept as its age, the difference the code computes.     *)
(* firstObservedTime and normalizedRssi have no reader and are left out.    *)
(***************************************************************************)
EXTENDS Integers, FiniteSets

CONSTANTS
  Modules,         \* kReceiverCount receivers
  Tables,          \* threshold tables, low to critical
  Timeout,         \* ACTIVITY_TIMEOUT_MS
  MaxGap,          \* time between two readings
  TimeMod          \* 2^32 in the firmware

Levels == 0..4                          \* ACTIVITY_NONE to ACTIVITY_CRITICAL
Thresholds == [1..4 -> Nat]

ASSUME ActivityAssumption ==
  /\ Tables \subseteq Thresholds /\ Tables # {}
  /\ Timeout \in Nat /\ MaxGap \in Nat \ {0} /\ TimeMod \in Nat
  /\ Timeout + MaxGap < TimeMod

VARIABLES
  table,           \* the thresholds last stored
  held,            \* the tables whose fields memory may hold now
  seen,            \* those it held since assessActivity() began
  \* ActivityData currentActivity
  moduleIndex, level, lastUpdateTime, isActive,
  \* what happened, for the properties
  quiet,           \* time since a reading above ACTIVITY_NONE
  gap              \* time since the last reading

memory == <<table, held, seen>>
currentActivity == <<moduleIndex, level, lastUpdateTime, isActive>>
observed == <<quiet, gap>>

ActivityInit ==
  /\ table \in Tables /\ held = {table} /\ seen = {}
  /\ moduleIndex = 0 /\ level = 0 /\ lastUpdateTime = 0 /\ isActive = FALSE
  /\ quiet = Timeout + MaxGap + 1 /\ gap = 0

-----------------------------------------------------------------------------

\* fromJSON() assigns the whole configuration; a reader may find any part of it.
\* Nothing makes the four thresholds rise.
storeThresholds(t) ==
  /\ held = {table} /\ t # table
  /\ table' = t /\ held' = {table, t}
  /\ seen' = IF seen = {} THEN {} ELSE seen \cup {t}

stored ==
  /\ held # {table} /\ held' = {table}
  /\ UNCHANGED <<table, seen>>

\* (variant) the first threshold that is not reached ends the search
classifyActivityLevel_Upward(n, tables) ==
  {k \in Levels : /\ \A j \in 1..k : \E t \in tables : n >= t[j]
                  /\ k = 4 \/ \E t \in tables : n < t[k + 1]}

\* From critical down, each threshold taken from any of the tables: one level
\* for one table.
classifyActivityLevel(n, tables) ==
  {k \in Levels : /\ k = 0 \/ \E t \in tables : n >= t[k]
                  /\ \A j \in (k + 1)..4 : \E t \in tables : n < t[j]}

expire ==
  IF isActive /\ lastUpdateTime > Timeout
  THEN level' = 0 /\ isActive' = FALSE
  ELSE UNCHANGED <<level, isActive>>

\* (variant) a reading below the current level does not renew the record
record_Highest(m, a) ==
  /\ moduleIndex' = m /\ level' = a /\ isActive' = TRUE
  /\ lastUpdateTime' = IF isActive /\ a < level THEN lastUpdateTime ELSE 0

record(m, a) ==
  /\ moduleIndex' = m /\ level' = a /\ isActive' = TRUE
  /\ lastUpdateTime' = 0

\* The level a of a reading of receiver m.
assessActivity(m, a) ==
  /\ IF a > 0 THEN record(m, a)
     ELSE expire /\ UNCHANGED <<moduleIndex, lastUpdateTime>>
  /\ quiet' = IF a > 0 THEN 0 ELSE quiet
  /\ gap' = 0
  /\ UNCHANGED <<table, held>>

ActivityTick ==
  /\ gap < MaxGap /\ gap' = gap + 1
  /\ lastUpdateTime' = IF isActive THEN (lastUpdateTime + 1) % TimeMod ELSE 0
  /\ quiet' = IF quiet > Timeout + MaxGap THEN quiet ELSE quiet + 1
  /\ UNCHANGED <<memory, moduleIndex, level, isActive>>

=============================================================================
