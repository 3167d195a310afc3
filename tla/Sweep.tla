------------------------------- MODULE Sweep --------------------------------
(***************************************************************************)
(* taskRFScanning in main.cpp: the receivers in turn, each read, assessed   *)
(* and reported; then every tenth time a band scan of the CC1101; then a    *)
(* pause.  It composes the receivers and the activity classifier; alarms,   *)
(* mesh messages and the power policy that a sweep sets off are modelled by *)
(* AlertManager, Mesh and PowerManager.                                     *)
(***************************************************************************)
EXTENDS Receivers, ActivityClassifier

CONSTANTS
  SubGhz, TwoPointFour, FivePointEight,
  ScanEvery        \* 10 in the firmware

\* kSubGhzReceiver, kTwoPointFourReceiver and kFivePointEightReceiver.
ASSUME SweepAssumption ==
  /\ SubGhz = 0 /\ TwoPointFour = 1 /\ FivePointEight = 2
  /\ Modules = 0..2 /\ ScanEvery \in Nat \ {0}

VARIABLES
  rfPc, receiver, sweepCounter,
  activity,        \* the level assessed for the reading
  logged           \* the record just written to the card: receiver, frequency
                   \* and what the chip was tuned to

task == <<rfPc, receiver, sweepCounter, activity, logged>>
vars == <<receivers, memory, currentActivity, observed, task>>

NoRecord == [receiver |-> SubGhz, frequency |-> Unknown, at |-> Unknown]

Init ==
  /\ ReceiversInit /\ ActivityInit
  /\ rfPc = "read" /\ receiver = SubGhz /\ sweepCounter = 0
  /\ activity = 0 /\ logged = NoRecord

-----------------------------------------------------------------------------

\* readReceiverRssi
read ==
  /\ rfPc = "read" /\ rfPc' = "assess"
  /\ \/ receiver = SubGhz /\ readSubGhz
     \/ receiver = TwoPointFour /\ readTwoPointFour
     \/ receiver = FivePointEight /\ readFivePointEight
  /\ seen' = held /\ logged' = NoRecord
  /\ UNCHANGED <<table, held, currentActivity, observed, receiver, sweepCounter,
                 activity>>

assess ==
  /\ rfPc = "assess" /\ rfPc' = "report"
  /\ activity' \in classifyActivityLevel(rssi, seen)
  /\ assessActivity(receiver, activity')
  /\ UNCHANGED <<receivers, seen, receiver, sweepCounter, logged>>

receiverFrequencyMHz ==
  CASE receiver = SubGhz         -> currentFrequency
    [] receiver = TwoPointFour   -> currentFrequencyMHz
    [] receiver = FivePointEight -> currentChannel

\* Telemetry, and a record for the card if the reading is above 40.
report ==
  /\ rfPc = "report"
  /\ logged' = IF rssi > 40
               THEN [receiver |-> receiver, frequency |-> receiverFrequencyMHz,
                     at |-> at]
               ELSE logged
  /\ IF receiver = FivePointEight
     THEN rfPc' = "sweep" /\ receiver' = SubGhz
     ELSE rfPc' = "read" /\ receiver' = receiver + 1
  /\ seen' = {} /\ activity' = 0 /\ rssi' = 0 /\ at' = Unknown
  /\ UNCHANGED <<cc1101, sx1281, rx5808, fitted, table, held, currentActivity,
                 observed, sweepCounter>>

\* The current activity goes to the dashboard; is it time for a band scan?  The
\* bus may not be free then.
sweep ==
  /\ rfPc = "sweep"
  /\ sweepCounter' = (sweepCounter + 1) % ScanEvery
  /\ IF sweepCounter' = 0 THEN rfPc' \in {"scan", "sleep"} ELSE rfPc' = "sleep"
  /\ logged' = NoRecord
  /\ UNCHANGED <<receivers, memory, currentActivity, observed, receiver, activity>>

bandScan ==
  /\ rfPc = "scan"
  /\ scanAllBands
  /\ rfPc' = IF band' = 0 THEN "sleep" ELSE "scan"
  /\ UNCHANGED <<memory, currentActivity, observed, receiver, sweepCounter,
                 activity, logged>>

\* powerManager.update() and vTaskDelay().
wake ==
  /\ rfPc = "sleep" /\ rfPc' = "read"
  /\ UNCHANGED <<receivers, memory, currentActivity, observed, receiver,
                 sweepCounter, activity, logged>>

taskRFScanning == read \/ assess \/ report \/ sweep \/ bandScan \/ wake

\* A request for /api/config.
post ==
  /\ (\E t \in Tables : storeThresholds(t)) \/ stored
  /\ UNCHANGED <<receivers, currentActivity, observed, task>>

Tick ==
  /\ rfPc = "sleep"
  /\ ActivityTick
  /\ UNCHANGED <<receivers, task>>

Next == taskRFScanning \/ post \/ Tick

Spec == Init /\ [][Next]_vars

\* A reading of the SX1281 that gets the bus and whose commands succeed.
sxReading == rfPc = "read" /\ receiver = TwoPointFour /\ read /\ sxSamples

\* The RF task keeps running.  The bus and the SX1281 fail at times, but not
\* always.
FairSpec == Spec /\ WF_vars(taskRFScanning) /\ SF_vars(sxReading)

-----------------------------------------------------------------------------
(* Properties.                                                             *)

Channels == 0..(SxCount - 1)
Straps == 0..(RxCount - 1)

\* The fields of the drivers, of the classifier and of the task.
TypeOK ==
  /\ ccAnswers \in BOOLEAN /\ sxInitialized \in BOOLEAN
  /\ ccTuned \in Contract \cup {Unknown} /\ ccMode \in {"idle", "rx"}
  /\ currentFrequency \in Contract /\ saved \in Contract
  /\ band \in 0..(Len(Bands) + 1)
  /\ sxTuned \in Channels /\ channelIndex \in Channels
  /\ currentFrequencyMHz \in Channels
  /\ rxPins \in Straps /\ currentChannel \in Straps /\ scanStarted \in BOOLEAN
  /\ rssi \in 0..100
  /\ table \in Tables /\ held \subseteq Tables /\ seen \subseteq Tables
  /\ moduleIndex \in Modules /\ level \in Levels /\ isActive \in BOOLEAN
  /\ lastUpdateTime \in 0..(TimeMod - 1) /\ isActive <=> level > 0
  /\ quiet \in 0..(Timeout + MaxGap + 1) /\ gap \in 0..MaxGap
  /\ rfPc \in {"read", "assess", "report", "sweep", "scan", "sleep"}
  /\ receiver \in Modules /\ sweepCounter \in 0..(ScanEvery - 1)
  /\ activity \in Levels /\ logged.receiver \in Modules

\* The frequency in a record is the one the chip was tuned to, and receiving
\* on, when the reading was taken: neither a band scan, nor a command that
\* failed half way, nor the step to the next channel comes between them.  (A
\* CC1101 that does not answer is read all the same: hazard.)
LoggedWhereSampled ==
  logged.receiver # SubGhz \/ ccAnswers => logged.frequency = logged.at

\* Between band scans the CC1101 receives on its own frequency, however many
\* scans it made.
ScanLeavesNoTrace ==
  /\ band = 0 => currentFrequency = Home
  /\ band = 0 /\ ccAnswers => ccTuned = Home /\ ccMode = "rx"

\* The registers, weakest first, but for 128..146: -138 to -129 dBm do not fit
\* an int8_t and read as the strongest signals (hazard).
ccWeaker(p, q) ==
  LET signed(raw) == IF raw >= 128 THEN raw - 256 ELSE raw
  IN  /\ p \notin 128..146 /\ q \notin 128..146
      /\ signed(p) <= signed(q)

ReadingsRise ==
  /\ \A p, q \in 0..255 : /\ ccWeaker(p, q) => ccLevel(p) <= ccLevel(q)
                          /\ p >= q => sxLevel(p) <= sxLevel(q)
  /\ \A p, q \in FivePointEightMv : p <= q => rxLevel(p) <= rxLevel(q)

\* The levels a table gives to readings of n and more.
LevelsFrom ==
  [t \in Tables |->
     [n \in 0..100 |-> UNION {classifyActivityLevel(m, {t}) : m \in n..100}]]

\* Of two signals on a receiver the stronger one never reads lower, not across
\* the sign of the CC1101's register, the limits of a scale or its rounding;
\* and it would not be given a lower level than the one that was read, not even
\* by thresholds that do not rise (cc1101.cpp:165-177, sx1281.cpp:82-88,
\* rx5808.cpp:80, activity_classifier.h:32-41).
StrongerReadsHigher ==
  /\ ReadingsRise
  /\ rfPc = "assess" =>
       \A t \in seen : \A a \in classifyActivityLevel(rssi, {t}) :
         \A b \in LevelsFrom[t][rssi] : a <= b

Rising(t) == \A j, k \in 1..4 : j <= k => t[j] <= t[k]

\* A level assessed while the thresholds change is not above what all the
\* tables give; nor below, when each table rises.
LevelBetween ==
  rfPc = "report" =>
    /\ \E t \in seen : \E a \in classifyActivityLevel(rssi, {t}) : activity <= a
    /\ (\A t \in seen : Rising(t)) =>
         \E t \in seen : \E a \in classifyActivityLevel(rssi, {t}) : a <= activity

\* An activity nobody observes any more is not shown longer than the timeout
\* and one pause.
ActivityFresh == isActive => quiet <= Timeout + MaxGap

\* Nor is it dropped before.
KeptForTimeout == [][isActive /\ ~isActive' => quiet > Timeout]_vars

\* The reading the RF task reports, and the time the record was not renewed.
reported == IF rfPc = "report" THEN <<receiver, activity>> ELSE <<>>
unrenewed == IF isActive THEN quiet ELSE 0

Board == INSTANCE ActivityBoard
  WITH Receivers <- Modules, Nothing <- <<>>, Pause <- MaxGap,
       given <- reported, by <- moduleIndex, shown <- level, quiet <- unrenewed

\* The record shows what ActivityBoard says, across wraps of millis() and while
\* thresholds change: the last reading above none of any receiver, with the
\* level that is alarmed, from then to the timeout and one pause
\* (activity_classifier.cpp:22-35).
BoardSpec == Board!Spec

\* Every channel of the two sweeping receivers is read again and again, the
\* ones whose commands fail at times too.
ChannelsCovered ==
  /\ \A c \in Straps :
       []<>(rfPc = "assess" /\ receiver = FivePointEight /\ at = c)
  /\ \A c \in Channels :
       sxInitialized =>
         []<>(rfPc = "assess" /\ receiver = TwoPointFour /\ at = c)
=============================================================================
