----------------------------- MODULE SweepProofs ----------------------------
(***************************************************************************)
(* What a sweep guarantees for any bands, numbers of channels, threshold    *)
(* tables, timeout and clock width.                                         *)
(***************************************************************************)
EXTENDS Sweep, TLAPS

SubGhzOK ==
  /\ ccAnswers \in BOOLEAN /\ ccTuned \in Contract \cup {Unknown}
  /\ ccMode \in {"idle", "rx"} /\ currentFrequency \in Contract /\ saved = Home
  /\ band \in 0..(Len(Bands) + 1)
  /\ band = 0 => currentFrequency = Home
  /\ ccAnswers => ccTuned = currentFrequency /\ ccMode = "rx"

OthersOK ==
  /\ sxInitialized \in BOOLEAN
  /\ sxTuned \in Channels /\ channelIndex \in Channels
  /\ currentFrequencyMHz \in Channels
  /\ rxPins \in Straps /\ currentChannel = rxPins /\ scanStarted \in BOOLEAN

\* A reading that is more than the floor was taken where the driver says.
ReadingOK ==
  /\ rssi \in 0..100
  /\ rfPc \in {"assess", "report"} /\ rssi > 0 =>
       /\ receiver = SubGhz /\ ccAnswers => at = currentFrequency
       /\ receiver = TwoPointFour => at = currentFrequencyMHz
       /\ receiver = FivePointEight => at = currentChannel

TaskOK ==
  /\ rfPc \in {"read", "assess", "report", "sweep", "scan", "sleep"}
  /\ receiver \in Modules /\ sweepCounter \in 0..(ScanEvery - 1)
  /\ rfPc # "scan" => band = 0

LoggedOK == logged.receiver \in Modules /\ LoggedWhereSampled

MemoryOK ==
  /\ table \in Tables /\ held \subseteq Tables /\ table \in held
  /\ seen \subseteq Tables
  /\ rfPc \in {"assess", "report"} => seen # {}
  /\ activity \in Levels /\ LevelBetween

\* The age of the record is the time since the last observation, and small.
RecordOK ==
  /\ moduleIndex \in Modules /\ level \in Levels /\ isActive \in BOOLEAN
  /\ isActive <=> level > 0
  /\ lastUpdateTime \in 0..(TimeMod - 1)
  /\ quiet \in 0..(Timeout + MaxGap + 1) /\ gap \in 0..MaxGap
  /\ isActive => lastUpdateTime = quiet /\ quiet <= Timeout + gap

IInv ==
  /\ SubGhzOK /\ OthersOK /\ ReadingOK /\ TaskOK /\ LoggedOK /\ MemoryOK
  /\ RecordOK

LEMMA Numbers ==
  /\ SxCount \in Nat \ {0} /\ RxCount \in Nat \ {0} /\ ScanEvery \in Nat \ {0}
  /\ SubGhz = 0 /\ TwoPointFour = 1 /\ FivePointEight = 2 /\ Modules = 0..2
  /\ Timeout \in Nat /\ MaxGap \in Nat \ {0} /\ TimeMod \in Nat
  /\ Timeout + MaxGap < TimeMod /\ Len(Bands) \in Nat
  /\ \A i \in 1..Len(Bands) : Bands[i] \in Contract
BY ReceiversAssumption, ActivityAssumption, SweepAssumption

-----------------------------------------------------------------------------
(* Readings and levels.                                                    *)

LEMMA Constrained == ASSUME NEW n \in Int PROVE constrain(n) \in 0..100
BY DEF constrain

\* Whatever a chip's register or output says, the reading is in 0..100.
LEMMA Readings ==
  /\ \A raw \in 0..255 : ccLevel(raw) \in 0..100 /\ sxLevel(raw) \in 0..100
  /\ \A mv \in Nat : rxLevel(mv) \in 0..100
<1>1. ASSUME NEW raw \in 0..255 PROVE ccLevel(raw) \in 0..100
  <2>1. ccDbm(raw) \in Int
    BY DEF ccDbm, int8
  <2>2. ((ccDbm(raw) - (-120)) * 100) \div ((-30) - (-120)) \in Int
    BY <2>1
  <2> QED BY <2>2, Constrained DEF ccLevel, normalized
<1>2. ASSUME NEW raw \in 0..255 PROVE sxLevel(raw) \in 0..100
  BY Constrained DEF sxLevel
<1>3. ASSUME NEW mv \in Nat PROVE rxLevel(mv) \in 0..100
  BY Constrained DEF rxLevel, normalized
<1> QED BY <1>1, <1>2, <1>3

\* A table gives a level, at least that of any threshold that is reached.
LEMMA LevelReached ==
  ASSUME NEW t \in Thresholds, NEW n \in Nat, NEW k \in Levels,
         k = 0 \/ n >= t[k]
  PROVE  \E a \in classifyActivityLevel(n, {t}) : a >= k
<1> USE DEF classifyActivityLevel, Levels, Thresholds
<1>1. CASE n >= t[4]
  BY <1>1
<1>2. CASE n < t[4] /\ n >= t[3]
  BY <1>2
<1>3. CASE n < t[4] /\ n < t[3] /\ n >= t[2]
  BY <1>3
<1>4. CASE n < t[4] /\ n < t[3] /\ n < t[2] /\ n >= t[1]
  BY <1>4
<1>5. CASE n < t[4] /\ n < t[3] /\ n < t[2] /\ n < t[1]
  BY <1>5
<1> QED BY <1>1, <1>2, <1>3, <1>4, <1>5

\* A table that rises gives a level below any threshold that is not reached.
LEMMA LevelBelow ==
  ASSUME NEW t \in Thresholds, Rising(t), NEW n \in Nat, NEW k \in Levels,
         k = 4 \/ n < t[k + 1]
  PROVE  \E a \in classifyActivityLevel(n, {t}) : a <= k
<1>0. 0 \in Levels
  BY DEF Levels
<1>1. PICK a \in classifyActivityLevel(n, {t}) : a >= 0
  BY <1>0, LevelReached
<1>2. a \in Levels /\ (a = 0 \/ n >= t[a])
  BY DEF classifyActivityLevel
<1>3. ASSUME a > k PROVE FALSE
  <2>1. k + 1 \in 1..4 /\ a \in 1..4 /\ k + 1 <= a
    BY <1>2, <1>3 DEF Levels
  <2>2. t[k + 1] <= t[a] /\ t[k + 1] \in Nat /\ t[a] \in Nat
    BY <2>1 DEF Rising, Thresholds
  <2> QED BY <1>2, <1>3, <2>1, <2>2 DEF Levels
<1> QED BY <1>2, <1>3 DEF Levels

\* A mixture of tables gives no level above them all and, if they rise, none
\* below them all.
LEMMA Mixed ==
  ASSUME NEW S \in SUBSET Tables, S # {}, NEW n \in Nat,
         NEW k \in classifyActivityLevel(n, S)
  PROVE  /\ \E t \in S : \E a \in classifyActivityLevel(n, {t}) : k <= a
         /\ (\A t \in S : Rising(t)) =>
              \E t \in S : \E a \in classifyActivityLevel(n, {t}) : a <= k
<1>0. /\ S \subseteq Thresholds /\ k \in Levels
      /\ k = 0 \/ \E t \in S : n >= t[k]
      /\ \A j \in (k + 1)..4 : \E t \in S : n < t[j]
  BY ActivityAssumption DEF classifyActivityLevel
<1>1. \E t \in S : k = 0 \/ n >= t[k]
  BY <1>0
<1>2. \E t \in S : k = 4 \/ n < t[k + 1]
  BY <1>0 DEF Levels
<1>3. \A t \in S : \A a \in classifyActivityLevel(n, {t}) : a >= k <=> k <= a
  BY <1>0 DEF classifyActivityLevel, Levels
<1>4. \E t \in S : \E a \in classifyActivityLevel(n, {t}) : k <= a
  BY <1>0, <1>1, <1>3, LevelReached
<1>5. ASSUME \A t \in S : Rising(t)
      PROVE  \E t \in S : \E a \in classifyActivityLevel(n, {t}) : a <= k
  BY <1>0, <1>2, <1>5, LevelBelow
<1> QED BY <1>4, <1>5

-----------------------------------------------------------------------------
(* A stronger signal reads higher.                                         *)

LEMMA ConstrainRises ==
  ASSUME NEW m \in Int, NEW n \in Int, m <= n
  PROVE  constrain(m) <= constrain(n)
BY DEF constrain

LEMMA ScalesRise ==
  ASSUME NEW m \in Int, NEW n \in Int, m <= n
  PROVE  /\ normalized(m, -120, -30) <= normalized(n, -120, -30)
         /\ normalized(m, 350, 1400) <= normalized(n, 350, 1400)
<1>1. /\ ((m - (-120)) * 100) \div ((-30) - (-120)) \in Int
      /\ ((n - (-120)) * 100) \div ((-30) - (-120)) \in Int
      /\ ((m - (-120)) * 100) \div ((-30) - (-120))
           <= ((n - (-120)) * 100) \div ((-30) - (-120))
  OBVIOUS
<1>2. /\ ((m - 350) * 100) \div (1400 - 350) \in Int
      /\ ((n - 350) * 100) \div (1400 - 350) \in Int
      /\ ((m - 350) * 100) \div (1400 - 350)
           <= ((n - 350) * 100) \div (1400 - 350)
  OBVIOUS
<1> QED BY <1>1, <1>2, ConstrainRises DEF normalized

\* In dBm a CC1101 register keeps its order, sign and rounding included,
\* wherever int8_t holds it.
LEMMA DbmRises ==
  ASSUME NEW p \in 0..255, NEW q \in 0..255, ccWeaker(p, q)
  PROVE  ccDbm(p) \in Int /\ ccDbm(q) \in Int /\ ccDbm(p) <= ccDbm(q)
<1>1. ASSUME NEW r \in 0..127 PROVE ccDbm(r) = r \div 2 - 74 /\ r \div 2 \in 0..63
  BY DEF ccDbm, int8
<1>2. ASSUME NEW r \in 147..255
      PROVE  ccDbm(r) = -((256 - r) \div 2) - 74 /\ (256 - r) \div 2 \in 0..54
  BY DEF ccDbm, int8
<1>3. p \notin 128..146 /\ q \notin 128..146
  BY DEF ccWeaker
<1>4. CASE p \in 0..127
  <2>1. q \in 0..127 /\ p <= q
    BY <1>3, <1>4 DEF ccWeaker
  <2>2. p \div 2 <= q \div 2
    BY <2>1
  <2> QED BY <1>1, <1>4, <2>1, <2>2
<1>5. CASE p \in 147..255 /\ q \in 0..127
  BY <1>1, <1>2, <1>5
<1>6. CASE p \in 147..255 /\ q \in 147..255
  <2>1. p <= q
    BY <1>6 DEF ccWeaker
  <2>2. (256 - q) \div 2 <= (256 - p) \div 2
    BY <1>6, <2>1
  <2> QED BY <1>2, <1>6, <2>2
<1> QED BY <1>3, <1>4, <1>5, <1>6

\* The registers left out are the weakest, and read as the strongest.
LEMMA WeakestReadHighest == \A raw \in 128..146 : ccLevel(raw) = 100
<1> SUFFICES ASSUME NEW raw \in 128..146 PROVE ccLevel(raw) = 100
  OBVIOUS
<1>1. ccDbm(raw) \in 118..127
  BY DEF ccDbm, int8
<1> QED BY <1>1 DEF ccLevel, normalized, constrain

LEMMA DriversRise == ReadingsRise
<1>1. ASSUME NEW p \in 0..255, NEW q \in 0..255, ccWeaker(p, q)
      PROVE  ccLevel(p) <= ccLevel(q)
  <2>1. ccDbm(p) \in Int /\ ccDbm(q) \in Int /\ ccDbm(p) <= ccDbm(q)
    BY <1>1, DbmRises
  <2>2. normalized(ccDbm(p), -120, -30) <= normalized(ccDbm(q), -120, -30)
    BY ONLY <2>1, ScalesRise
  <2> QED BY <2>2 DEF ccLevel
<1>2. ASSUME NEW p \in 0..255, NEW q \in 0..255, p >= q
      PROVE  sxLevel(p) <= sxLevel(q)
  <2>1. /\ (2 * (240 - p) * 100 + 180) \div 360 \in Int
        /\ (2 * (240 - q) * 100 + 180) \div 360 \in Int
        /\ (2 * (240 - p) * 100 + 180) \div 360
             <= (2 * (240 - q) * 100 + 180) \div 360
    BY <1>2
  <2> QED BY <2>1, ConstrainRises DEF sxLevel
<1>3. ASSUME NEW p \in FivePointEightMv, NEW q \in FivePointEightMv, p <= q
      PROVE  rxLevel(p) <= rxLevel(q)
  BY <1>3, ReceiversAssumption, ScalesRise DEF rxLevel
<1> QED BY <1>1, <1>2, <1>3 DEF ReadingsRise

\* One table gives a stronger reading no lower level, even if its thresholds
\* do not rise: what the weaker one reached, the stronger one reaches.
LEMMA LevelRises ==
  ASSUME NEW t \in Thresholds, NEW m \in Nat, NEW n \in Nat, m <= n,
         NEW a \in classifyActivityLevel(m, {t}),
         NEW b \in classifyActivityLevel(n, {t})
  PROVE  a <= b
<1>1. /\ a \in Levels /\ (a = 0 \/ m >= t[a])
      /\ b \in Levels /\ \A j \in (b + 1)..4 : n < t[j]
  BY DEF classifyActivityLevel
<1>2. ASSUME a > b PROVE FALSE
  <2>1. a \in (b + 1)..4 /\ a \in 1..4
    BY <1>1, <1>2 DEF Levels
  <2>2. n < t[a] /\ m >= t[a] /\ t[a] \in Nat
    BY <1>1, <2>1 DEF Thresholds
  <2> QED BY <2>2
<1> QED BY <1>1, <1>2 DEF Levels

-----------------------------------------------------------------------------
(* The inductive invariant.                                                *)

LEMMA InvInit == Init => IInv
<1> SUFFICES ASSUME Init PROVE IInv
  OBVIOUS
<1> USE DEF Init, ReceiversInit, ActivityInit
<1>1. SubGhzOK
  BY ReceiversAssumption, Numbers DEF SubGhzOK
<1>2. OthersOK
  <2>1. 0 \in Channels /\ 0 \in Straps
    BY Numbers DEF Channels, Straps
  <2> QED BY <2>1 DEF OthersOK
<1>3. ReadingOK
  BY DEF ReadingOK
<1>4. TaskOK
  BY Numbers DEF TaskOK
<1>5. LoggedOK
  BY Numbers DEF LoggedOK, LoggedWhereSampled, NoRecord
<1>6. MemoryOK
  BY DEF MemoryOK, LevelBetween, Levels
<1>7. RecordOK
  <2>1. /\ moduleIndex \in Modules /\ level \in Levels /\ level = 0
        /\ lastUpdateTime \in 0..(TimeMod - 1)
        /\ quiet \in 0..(Timeout + MaxGap + 1) /\ gap \in 0..MaxGap
    BY Numbers DEF Levels
  <2>2. ~(level > 0)
    BY <2>1
  <2>3. isActive = FALSE
    OBVIOUS
  <2> QED BY <2>1, <2>2, <2>3 DEF RecordOK
<1> QED BY <1>1, <1>2, <1>3, <1>4, <1>5, <1>6, <1>7 DEF IInv

\* A part holds on as long as the variables it speaks of do.
LEMMA Frames ==
  /\ SubGhzOK /\ UNCHANGED <<ccAnswers, cc1101>> => SubGhzOK'
  /\ OthersOK /\ UNCHANGED <<sxInitialized, sx1281, rx5808>> => OthersOK'
  /\ RecordOK /\ UNCHANGED <<currentActivity, observed>> => RecordOK'
  /\ LoggedOK /\ UNCHANGED <<ccAnswers, logged>> => LoggedOK'
  /\ LoggedOK /\ UNCHANGED ccAnswers /\ logged' = NoRecord => LoggedOK'
<1>1. SubGhzOK /\ UNCHANGED <<ccAnswers, cc1101>> => SubGhzOK'
  BY DEF SubGhzOK, cc1101
<1>2. OthersOK /\ UNCHANGED <<sxInitialized, sx1281, rx5808>> => OthersOK'
  BY DEF OthersOK, sx1281, rx5808
<1>3. RecordOK /\ UNCHANGED <<currentActivity, observed>> => RecordOK'
  BY DEF RecordOK, currentActivity, observed
<1>4. LoggedOK /\ UNCHANGED <<ccAnswers, logged>> => LoggedOK'
  BY DEF LoggedOK, LoggedWhereSampled
<1>5. LoggedOK /\ UNCHANGED ccAnswers /\ logged' = NoRecord => LoggedOK'
  BY Numbers DEF LoggedOK, LoggedWhereSampled, NoRecord
<1> QED BY <1>1, <1>2, <1>3, <1>4, <1>5

LEMMA ReadStep == IInv /\ read => IInv'
<1> SUFFICES ASSUME IInv, read PROVE IInv'
  OBVIOUS
<1> USE DEF IInv
<1>1. RecordOK' /\ UNCHANGED fitted
  BY Frames DEF read, readSubGhz, readTwoPointFour, readFivePointEight
<1>2. LoggedOK'
  BY <1>1, Frames DEF read, fitted
<1>3. TaskOK'
  BY DEF read, TaskOK, readSubGhz, readTwoPointFour, readFivePointEight, cc1101
<1>4. MemoryOK'
  BY DEF read, MemoryOK, LevelBetween
<1>5. SubGhzOK' /\ OthersOK' /\ ReadingOK'
  <2>1. CASE receiver = SubGhz /\ readSubGhz
    <3>1. SubGhzOK' /\ OthersOK'
      BY <1>1, <2>1, Frames DEF readSubGhz, fitted
    <3>2. RssiRegister \subseteq 0..255
      BY ReceiversAssumption DEF RssiRegister
    <3>3. rssi' \in 0..100
      <4>1. CASE rssi' = 0
        BY <4>1
      <4>2. CASE \E raw \in RssiRegister : rssi' = ccLevel(raw)
        <5>1. PICK raw \in RssiRegister : rssi' = ccLevel(raw)
          BY <4>2
        <5>2. raw \in 0..255
          BY <3>2
        <5> QED BY <5>1, <5>2, Readings
      <4> QED BY <2>1, <4>1, <4>2 DEF readSubGhz
    <3>4. rssi' > 0 /\ ccAnswers => at' = currentFrequency
      BY <2>1 DEF readSubGhz, SubGhzOK
    <3>5. UNCHANGED <<currentFrequency, ccAnswers>> /\ receiver' = SubGhz
      BY <2>1 DEF read, readSubGhz, cc1101, fitted
    <3> QED BY <3>1, <3>3, <3>4, <3>5, Numbers DEF ReadingOK
  <2>2. CASE receiver = TwoPointFour /\ readTwoPointFour
    <3>1. SubGhzOK'
      BY <1>1, <2>2, Frames DEF readTwoPointFour, fitted
    <3>2. TwoPointFourRaw \cup {240} \subseteq 0..255
      BY ReceiversAssumption
    <3>3. rssi' \in 0..100
      <4>1. CASE rssi' = 0
        BY <4>1
      <4>2. CASE \E raw \in TwoPointFourRaw \cup {240} : rssi' = sxLevel(raw)
        <5>1. PICK raw \in TwoPointFourRaw \cup {240} : rssi' = sxLevel(raw)
          BY <4>2
        <5>2. raw \in 0..255
          BY <3>2
        <5> QED BY <5>1, <5>2, Readings
      <4> QED BY <2>2, <4>1, <4>2 DEF readTwoPointFour, sxFails, sxSamples
    <3>4. rssi' > 0 => at' = currentFrequencyMHz'
      BY <2>2 DEF readTwoPointFour, sxFails, sxSamples
    <3>5. (channelIndex + 1) % SxCount \in Channels
      BY Numbers DEF OthersOK, Channels
    <3>6. OthersOK'
      BY <2>2, <3>5 DEF OthersOK, readTwoPointFour, sxFails, sxSamples, sx1281,
                        rx5808, fitted
    <3>7. receiver' = TwoPointFour
      BY <2>2 DEF read
    <3> QED BY <3>1, <3>3, <3>4, <3>6, <3>7, Numbers DEF ReadingOK
  <2>3. CASE receiver = FivePointEight /\ readFivePointEight
    <3>1. SubGhzOK'
      BY <1>1, <2>3, Frames DEF readFivePointEight, fitted
    <3>2. rssi' \in 0..100
      <4>1. FivePointEightMv \subseteq Nat
        BY ReceiversAssumption
      <4>2. \E mv \in FivePointEightMv : rssi' = rxLevel(mv)
        BY <2>3 DEF readFivePointEight, scanNextChannel
      <4> QED BY ONLY <4>1, <4>2, Readings
    <3>3. (currentChannel + 1) % RxCount \in Straps
      BY Numbers DEF OthersOK, Straps
    <3>4. OthersOK'
      BY <2>3, <3>3 DEF OthersOK, readFivePointEight, scanNextChannel, setChannel,
                        sx1281, fitted
    <3>5. at' = currentChannel' /\ receiver' = FivePointEight
      BY <2>3, <3>4 DEF readFivePointEight, scanNextChannel, read, OthersOK
    <3> QED BY <3>1, <3>2, <3>4, <3>5, Numbers DEF ReadingOK
  <2> QED BY <2>1, <2>2, <2>3 DEF read
<1> QED BY <1>1, <1>2, <1>3, <1>4, <1>5

LEMMA AssessStep == IInv /\ assess => IInv'
<1> SUFFICES ASSUME IInv, assess PROVE IInv'
  OBVIOUS
<1> USE DEF IInv
<1>1. /\ UNCHANGED <<ccAnswers, sxInitialized, cc1101, sx1281, rx5808, rssi, at>>
      /\ UNCHANGED <<seen, receiver, sweepCounter, logged, table, held>>
      /\ rfPc = "assess" /\ rfPc' = "report"
      /\ activity' \in classifyActivityLevel(rssi, seen)
  BY DEF assess, receivers, fitted, assessActivity
<1>2. SubGhzOK' /\ OthersOK' /\ LoggedOK'
  BY <1>1, Frames
<1>3. ReadingOK' /\ TaskOK'
  BY <1>1 DEF ReadingOK, TaskOK, cc1101, sx1281, rx5808
<1>4. rssi \in Nat /\ seen # {} /\ seen \in SUBSET Tables /\ activity' \in Levels
  BY <1>1 DEF ReadingOK, MemoryOK, classifyActivityLevel
<1>5. LevelBetween'
  <2>1. /\ \E t \in seen : \E a \in classifyActivityLevel(rssi, {t}) : activity' <= a
        /\ (\A t \in seen : Rising(t)) =>
             \E t \in seen : \E a \in classifyActivityLevel(rssi, {t}) : a <= activity'
    BY <1>1, <1>4, Mixed
  <2> QED BY <1>1, <2>1 DEF LevelBetween, classifyActivityLevel, Rising
<1>6. MemoryOK'
  BY <1>1, <1>4, <1>5 DEF MemoryOK
<1>7. RecordOK'
  <2>1. receiver \in Modules /\ assessActivity(receiver, activity')
    BY DEF assess, TaskOK
  <2>2. CASE activity' > 0
    <3>1. /\ moduleIndex' = receiver /\ level' = activity' /\ isActive' = TRUE
          /\ lastUpdateTime' = 0 /\ quiet' = 0 /\ gap' = 0
      BY <2>1, <2>2 DEF assessActivity, record
    <3>2. /\ 0 \in 0..(TimeMod - 1) /\ 0 \in 0..(Timeout + MaxGap + 1)
          /\ 0 \in 0..MaxGap /\ 0 <= Timeout + 0
      BY Numbers
    <3>3. isActive' \in BOOLEAN /\ (isActive' <=> level' > 0)
      BY <2>2, <3>1
    <3>4. lastUpdateTime' = quiet' /\ quiet' <= Timeout + gap'
      BY <3>1, <3>2
    <3>5. /\ moduleIndex' \in Modules /\ level' \in Levels
          /\ lastUpdateTime' \in 0..(TimeMod - 1)
          /\ quiet' \in 0..(Timeout + MaxGap + 1) /\ gap' \in 0..MaxGap
      BY <1>4, <2>1, <3>1, <3>2
    <3> QED BY <3>3, <3>4, <3>5 DEF RecordOK
  <2>3. CASE ~(activity' > 0) /\ isActive /\ lastUpdateTime > Timeout
    <3>1. /\ level' = 0 /\ isActive' = FALSE /\ gap' = 0
          /\ UNCHANGED <<moduleIndex, lastUpdateTime, quiet>>
      BY <2>1, <2>3 DEF assessActivity, expire
    <3>2. 0 \in Levels /\ 0 \in 0..MaxGap /\ ~(0 > 0)
      BY Numbers DEF Levels
    <3> QED BY <3>1, <3>2 DEF RecordOK
  <2>4. CASE ~(activity' > 0) /\ ~(isActive /\ lastUpdateTime > Timeout)
    BY <2>1, <2>4, Numbers DEF assessActivity, expire, RecordOK, Levels
  <2> QED BY <2>2, <2>3, <2>4
<1> QED BY <1>2, <1>3, <1>6, <1>7

LEMMA ReportStep == IInv /\ report => IInv'
<1> SUFFICES ASSUME IInv, report PROVE IInv'
  OBVIOUS
<1> USE DEF IInv
<1>1. SubGhzOK' /\ OthersOK' /\ RecordOK' /\ UNCHANGED ccAnswers
  BY Frames DEF report, fitted
<1>2. ReadingOK'
  BY DEF report, ReadingOK
<1>3. TaskOK'
  BY Numbers DEF report, TaskOK, cc1101
<1>4. MemoryOK'
  BY DEF report, MemoryOK, LevelBetween, Levels
<1>5. LoggedOK'
  <2>1. CASE rssi > 40
    <3>1. /\ logged'.receiver = receiver /\ logged'.at = at
          /\ logged'.frequency = receiverFrequencyMHz
      BY <2>1 DEF report
    <3>2. receiver = SubGhz => ~ccAnswers \/ at = receiverFrequencyMHz
      BY <2>1 DEF report, ReadingOK, receiverFrequencyMHz
    <3>3. receiver # SubGhz => at = receiverFrequencyMHz
      <4>1. rssi > 0 /\ receiver \in 0..2
        BY <2>1, Numbers DEF ReadingOK, TaskOK
      <4>2. CASE receiver = TwoPointFour
        BY <4>1, <4>2, Numbers DEF report, ReadingOK, receiverFrequencyMHz
      <4>3. CASE receiver = FivePointEight
        BY <4>1, <4>3, Numbers DEF report, ReadingOK, receiverFrequencyMHz
      <4> QED BY <4>1, <4>2, <4>3, Numbers
    <3> QED BY <1>1, <3>1, <3>2, <3>3 DEF LoggedOK, LoggedWhereSampled, TaskOK
  <2>2. CASE ~(rssi > 40)
    BY <1>1, <2>2, Frames DEF report
  <2> QED BY <2>1, <2>2
<1> QED BY <1>1, <1>2, <1>3, <1>4, <1>5

LEMMA SweepStep == IInv /\ sweep => IInv'
<1> SUFFICES ASSUME IInv, sweep PROVE IInv'
  OBVIOUS
<1> USE DEF IInv
<1>1. SubGhzOK' /\ OthersOK' /\ RecordOK' /\ LoggedOK'
  BY Frames DEF sweep, receivers, fitted
<1>2. ReadingOK' /\ MemoryOK'
  BY DEF sweep, ReadingOK, MemoryOK, LevelBetween, receivers, memory
<1>3. TaskOK'
  <2>1. (sweepCounter + 1) % ScanEvery \in 0..(ScanEvery - 1)
    BY Numbers DEF TaskOK
  <2> QED BY <2>1 DEF sweep, TaskOK, receivers, cc1101
<1> QED BY <1>1, <1>2, <1>3

LEMMA BandScanStep == IInv /\ bandScan => IInv'
<1> SUFFICES ASSUME IInv, bandScan PROVE IInv'
  OBVIOUS
<1> USE DEF IInv
<1>1. /\ UNCHANGED <<ccAnswers, sxInitialized, sx1281, rx5808, rssi, at>>
      /\ rfPc = "scan" /\ rfPc' = (IF band' = 0 THEN "sleep" ELSE "scan")
  BY DEF bandScan, scanAllBands, fitted
<1>2. OthersOK' /\ RecordOK' /\ LoggedOK'
  BY <1>1, Frames DEF bandScan
<1>3. ReadingOK' /\ MemoryOK'
  BY <1>1 DEF bandScan, ReadingOK, MemoryOK, LevelBetween, memory
<1>4. TaskOK'
  BY <1>1 DEF bandScan, TaskOK
<1>5. SubGhzOK'
  <2> USE DEF SubGhzOK
  <2>1. CASE scanBegin
    BY <1>1, <2>1, Numbers DEF scanBegin
  <2>2. CASE scanBand
    BY <1>1, <2>2, Numbers DEF scanBand, setFrequency, strobe
  <2>3. CASE scanRestore
    BY <1>1, <2>3, Numbers, ReceiversAssumption DEF scanRestore, setFrequency, strobe
  <2> QED BY <2>1, <2>2, <2>3 DEF bandScan, scanAllBands
<1> QED BY <1>2, <1>3, <1>4, <1>5

LEMMA OtherSteps == IInv /\ (wake \/ post \/ Tick) => IInv'
<1> SUFFICES ASSUME IInv, wake \/ post \/ Tick PROVE IInv'
  OBVIOUS
<1> USE DEF IInv
<1>1. UNCHANGED <<receivers, receiver, sweepCounter, activity, logged>>
  BY DEF wake, post, Tick, task
<1>2. SubGhzOK' /\ OthersOK' /\ LoggedOK'
  BY <1>1, Frames DEF receivers, fitted
<1>3. ReadingOK' /\ TaskOK'
  BY <1>1 DEF wake, post, Tick, task, ReadingOK, TaskOK, receivers, cc1101, sx1281,
              rx5808, fitted
<1>4. MemoryOK'
  <2>1. CASE wake \/ Tick
    BY <1>1, <2>1 DEF wake, Tick, task, ActivityTick, memory, MemoryOK, LevelBetween
  <2>2. CASE post
    <3>1. /\ UNCHANGED <<rfPc, activity, rssi>>
          /\ table' \in Tables /\ held' \subseteq Tables /\ table' \in held'
          /\ seen \subseteq seen' /\ seen' \subseteq Tables
      BY <2>2 DEF post, task, receivers, storeThresholds, stored, MemoryOK
    <3>2. LevelBetween'
      BY <3>1 DEF MemoryOK, LevelBetween, classifyActivityLevel, Rising
    <3> QED BY <3>1, <3>2 DEF MemoryOK
  <2> QED BY <2>1, <2>2
<1>5. RecordOK'
  <2>1. CASE wake \/ post
    BY <2>1, Frames DEF wake, post
  <2>2. CASE Tick
    <3>1. ActivityTick /\ lastUpdateTime \in Int /\ quiet \in Int /\ gap \in Int
      BY <2>2 DEF Tick, RecordOK
    <3>2. gap' \in 0..MaxGap /\ quiet' \in 0..(Timeout + MaxGap + 1)
      BY <3>1, Numbers DEF ActivityTick, RecordOK
    <3>3. CASE isActive
      <4>1. lastUpdateTime + 1 < TimeMod /\ lastUpdateTime + 1 \in Nat
        BY <3>1, <3>3, Numbers DEF ActivityTick, RecordOK
      <4>2. (lastUpdateTime + 1) % TimeMod = lastUpdateTime + 1
        BY <4>1, Numbers
      <4> QED BY <3>1, <3>2, <3>3, <4>1, <4>2, Numbers DEF ActivityTick, RecordOK
    <3>4. CASE ~isActive
      BY <3>1, <3>2, <3>4, Numbers DEF ActivityTick, RecordOK
    <3> QED BY <3>3, <3>4 DEF RecordOK
  <2> QED BY <2>1, <2>2
<1> QED BY <1>2, <1>3, <1>4, <1>5

LEMMA InvStep == IInv /\ [Next]_vars => IInv'
<1> SUFFICES ASSUME IInv, [Next]_vars PROVE IInv'
  OBVIOUS
<1>1. CASE UNCHANGED vars
  <2>1. SubGhzOK' /\ OthersOK' /\ RecordOK' /\ LoggedOK'
    BY <1>1, Frames DEF IInv, vars, receivers, fitted, task
  <2>2. ReadingOK' /\ TaskOK' /\ MemoryOK'
    BY <1>1 DEF IInv, vars, receivers, fitted, task, memory, cc1101, sx1281, rx5808,
                ReadingOK, TaskOK, MemoryOK, LevelBetween
  <2> QED BY <2>1, <2>2 DEF IInv
<1> QED
  BY <1>1, ReadStep, AssessStep, ReportStep, SweepStep, BandScanStep, OtherSteps
  DEF Next, taskRFScanning

\* The drivers, the classifier and the task keep their types.
THEOREM TypeCorrect == Spec => []TypeOK
<1>1. IInv => TypeOK
  BY ReceiversAssumption DEF IInv, SubGhzOK, OthersOK, ReadingOK, TaskOK, LoggedOK,
     MemoryOK, RecordOK, TypeOK
<1> QED BY <1>1, InvInit, InvStep, PTL DEF Spec

\* A record never names another frequency than the reading was taken on.
THEOREM LoggedRight == Spec => []LoggedWhereSampled
<1>1. IInv => LoggedWhereSampled
  BY DEF IInv, LoggedOK
<1> QED BY <1>1, InvInit, InvStep, PTL DEF Spec

\* A band scan gives the CC1101 its own frequency back.
THEOREM ScanRestores == Spec => []ScanLeavesNoTrace
<1>1. IInv => ScanLeavesNoTrace
  BY DEF IInv, SubGhzOK, ScanLeavesNoTrace
<1> QED BY <1>1, InvInit, InvStep, PTL DEF Spec

\* Thresholds that change under the classifier give no level out of line.
THEOREM NoFalseLevel == Spec => []LevelBetween
<1>1. IInv => LevelBetween
  BY DEF IInv, MemoryOK
<1> QED BY <1>1, InvInit, InvStep, PTL DEF Spec

\* An activity is shown no longer than the timeout and one pause.
THEOREM Fresh == Spec => []ActivityFresh
<1>1. IInv => ActivityFresh
  BY Numbers DEF IInv, RecordOK, ActivityFresh
<1> QED BY <1>1, InvInit, InvStep, PTL DEF Spec

\* Nor less than the timeout.
THEOREM KeptLong == Spec => KeptForTimeout
<1>1. IInv /\ [Next]_vars => [isActive /\ ~isActive' => quiet > Timeout]_vars
  <2> SUFFICES ASSUME IInv, Next, isActive, ~isActive' PROVE quiet > Timeout
    OBVIOUS
  <2>1. assess
    BY DEF Next, taskRFScanning, read, report, sweep, bandScan, wake, post, Tick,
           ActivityTick, currentActivity
  <2> QED
    BY <2>1 DEF assess, assessActivity, record, expire, IInv, RecordOK
<1> QED BY <1>1, InvInit, InvStep, PTL DEF Spec, KeptForTimeout

\* A stronger signal never reads lower, and is never given a lower level.
THEOREM StrongerIsHigher == Spec => []StrongerReadsHigher
<1>1. IInv => StrongerReadsHigher
  <2> SUFFICES ASSUME IInv, rfPc = "assess",
                      NEW t \in seen,
                      NEW a \in classifyActivityLevel(rssi, {t}),
                      NEW b \in LevelsFrom[t][rssi]
               PROVE  a <= b
    BY DriversRise DEF StrongerReadsHigher
  <2>1. t \in Tables /\ t \in Thresholds /\ rssi \in 0..100
    BY ActivityAssumption DEF IInv, MemoryOK, ReadingOK
  <2>2. PICK n \in rssi..100 : b \in classifyActivityLevel(n, {t})
    BY <2>1, Zenon DEF LevelsFrom
  <2>3. rssi \in Nat /\ n \in Nat /\ rssi <= n
    BY <2>1, <2>2
  <2> QED BY ONLY <2>1, <2>2, <2>3, LevelRises,
             a \in classifyActivityLevel(rssi, {t})
<1> QED BY <1>1, InvInit, InvStep, PTL DEF Spec

-----------------------------------------------------------------------------
(* The record implements ActivityBoard.                                    *)

LEMMA BoardFrame ==
  ASSUME UNCHANGED <<rfPc, currentActivity, quiet, receiver, activity>>
  PROVE  [Board!Next]_(Board!state)
BY DEF Board!state, reported, unrenewed, currentActivity

LEMMA BoardAssess ==
  ASSUME IInv, assess PROVE [Board!Next]_(Board!state)
<1>1. /\ reported = <<>> /\ reported' = <<receiver, activity'>>
      /\ receiver \in Modules /\ activity' \in Levels
      /\ assessActivity(receiver, activity')
  BY DEF assess, reported, IInv, TaskOK, classifyActivityLevel
<1>2. CASE activity' > 0
  <2>1. /\ moduleIndex' = receiver /\ level' = activity' /\ unrenewed' = 0
    BY <1>1, <1>2 DEF assessActivity, record, unrenewed
  <2>2. Board!Observe(receiver, activity')
    BY <1>1, <1>2, <2>1 DEF Board!Observe
  <2> QED BY <1>1, <2>2 DEF Board!Next
<1>3. CASE ~(activity' > 0)
  <2>1. activity' = 0
    BY <1>1, <1>3 DEF Levels
  <2>2. UNCHANGED moduleIndex
    BY <1>1, <1>3 DEF assessActivity
  <2>3. isActive => lastUpdateTime = quiet
    BY DEF IInv, RecordOK
  <2>4. CASE isActive /\ lastUpdateTime > Timeout
    <3>1. level' = 0 /\ isActive' = FALSE
      BY <1>1, <1>3, <2>4 DEF assessActivity, expire
    <3>2. unrenewed > Timeout /\ unrenewed' = 0
      BY <2>3, <2>4, <3>1 DEF unrenewed
    <3> QED
      BY <1>1, <2>1, <2>2, <3>1, <3>2 DEF Board!Next, Board!ObserveNothing
  <2>5. CASE ~(isActive /\ lastUpdateTime > Timeout)
    <3>1. UNCHANGED <<level, isActive, quiet>>
      BY <1>1, <1>3, <2>5 DEF assessActivity, expire
    <3>2. ~(unrenewed > Timeout) /\ UNCHANGED unrenewed
      BY <2>3, <2>5, <3>1, Numbers DEF unrenewed
    <3> QED
      BY <1>1, <2>1, <2>2, <3>1, <3>2 DEF Board!Next, Board!ObserveNothing
  <2> QED BY <2>4, <2>5
<1> QED BY <1>2, <1>3

LEMMA BoardReport ==
  ASSUME report PROVE [Board!Next]_(Board!state)
<1>1. /\ reported = <<receiver, activity>> /\ reported' = <<>>
      /\ UNCHANGED <<moduleIndex, level, unrenewed>>
  BY DEF report, reported, unrenewed, currentActivity, observed
<1> QED BY <1>1 DEF Board!Next, Board!Report

LEMMA BoardTick ==
  ASSUME IInv, Tick PROVE [Board!Next]_(Board!state)
<1>1. /\ reported = <<>> /\ reported' = <<>>
      /\ UNCHANGED <<moduleIndex, level, isActive>> /\ ActivityTick
  BY DEF Tick, ActivityTick, task, reported
<1>2. CASE isActive
  <2>1. level > 0 /\ quiet \in Nat /\ quiet <= Timeout + gap /\ gap < MaxGap
        /\ gap \in Nat
    BY <1>1, <1>2, Numbers DEF IInv, RecordOK, ActivityTick
  <2>2. quiet' = quiet + 1 /\ quiet' <= Timeout + MaxGap
    BY <1>1, <2>1, Numbers DEF ActivityTick
  <2> QED
    BY <1>1, <1>2, <2>1, <2>2 DEF Board!Next, Board!Pass, unrenewed
<1>3. CASE ~isActive
  <2>1. UNCHANGED unrenewed
    BY <1>1, <1>3 DEF unrenewed
  <2> QED BY <1>1, <2>1 DEF Board!state
<1> QED BY <1>2, <1>3

\* For any bands, channels, tables, timeout and clock width, thresholds that
\* change while they are read included: the record is taken by each reading
\* above none of any receiver, with the level reported, and no other; it lasts
\* the timeout, and a pause more at most.
THEOREM ImplementsBoard == Spec => BoardSpec
<1>1. Init => Board!Init
  BY Numbers DEF Init, ActivityInit, Board!Init, reported, unrenewed
<1>2. IInv /\ [Next]_vars => [Board!Next]_(Board!state)
  <2> SUFFICES ASSUME IInv, [Next]_vars PROVE [Board!Next]_(Board!state)
    OBVIOUS
  <2>1. CASE read \/ sweep \/ bandScan \/ wake
    <3>1. /\ reported = <<>> /\ reported' = <<>>
          /\ UNCHANGED <<moduleIndex, level, unrenewed>>
      BY <2>1 DEF read, sweep, bandScan, wake, reported, unrenewed,
                  currentActivity, observed
    <3> QED BY <3>1 DEF Board!state
  <2>2. CASE post \/ UNCHANGED vars
    BY <2>2, BoardFrame DEF post, vars, task, observed
  <2> QED
    BY <2>1, <2>2, BoardAssess, BoardReport, BoardTick DEF Next, taskRFScanning
<1> QED BY <1>1, <1>2, InvInit, InvStep, PTL DEF Spec, BoardSpec, Board!Spec
=============================================================================
