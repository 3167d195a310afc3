------------------------- MODULE AlertManagerProofs -------------------------
(***************************************************************************)
(* Theorems about AlertManager, for every pattern table, timeout, clock    *)
(* width and every interleaving of the RF task with the loop.              *)
(***************************************************************************)
EXTENDS AlertManager, TLAPS

USE DEF ALERT_NONE, ALERT_ACTIVITY_MEDIUM, ALERT_ACTIVITY_HIGH,
        ALERT_ACTIVITY_CRITICAL, NoPause

\* uint32_t arithmetic stays in range (alert_manager.cpp:59, 68, 95, 153).
LEMMA ModInTime == ASSUME NEW a \in Int PROVE a % TimeMod \in Time
BY AlertAssumption DEF Time

LEMMA RaisedAreInts == Raised \subseteq Int /\ ALERT_NONE \notin Raised
BY DEF Raised

\* A pattern that is being advanced still has a beep to count down; the loop
\* reads the alert only while it is set; and the alert about to be raised is
\* above the current one.
Inv ==
  /\ TypeOK
  /\ loopPc \in {"beep", "toneEnd"} => beepsRemaining > 0
  /\ loopPc = "decrement" =>
       remaining > 0 /\ \E t \in Raised : remaining <= Count[t]
  /\ NoBeepUnderflow
  /\ loopPc \in {"blink", "expired", "clear"} => currentAlert # ALERT_NONE
  /\ ledState => currentAlert # ALERT_NONE \/ loopPc = "clearRest"
  /\ rfPc = "type" => type \in Raised /\ currentAlert < type
  /\ rfPc \in {"time", "count", "pattern"} => type \in Raised

LEMMA InitInv == Init => Inv
<1> SUFFICES ASSUME Init PROVE Inv
  OBVIOUS
<1>1. 0 \in Time
  BY AlertAssumption DEF Time
<1>2. TypeOK
  <2>1. clock \in Time /\ alertStartTime \in Time /\ lastToggle \in Time
        /\ toneEndTime \in Time /\ now \in Time
    BY <1>1 DEF Init
  <2>2. lag \in 0..MaxLag /\ age \in Nat /\ pause \in Nat \cup {NoPause}
    BY AlertAssumption DEF Init
  <2>3. stealth \in BOOLEAN /\ ledState \in BOOLEAN /\ overlap \in BOOLEAN
    BY AlertAssumption DEF Init
  <2>4. /\ beepsRemaining \in 0..255 /\ remaining \in 0..255
        /\ beepDurationMs \in Nat /\ beepGapMs \in Nat
    BY DEF Init
  <2> QED BY <2>1, <2>2, <2>3, <2>4 DEF Init, TypeOK
<1>3. NoBeepUnderflow
  BY AlertAssumption DEF Init, NoBeepUnderflow, Raised
<1> QED BY <1>2, <1>3 DEF Init, Inv

\* Steps of the clock and of a stealth request.
LEMMA ClockInv == Inv /\ (Tick \/ SetStealth) => Inv'
<1> SUFFICES ASSUME Inv, Tick \/ SetStealth PROVE Inv'
  OBVIOUS
<1>1. CASE Tick
  <2>1. clock' \in Time /\ lag' \in 0..MaxLag /\ age' \in Nat
    <3>1. clock + 1 \in Int
      BY DEF Inv, TypeOK, Time
    <3>2. clock' \in Time
      BY <1>1, <3>1, ModInTime DEF Tick
    <3> QED BY <1>1, <3>2, AlertAssumption DEF Tick, Inv, TypeOK
  <2>2. pause' \in Nat \cup {NoPause}
    BY <1>1 DEF Tick, Inv, TypeOK
  <2> QED BY <1>1, <2>1, <2>2 DEF Tick, Inv, TypeOK, NoBeepUnderflow, fields, loop, rf
<1>2. CASE SetStealth
  BY <1>2, AlertAssumption
  DEF SetStealth, Inv, TypeOK, NoBeepUnderflow, fields, loop, rf, history
<1> QED BY <1>1, <1>2

\* Steps of update().
LEMMA UpdateInv == Inv /\ update => Inv'
<1> SUFFICES ASSUME Inv, update PROVE Inv'
  OBVIOUS
<1> USE DEF Inv, TypeOK, NoBeepUnderflow, fields, loop, rf, history, Paused
<1>0. 0 \in Time
  BY AlertAssumption DEF Time
<1>1. CASE updateBegin
  BY <1>1, AlertAssumption DEF updateBegin
<1>2. CASE beepTest
  BY <1>2 DEF beepTest
<1>3. CASE toneEnd
  BY <1>0, <1>3 DEF toneEnd
<1>4. CASE decrement
  <2>1. PICK t \in Raised : remaining > 0 /\ remaining <= Count[t]
    BY <1>4 DEF decrement
  <2>2. beepsRemaining' = remaining - 1
    BY <1>4, <2>1 DEF decrement
  <2>3. beepsRemaining' \in 0..255 /\ beepsRemaining' <= Count[t]
    BY <2>1, <2>2, AlertAssumption
  <2> QED BY <1>4, <2>1, <2>3 DEF decrement
<1>5. CASE gapStart
  BY <1>0, <1>5 DEF gapStart
<1>6. CASE toneStart
  <2>1. now + beepDurationMs \in Int
    BY DEF Time
  <2>2. toneEndTime' \in Time
    BY <1>6, <2>1, ModInTime DEF toneStart
  <2> QED BY <1>0, <1>6, <2>2 DEF toneStart
<1>7. CASE ledBegin
  BY <1>0, <1>7 DEF ledBegin
<1>8. CASE blink
  BY <1>8 DEF blink
<1>9. CASE expiredTest
  BY <1>0, <1>9 DEF expiredTest
<1>10. CASE clearAlert
  BY <1>10, RaisedAreInts DEF clearAlert, Raised
<1>11. CASE clearRest
  <2>1. \E t \in Raised : 0 <= Count[t]
    BY AlertAssumption DEF Raised
  <2>2. NoBeepUnderflow'
    BY <1>11, <2>1 DEF clearRest
  <2>3. /\ toneEndTime' \in Time
        /\ beepsRemaining' \in 0..255
        /\ loopPc' = "idle"
    <3>1. toneEndTime' = 0 /\ beepsRemaining' = 0 /\ loopPc' = "idle"
      BY <1>11 DEF clearRest
    <3> QED BY <3>1, <1>0
  <2>4. TypeOK'
    BY <1>11, <2>3 DEF clearRest
  <2> QED BY <1>11, <2>2, <2>4 DEF clearRest
<1> QED
  BY <1>1, <1>2, <1>3, <1>4, <1>5, <1>6, <1>7, <1>8, <1>9, <1>10, <1>11
  DEF update

\* Steps of the RF task.
LEMMA RfInv == Inv /\ ((\E level \in Raised : assess(level)) \/ alert) => Inv'
<1> SUFFICES ASSUME Inv, (\E level \in Raised : assess(level)) \/ alert
             PROVE  Inv'
  OBVIOUS
<1> USE DEF Inv, TypeOK, NoBeepUnderflow, fields, loop, rf, history, Paused
<1>1. ASSUME NEW level \in Raised, assess(level) PROVE Inv'
  BY <1>1 DEF assess, Raised
<1>2. CASE alertType
  BY <1>2, RaisedAreInts DEF alertType, Raised
<1>3. CASE alertTime
  BY <1>3 DEF alertTime
<1>4. CASE patternCount
  <2>1. type \in Raised /\ Count[type] \in 1..255
    BY <1>4, AlertAssumption DEF patternCount
  <2> QED BY <1>4, <2>1 DEF patternCount
<1>5. CASE patternRest
  <2>1. type \in Raised /\ Gap[type] \in Nat /\ Duration[type] \in Nat
    BY <1>5, AlertAssumption DEF patternRest
  <2>2. clock - Gap[type] \in Int
    BY <2>1 DEF Time
  <2>3. lastToggle' \in Time
    BY <1>5, <2>2, ModInTime DEF patternRest
  <2>4. 0 \in Time
    BY AlertAssumption DEF Time
  <2> QED BY <1>5, <2>1, <2>3, <2>4 DEF patternRest
<1> QED BY <1>1, <1>2, <1>3, <1>4, <1>5 DEF alert

LEMMA StepInv == Inv /\ [Next]_vars => Inv'
<1> SUFFICES ASSUME Inv, [Next]_vars PROVE Inv'
  OBVIOUS
<1>1. CASE UNCHANGED vars
  BY <1>1
  DEF vars, Inv, TypeOK, NoBeepUnderflow, fields, loop, rf, history
<1> QED BY <1>1, ClockInv, UpdateInv, RfInv DEF Next

THEOREM Invariance == Spec => []Inv
BY InitInv, StepInv, PTL DEF Spec

\* Every field keeps its type, the two uint32_t stamps included.
THEOREM TypeCorrect == Spec => []TypeOK
<1>1. Inv => TypeOK
  BY DEF Inv
<1> QED BY <1>1, Invariance, PTL

\* The unlocked beepsRemaining-- of the loop never takes the counter below
\* zero, however the RF task restarts the pattern.
THEOREM NoUnderflow == Spec => []NoBeepUnderflow
<1>1. Inv => NoBeepUnderflow
  BY DEF Inv
<1> QED BY <1>1, Invariance, PTL

\* Between two updates a lit LED belongs to a current alert.
THEOREM LedFollows == Spec => []LedFollowsAlert
<1>1. Inv => LedFollowsAlert
  BY DEF Inv, LedFollowsAlert
<1> QED BY <1>1, Invariance, PTL

\* No interleaving lowers a current alert without clearing it.
THEOREM AlertNeverLowered == Spec => NeverLowered
<1>1. ASSUME Inv, [Next]_vars
      PROVE  currentAlert' # currentAlert
               => currentAlert' = ALERT_NONE \/ currentAlert' > currentAlert
  <2>1. CASE alertType
    BY <1>1, <2>1, RaisedAreInts DEF alertType, Inv, TypeOK
  <2>2. CASE clearAlert
    BY <2>2 DEF clearAlert
  <2>3. CASE UNCHANGED currentAlert
    BY <2>3
  <2>4. CASE Tick \/ SetStealth
    BY <2>3, <2>4 DEF Tick, SetStealth, fields
  <2>5. CASE update /\ ~clearAlert
    BY <2>3, <2>5 DEF update, fields, updateBegin, beepTest, toneEnd,
       decrement, gapStart, toneStart, ledBegin, blink, expiredTest, clearRest
  <2>6. CASE \E level \in Raised : assess(level)
    BY <2>3, <2>6 DEF assess, fields
  <2>7. CASE alert /\ ~alertType
    BY <2>3, <2>7 DEF alert, alertTime, patternCount, patternRest
  <2>8. CASE UNCHANGED vars
    BY <2>3, <2>8 DEF vars, fields
  <2> QED
    BY <1>1, <2>1, <2>2, <2>4, <2>5, <2>6, <2>7, <2>8 DEF Next
<1>2. Inv /\ [Next]_vars
        => [currentAlert' # currentAlert
              => currentAlert' = ALERT_NONE \/ currentAlert' > currentAlert]_vars
  BY <1>1
<1> QED BY <1>2, Invariance, PTL DEF Spec, NeverLowered

-----------------------------------------------------------------------------
(* What update() clears.                                                   *)

\* The stamp is no older than the alert, except while alert() has set the one
\* and not yet the other.  Without a call of alert() beside it, the time the
\* loop holds is no further from the stamp than the alert is old, so that the
\* test finds only an expired one.
ExpiryInv ==
  /\ rfPc # "time" /\ age <= Timeout => Since(clock, alertStartTime) <= age
  /\ loopPc # "idle" /\ ~overlap => rfPc \in {"idle", "type"}
  /\ loopPc \in {"blink", "expired"} /\ ~overlap /\ age <= Timeout =>
       Since(now, alertStartTime) <= age
  /\ loopPc = "clear" /\ ~overlap =>
       age > Timeout /\ currentAlert # ALERT_ACTIVITY_CRITICAL

LEMMA SinceType ==
  ASSUME NEW a \in Time, NEW b \in Time
  PROVE  Since(a, b) \in Nat /\ Since(a, a) = 0
BY AlertAssumption DEF Time, Since

\* A tick later a stamp is one older, as long as the age has not wrapped.
LEMMA SinceTick ==
  ASSUME NEW a \in Time, NEW b \in Time, Since(a, b) + 1 < TimeMod
  PROVE  Since((a + 1) % TimeMod, b) = Since(a, b) + 1
<1>0. TimeMod \in Nat \ {0} /\ a \in 0..(TimeMod - 1) /\ b \in 0..(TimeMod - 1)
  BY AlertAssumption DEF Time
<1>1. CASE a >= b
  <2>1. Since(a, b) = a - b
    BY <1>0, <1>1 DEF Since
  <2>2. CASE a + 1 < TimeMod
    BY <1>0, <1>1, <2>1, <2>2 DEF Since
  <2>3. CASE a + 1 = TimeMod
    <3>1. (a + 1) % TimeMod = 0
      BY <1>0, <2>3
    <3>2. b > 0
      BY <1>0, <2>1, <2>3
    <3>3. (0 - b) % TimeMod = TimeMod - b
      BY <1>0, <3>2
    <3> QED BY <1>0, <2>1, <2>3, <3>1, <3>3 DEF Since
  <2> QED BY <1>0, <2>2, <2>3
<1>2. CASE a < b
  <2>1. Since(a, b) = a - b + TimeMod
    BY <1>0, <1>2 DEF Since
  <2>2. (a + 1) % TimeMod = a + 1
    BY <1>0, <1>2
  <2>3. a + 1 < b
    BY <1>0, <1>2, <2>1
  <2> QED BY <1>0, <2>1, <2>2, <2>3 DEF Since
<1> QED BY <1>0, <1>1, <1>2

LEMMA ExpiryStep == Inv /\ ExpiryInv /\ [Next]_vars => ExpiryInv'
<1> SUFFICES ASSUME Inv, ExpiryInv, [Next]_vars PROVE ExpiryInv'
  OBVIOUS
<1> USE DEF ExpiryInv
<1>0. /\ clock \in Time /\ alertStartTime \in Time /\ now \in Time
      /\ age \in Nat /\ Timeout \in Nat
  BY AlertAssumption DEF Inv, TypeOK
<1>1. CASE Tick
  <2>1. /\ UNCHANGED <<loopPc, now, rfPc, alertStartTime, currentAlert, overlap>>
        /\ clock' = (clock + 1) % TimeMod /\ age' \in Nat
        /\ age' <= Timeout => age' = age + 1
        /\ age <= age'
    BY <1>0, <1>1 DEF Tick, fields, loop, rf
  <2>2. ASSUME rfPc # "time", age' <= Timeout
        PROVE  Since(clock', alertStartTime) <= age'
    <3>1. Since(clock, alertStartTime) <= age /\ age' = age + 1
      BY <1>0, <2>1, <2>2
    <3>2. Since(clock, alertStartTime) \in Nat
      BY <1>0, SinceType
    <3>3. Since(clock, alertStartTime) + 1 < TimeMod
      BY <1>0, <2>2, <3>1, <3>2, AlertAssumption
    <3> QED BY <1>0, <2>1, <3>1, <3>2, <3>3, SinceTick
  <2>3. ASSUME loopPc \in {"blink", "expired"}, ~overlap, age' <= Timeout
        PROVE  Since(now, alertStartTime) <= age'
    <3>1. Since(now, alertStartTime) <= age
      BY <1>0, <2>1, <2>3
    <3> QED BY <1>0, <2>1, <3>1, SinceType
  <2>4. age > Timeout => age' > Timeout
    BY <1>0, <2>1
  <2> QED BY <2>1, <2>2, <2>3, <2>4
<1>2. CASE SetStealth \/ UNCHANGED vars
  BY <1>2 DEF SetStealth, vars, fields, loop, rf, history
<1>3. CASE updateBegin
  <2>1. /\ UNCHANGED <<clock, alertStartTime, currentAlert, rfPc, age>>
        /\ overlap' = (rfPc # "idle") /\ loopPc' \in {"beep", "led"}
    BY <1>3 DEF updateBegin, fields, rf
  <2> QED BY <2>1
<1>4. CASE beepTest \/ toneEnd \/ decrement \/ gapStart \/ toneStart
           \/ clearAlert \/ clearRest
  <2>1. /\ UNCHANGED <<clock, alertStartTime, rfPc, age, overlap>>
        /\ loopPc # "idle" /\ loopPc' \notin {"blink", "expired", "clear"}
    BY <1>4 DEF beepTest, toneEnd, decrement, gapStart, toneStart, clearAlert,
       clearRest, fields, rf, history
  <2> QED BY <2>1
<1>5. CASE ledBegin
  <2>1. /\ UNCHANGED <<clock, alertStartTime, rfPc, age, overlap>>
        /\ loopPc = "led" /\ loopPc' \in {"blink", "idle"}
        /\ loopPc' = "blink" => now' = clock
    BY <1>5 DEF ledBegin, fields, rf, history
  <2> QED BY <2>1
<1>6. CASE blink
  <2>1. /\ UNCHANGED <<clock, alertStartTime, rfPc, age, overlap, now>>
        /\ loopPc = "blink" /\ loopPc' = "expired"
    BY <1>6 DEF blink, rf, history
  <2> QED BY <2>1
<1>7. CASE expiredTest
  <2>1. /\ UNCHANGED <<clock, alertStartTime, currentAlert, rfPc, age, overlap>>
        /\ loopPc = "expired" /\ loopPc' \in {"clear", "idle"}
        /\ loopPc' = "clear" =>
             /\ currentAlert # ALERT_ACTIVITY_CRITICAL
             /\ Since(now, alertStartTime) > Timeout
    BY <1>7 DEF expiredTest, fields, rf, history
  <2>2. ASSUME loopPc' = "clear", ~overlap PROVE age > Timeout
    <3>1. Since(now, alertStartTime) \in Nat
      BY <1>0, SinceType
    <3>2. age <= Timeout => Since(now, alertStartTime) <= age
      BY <2>1, <2>2
    <3> QED BY <1>0, <2>1, <2>2, <3>1, <3>2
  <2> QED BY <2>1, <2>2
<1>8. ASSUME NEW level \in Raised, assess(level) PROVE ExpiryInv'
  <2>1. /\ UNCHANGED <<clock, alertStartTime, currentAlert, loopPc, now, age, overlap>>
        /\ rfPc = "idle" /\ rfPc' = "type"
    BY <1>8 DEF assess, fields, loop, history
  <2> QED BY <2>1
<1>9. CASE alertType
  <2>1. rfPc' = "time" /\ overlap' = TRUE
    BY <1>9 DEF alertType
  <2> QED BY <2>1
<1>10. CASE alertTime
  <2>1. /\ overlap' = TRUE /\ alertStartTime' = clock /\ UNCHANGED <<clock, age>>
    BY <1>10 DEF alertTime
  <2>2. Since(clock', alertStartTime') = 0
    BY <1>0, <2>1, SinceType
  <2> QED BY <1>0, <2>1, <2>2
<1>11. CASE patternCount \/ patternRest
  <2>1. /\ overlap' = TRUE /\ rfPc # "time"
        /\ UNCHANGED <<clock, age, alertStartTime>>
    BY <1>11 DEF patternCount, patternRest
  <2> QED BY <2>1
<1> QED
  BY <1>1, <1>2, <1>3, <1>4, <1>5, <1>6, <1>7, <1>8, <1>9, <1>10, <1>11
  DEF Next, update, alert

LEMMA ExpiryInit == Init => ExpiryInv
<1> SUFFICES ASSUME Init PROVE ExpiryInv
  OBVIOUS
<1>1. 0 \in Time
  BY AlertAssumption DEF Time
<1>2. Since(clock, alertStartTime) = 0
  BY <1>1, SinceType DEF Init
<1> QED BY <1>2 DEF Init, ExpiryInv

\* Unless a call of alert() runs beside it, update() clears nothing but an
\* expired alert below critical, for every timeout and clock width.
THEOREM OnlyExpired == Spec => ClearsOnlyExpired
<1>1. ASSUME Inv, ExpiryInv, [Next]_vars,
             currentAlert # ALERT_NONE, currentAlert' = ALERT_NONE, ~overlap
      PROVE  age > Timeout /\ currentAlert # ALERT_ACTIVITY_CRITICAL
  <2>1. CASE clearAlert
    BY <1>1, <2>1 DEF clearAlert, ExpiryInv
  <2>2. CASE alertType
    BY <1>1, <2>2, RaisedAreInts DEF alertType, Inv
  <2>3. CASE UNCHANGED currentAlert
    BY <1>1, <2>3
  <2> QED
    BY <1>1, <2>1, <2>2, <2>3
    DEF Next, vars, fields, Tick, SetStealth, update, updateBegin, beepTest,
        toneEnd, decrement, gapStart, toneStart, ledBegin, blink, expiredTest,
        clearRest, assess, alert, alertTime, patternCount, patternRest
<1>2. Inv /\ ExpiryInv /\ [Next]_vars
        => [currentAlert # ALERT_NONE /\ currentAlert' = ALERT_NONE /\ ~overlap
              => age > Timeout /\ currentAlert # ALERT_ACTIVITY_CRITICAL]_vars
  BY <1>1
<1> QED
  BY <1>2, ExpiryInit, ExpiryStep, Invariance, PTL DEF Spec, ClearsOnlyExpired

-----------------------------------------------------------------------------
(* The pauses between the beeps.                                           *)

LEMMA SinceValue ==
  ASSUME NEW a \in Time, NEW b \in Time
  PROVE  Since(a, b) = IF a >= b THEN a - b ELSE a - b + TimeMod
BY AlertAssumption DEF Time, Since

\* The later of two stamps is as much younger as lies between them.
LEMMA SinceBetween ==
  ASSUME NEW a \in Time, NEW b \in Time, NEW c \in Time,
         Since(a, b) <= Since(a, c)
  PROVE  Since(b, c) = Since(a, c) - Since(a, b)
<1>1. TimeMod \in Nat /\ a \in Nat /\ b \in Nat /\ c \in Nat
      /\ a < TimeMod /\ b < TimeMod /\ c < TimeMod
  BY AlertAssumption DEF Time
<1>2. /\ Since(a, b) = IF a >= b THEN a - b ELSE a - b + TimeMod
      /\ Since(a, c) = IF a >= c THEN a - c ELSE a - c + TimeMod
      /\ Since(b, c) = IF b >= c THEN b - c ELSE b - c + TimeMod
  BY SinceValue
<1> QED BY <1>1, <1>2

\* startPattern() sets lastToggle back by the gap (alert_manager.cpp:153).
LEMMA SinceBack ==
  ASSUME NEW a \in Time, NEW g \in Time
  PROVE  Since(a, (a - g) % TimeMod) = g
<1>1. TimeMod \in Nat /\ Time = 0..(TimeMod - 1)
  BY AlertAssumption DEF Time
<1>2. (a - g) % TimeMod = IF a >= g THEN a - g ELSE a - g + TimeMod
  BY SinceValue DEF Since
<1>3. (a - g) % TimeMod \in Time
  BY <1>1, <1>2
<1> QED BY <1>1, <1>2, <1>3, SinceValue

\* While a pause lasts lastToggle is at least as old as the pause and, but for
\* critical, at most the gap older than the turn of the loop: the turn before
\* would have started the beep.
InPattern == {"beep", "toneEnd", "decrement", "gap", "toneStart"}
elapsed == Since(clock, lastToggle)

PauseInv ==
  /\ beepGapMs = 0 \/ \E s \in Raised : beepGapMs = Gap[s]
  /\ loopPc \in InPattern => Since(clock, now) = lag
  /\ loopPc = "blink" => Since(clock, now) <= lag
  /\ loopPc \in {"decrement", "gap"} => toneEndTime = 0
  /\ pause # NoPause => toneEndTime = 0 /\ (beepsRemaining > 0 \/ loopPc = "gap")
  /\ pause # NoPause /\ currentAlert # ALERT_ACTIVITY_CRITICAL =>
       /\ pause <= elapsed
       /\ loopPc \in InPattern => elapsed <= beepGapMs + lag + MaxLag
       /\ loopPc \notin InPattern => elapsed <= beepGapMs + lag

LEMMA PauseInit == Init => PauseInv
BY DEF Init, PauseInv, InPattern

\* What the table says of the gap that is set.
LEMMA GapFits ==
  ASSUME Inv, PauseInv, PausesFit
  PROVE  /\ beepGapMs + 2 * MaxLag < TimeMod
         /\ \A t \in Raised \ {ALERT_ACTIVITY_CRITICAL} :
              beepGapMs + MaxLag < Blink[t]
<1>1. PICK s \in Raised : beepGapMs <= Gap[s]
  <2>1. \A s \in Raised : Gap[s] \in Nat
    BY AlertAssumption
  <2>2. ALERT_ACTIVITY_HIGH \in Raised
    BY DEF Raised
  <2> QED BY <2>1, <2>2 DEF PauseInv
<1>2. beepGapMs \in Nat /\ MaxLag \in Nat /\ TimeMod \in Nat /\ Gap[s] \in Nat
  BY AlertAssumption DEF Inv, TypeOK
<1>3. Gap[s] + 2 * MaxLag < TimeMod
  BY DEF PausesFit
<1>4. ASSUME NEW t \in Raised \ {ALERT_ACTIVITY_CRITICAL}
      PROVE  beepGapMs + MaxLag < Blink[t]
  <2>1. Gap[s] + MaxLag < Blink[t] /\ Blink[t] \in Nat
    BY <1>4, AlertAssumption DEF PausesFit
  <2> QED BY <1>1, <1>2, <2>1
<1> QED BY <1>1, <1>2, <1>3, <1>4

\* A millisecond passes, and lastToggle does not come round.
LEMMA PauseTick ==
  ASSUME Inv, PauseInv, PausesFit, Tick PROVE PauseInv'
<1>1. /\ UNCHANGED <<beepGapMs, loopPc, now, toneEndTime, beepsRemaining,
                     currentAlert, lastToggle>>
      /\ lag < MaxLag /\ lag' = lag + 1 /\ clock' = (clock + 1) % TimeMod
      /\ pause' = IF pause = NoPause \/ pause > LongestPause THEN pause
                  ELSE pause + 1
  BY DEF Tick, fields, loop
<1>2. /\ clock \in Time /\ now \in Time /\ lastToggle \in Time /\ lag \in Nat
      /\ beepGapMs \in Nat /\ MaxLag \in Nat /\ TimeMod \in Nat
      /\ pause \in Nat \cup {-1}
  BY AlertAssumption DEF Inv, TypeOK
<1>3. beepGapMs + 2 * MaxLag < TimeMod
  BY GapFits
<1>4. /\ Since(clock, now) \in Nat /\ Since(clock, lastToggle) \in Nat
  BY <1>2, SinceType
<1>5. ASSUME Since(clock, now) <= lag
      PROVE  Since(clock', now) = Since(clock, now) + 1
  <2>1. Since(clock, now) + 1 < TimeMod
    BY <1>1, <1>2, <1>3, <1>4, <1>5
  <2> QED BY <1>1, <1>2, <2>1, SinceTick
<1>6. loopPc' \in InPattern => Since(clock', now') = lag'
  BY <1>1, <1>2, <1>5 DEF PauseInv
<1>7. loopPc' = "blink" => Since(clock', now') <= lag'
  BY <1>1, <1>2, <1>4, <1>5 DEF PauseInv
<1>8. ASSUME pause' # NoPause, currentAlert # ALERT_ACTIVITY_CRITICAL
      PROVE  /\ pause' <= elapsed'
             /\ elapsed' = elapsed + 1
  <2>1. pause # NoPause /\ pause <= elapsed /\ elapsed <= beepGapMs + lag + MaxLag
    BY <1>1, <1>2, <1>4, <1>8 DEF PauseInv, elapsed
  <2>2. elapsed + 1 < TimeMod
    BY <1>1, <1>2, <1>3, <1>4, <2>1 DEF elapsed
  <2>3. elapsed' = elapsed + 1
    BY <1>1, <1>2, <2>2, SinceTick DEF elapsed
  <2> QED BY <1>1, <1>2, <1>4, <2>1, <2>3 DEF elapsed
<1>9. pause' # NoPause => pause # NoPause
  BY <1>1, <1>2
<1> QED
  BY <1>1, <1>2, <1>4, <1>6, <1>7, <1>8, <1>9 DEF PauseInv, elapsed

\* update() starts the next beep or leaves less than the gap to wait, and the
\* LED, which does not toggle before, stores no stamp that is too old.
LEMMA PauseUpdate ==
  ASSUME Inv, PauseInv, PausesFit, update PROVE PauseInv'
<1>1. /\ clock \in Time /\ now \in Time /\ lastToggle \in Time /\ lag \in 0..MaxLag
      /\ beepGapMs \in Nat /\ MaxLag \in Nat /\ TimeMod \in Nat
      /\ pause \in Nat \cup {NoPause} /\ beepsRemaining \in Nat
      /\ toneEndTime \in Nat
  BY AlertAssumption DEF Inv, TypeOK, Time
<1>2. /\ Since(clock, now) \in Nat /\ Since(clock, clock) = 0
      /\ elapsed \in Nat /\ Since(now, lastToggle) \in Nat
  BY <1>1, SinceType DEF elapsed
<1>3. CASE updateBegin
  <2>1. /\ UNCHANGED <<clock, lastToggle, currentAlert, beepGapMs, toneEndTime,
                       beepsRemaining, pause>>
        /\ loopPc = "idle" /\ lag' = 0
        /\ \/ beepsRemaining > 0 /\ loopPc' = "beep" /\ now' = clock
           \/ ~(beepsRemaining > 0) /\ loopPc' = "led"
    BY <1>3 DEF updateBegin, fields
  <2>2. ASSUME pause # NoPause
        PROVE  beepsRemaining > 0 /\ loopPc' = "beep"
    BY <2>1, <2>2 DEF PauseInv
  <2> QED BY <1>1, <1>2, <2>1, <2>2 DEF PauseInv, InPattern, elapsed
<1>4. CASE beepTest
  <2>1. /\ UNCHANGED <<clock, now, lag, lastToggle, currentAlert, beepGapMs,
                       toneEndTime, beepsRemaining, pause>>
        /\ loopPc = "beep" /\ loopPc' \in {"toneEnd", "toneStart", "led"}
        /\ toneEndTime = 0 /\ loopPc' = "led" =>
             ~(Since(now, lastToggle) >= beepGapMs)
    BY <1>4 DEF beepTest, fields, history
  <2>2. Since(clock, now) = lag
    BY <2>1 DEF PauseInv, InPattern
  <2>3. ASSUME loopPc' = "led", pause # NoPause
        PROVE  elapsed <= beepGapMs + lag
    <3>1. Since(now, lastToggle) < beepGapMs
      BY <1>1, <1>2, <2>1, <2>3 DEF PauseInv
    <3>2. CASE lag <= elapsed
      <4>1. Since(now, lastToggle) = elapsed - lag
        BY <1>1, <2>2, <3>2, SinceBetween DEF elapsed
      <4> QED BY <1>1, <1>2, <3>1, <4>1
    <3>3. CASE elapsed < lag
      BY <1>1, <1>2, <3>3
    <3> QED BY <1>1, <1>2, <3>2, <3>3
  <2> QED BY <2>1, <2>2, <2>3 DEF PauseInv, InPattern, elapsed
<1>5. CASE toneEnd
  <2>1. /\ UNCHANGED <<clock, now, lag, lastToggle, currentAlert, beepGapMs,
                       beepsRemaining, pause>>
        /\ loopPc = "toneEnd" /\ loopPc' = "decrement" /\ toneEndTime' = 0
    BY <1>5 DEF toneEnd, history
  <2> QED BY <2>1 DEF PauseInv, InPattern, elapsed
<1>6. CASE decrement
  <2>1. /\ UNCHANGED <<clock, now, lag, lastToggle, currentAlert, beepGapMs,
                       toneEndTime, pause>>
        /\ loopPc = "decrement" /\ loopPc' = "gap"
    BY <1>6 DEF decrement, history
  <2> QED BY <2>1 DEF PauseInv, InPattern, elapsed
<1>7. CASE gapStart
  <2>1. /\ UNCHANGED <<clock, lag, currentAlert, beepGapMs, toneEndTime,
                       beepsRemaining>>
        /\ loopPc = "gap" /\ loopPc' = "led" /\ pause' = Paused
        /\ lastToggle' = IF beepsRemaining > 0 THEN now ELSE lastToggle
    BY <1>7 DEF gapStart
  <2>2. ASSUME pause' # NoPause
        PROVE  beepsRemaining > 0 /\ pause' = 0 /\ elapsed' = lag
    BY <2>1, <2>2 DEF Paused, elapsed, PauseInv, InPattern
  <2> QED
    <3>1. toneEndTime = 0
      BY <2>1 DEF PauseInv
    <3> QED BY <1>1, <2>1, <2>2, <3>1 DEF PauseInv, InPattern
<1>8. CASE toneStart
  <2>1. /\ UNCHANGED beepGapMs /\ loopPc' = "led" /\ pause' = NoPause
    BY <1>8 DEF toneStart
  <2> QED BY <2>1 DEF PauseInv, InPattern
<1>9. CASE ledBegin
  <2>1. /\ UNCHANGED <<clock, lag, lastToggle, currentAlert, beepGapMs,
                       toneEndTime, beepsRemaining, pause>>
        /\ loopPc = "led" /\ loopPc' \in {"blink", "idle"}
        /\ loopPc' = "blink" => now' = clock
    BY <1>9 DEF ledBegin, fields, history
  <2> QED BY <1>1, <1>2, <2>1 DEF PauseInv, InPattern, elapsed
<1>10. CASE blink
  <2>1. /\ UNCHANGED <<clock, now, lag, currentAlert, beepGapMs, toneEndTime,
                       beepsRemaining, pause>>
        /\ loopPc = "blink" /\ loopPc' = "expired"
        /\ \/ Since(now, lastToggle) >= Blink[currentAlert] /\ lastToggle' = now
           \/ lastToggle' = lastToggle
    BY <1>10 DEF blink, history
  <2>2. Since(clock, now) <= lag
    BY <2>1 DEF PauseInv
  <2>3. ASSUME pause # NoPause, currentAlert # ALERT_ACTIVITY_CRITICAL
        PROVE  pause <= elapsed' /\ elapsed' <= beepGapMs + lag
    <3>1. pause <= elapsed /\ elapsed <= beepGapMs + lag
      BY <2>1, <2>3 DEF PauseInv, InPattern
    <3>2. CASE lastToggle' = lastToggle
      BY <2>1, <3>1, <3>2 DEF elapsed
    <3>3. CASE /\ Since(now, lastToggle) >= Blink[currentAlert]
               /\ lastToggle' = now
      <4>1. /\ currentAlert \in Raised \ {ALERT_ACTIVITY_CRITICAL}
            /\ Blink[currentAlert] \in Nat
        BY <2>1, <2>3, AlertAssumption DEF Inv, TypeOK
      <4>2. Since(now, lastToggle) > beepGapMs + MaxLag
        BY <1>1, <1>2, <3>3, <4>1, GapFits
      <4>3. ~(Since(clock, now) <= elapsed)
        <5>1. SUFFICES ASSUME Since(clock, now) <= elapsed PROVE FALSE
          OBVIOUS
        <5>2. Since(now, lastToggle) = elapsed - Since(clock, now)
          BY <1>1, <5>1, SinceBetween DEF elapsed
        <5> QED BY <1>1, <1>2, <3>1, <4>2, <5>2
      <4>4. elapsed' = Since(clock, now)
        BY <2>1, <3>3 DEF elapsed
      <4> QED BY <1>1, <1>2, <2>2, <3>1, <4>3, <4>4
    <3> QED BY <2>1, <3>2, <3>3
  <2>4. pause # NoPause => toneEndTime = 0 /\ beepsRemaining > 0
    BY <2>1 DEF PauseInv
  <2> QED BY <2>1, <2>3, <2>4 DEF PauseInv, InPattern
<1>11. CASE expiredTest
  <2>1. /\ UNCHANGED <<clock, lag, lastToggle, currentAlert, beepGapMs,
                       toneEndTime, beepsRemaining, pause>>
        /\ loopPc = "expired" /\ loopPc' \in {"clear", "idle"}
    BY <1>11 DEF expiredTest, fields, history
  <2> QED BY <2>1 DEF PauseInv, InPattern, elapsed
<1>12. CASE clearAlert \/ clearRest
  <2>1. /\ UNCHANGED beepGapMs /\ loopPc' \in {"clearRest", "idle"}
        /\ pause' = NoPause
    BY <1>12 DEF clearAlert, clearRest
  <2> QED BY <2>1 DEF PauseInv, InPattern
<1> QED
  BY <1>3, <1>4, <1>5, <1>6, <1>7, <1>8, <1>9, <1>10, <1>11, <1>12 DEF update

\* alert() starts the pattern with a pause that is over, and a critical alert
\* is never replaced by one that has a pause to keep.
LEMMA PauseCall ==
  ASSUME Inv, PauseInv, PausesFit, (\E level \in Raised : assess(level)) \/ alert
  PROVE  PauseInv'
<1>1. /\ UNCHANGED <<clock, lag, loopPc, now>>
  BY DEF assess, alert, alertType, alertTime, patternCount, patternRest, loop
<1>2. CASE (\E level \in Raised : assess(level)) \/ alertTime
  <2>1. UNCHANGED <<lastToggle, currentAlert, beepGapMs, toneEndTime,
                    beepsRemaining, pause>>
    BY <1>2 DEF assess, alertTime, fields, history
  <2> QED BY <1>1, <2>1 DEF PauseInv, InPattern, elapsed
<1>3. CASE alertType
  <2>1. /\ UNCHANGED <<lastToggle, beepGapMs, toneEndTime, beepsRemaining, pause>>
        /\ currentAlert' = type /\ type \in Raised /\ currentAlert < type
    BY <1>3 DEF alertType, Inv
  <2>2. currentAlert # ALERT_ACTIVITY_CRITICAL
    BY <2>1 DEF Raised
  <2> QED BY <1>1, <2>1, <2>2 DEF PauseInv, InPattern, elapsed
<1>4. CASE patternCount
  <2>1. /\ UNCHANGED <<lastToggle, currentAlert, beepGapMs, toneEndTime, pause>>
        /\ beepsRemaining' > 0
    BY <1>4, AlertAssumption DEF patternCount, Inv
  <2> QED BY <1>1, <2>1 DEF PauseInv, InPattern, elapsed
<1>5. CASE patternRest
  <2>1. /\ type \in Raised /\ beepGapMs' = Gap[type] /\ toneEndTime' = 0
        /\ lastToggle' = (clock - Gap[type]) % TimeMod
        /\ pause' = Paused /\ UNCHANGED beepsRemaining
    BY <1>5 DEF patternRest, Inv
  <2>2. Gap[type] \in Time /\ clock \in Time
    BY <2>1, AlertAssumption DEF PausesFit, Inv, TypeOK, Time
  <2>3. elapsed' = Gap[type]
    BY <1>1, <2>1, <2>2, SinceBack DEF elapsed
  <2>4. lag \in Nat /\ MaxLag \in Nat /\ Gap[type] \in Nat
    BY <2>2, AlertAssumption DEF Inv, TypeOK, Time
  <2>5. pause' # NoPause => pause' = 0 /\ beepsRemaining' > 0
    BY <2>1 DEF Paused
  <2> QED BY <1>1, <2>1, <2>3, <2>4, <2>5 DEF PauseInv, InPattern
<1> QED BY <1>2, <1>3, <1>4, <1>5 DEF alert

\* For every table, clock width and lag that fit (PausesFit), every interleaving
\* of the two threads, every wrap of millis() and every change of stealth mode:
\* no beep below critical is held back longer than its gap and two turns of the
\* loop.
THEOREM PausesAreShort ==
  ASSUME PausesFit PROVE Spec => []PausesEnd
<1>1. Inv /\ PauseInv /\ [Next]_vars => PauseInv'
  <2> SUFFICES ASSUME Inv, PauseInv, [Next]_vars PROVE PauseInv'
    OBVIOUS
  <2>1. CASE SetStealth \/ UNCHANGED vars
    <3>1. UNCHANGED <<clock, lag, loopPc, now, lastToggle, currentAlert,
                      beepGapMs, toneEndTime, beepsRemaining, pause>>
      BY <2>1 DEF SetStealth, vars, fields, loop, history
    <3> QED BY <3>1 DEF PauseInv, InPattern, elapsed
  <2> QED BY <2>1, PauseTick, PauseUpdate, PauseCall DEF Next
<1>2. Inv /\ PauseInv => PausesEnd
  <2> SUFFICES ASSUME Inv, PauseInv, currentAlert # ALERT_ACTIVITY_CRITICAL
               PROVE  pause <= LongestPause
    BY DEF PausesEnd
  <2>1. /\ lag \in 0..MaxLag /\ beepGapMs \in Nat /\ MaxLag \in Nat
        /\ pause \in Nat \cup {-1} /\ elapsed \in Nat
    BY AlertAssumption, SinceType DEF Inv, TypeOK, elapsed
  <2>2. CASE pause # NoPause
    <3>1. pause <= elapsed /\ elapsed <= beepGapMs + lag + MaxLag
      BY <2>1, <2>2 DEF PauseInv
    <3> QED BY <2>1, <2>2, <3>1 DEF LongestPause
  <2>3. CASE pause = NoPause
    BY <2>1, <2>3 DEF LongestPause
  <2> QED BY <2>2, <2>3
<1> QED BY <1>1, <1>2, PauseInit, Invariance, PTL DEF Spec

-----------------------------------------------------------------------------
(* The alerts implement Alarm.                                             *)

\* Outside of a call there is no alert to raise.
NoCall == rfPc = "idle" => type = ALERT_NONE

LEMMA NoCallStep == NoCall /\ [Next]_vars => NoCall'
BY DEF NoCall, Next, vars, rf, Tick, SetStealth, update, updateBegin, beepTest,
       toneEnd, decrement, gapStart, toneStart, ledBegin, blink, expiredTest,
       clearAlert, clearRest, assess, alert, alertType, alertTime, patternCount,
       patternRest

LEMMA AlarmFrame ==
  ASSUME UNCHANGED <<currentAlert, age, type, rfPc, overlap>>
  PROVE  [Alerts!Next]_(Alerts!state)
BY DEF Alerts!state

LEMMA AlarmCall ==
  ASSUME Inv, NoCall, (\E level \in Raised : assess(level)) \/ alert
  PROVE  [Alerts!Next]_(Alerts!state)
<1>1. ASSUME NEW level \in Raised, assess(level)
      PROVE  [Alerts!Next]_(Alerts!state)
  <2>1. /\ type = ALERT_NONE /\ type' = level /\ currentAlert < level
        /\ UNCHANGED <<currentAlert, age, overlap>>
        /\ rfPc = "idle" /\ rfPc' = "type"
    BY <1>1 DEF assess, NoCall, Raised, fields, history
  <2>2. Alerts!Call(level)
    BY <2>1 DEF Alerts!Call
  <2> QED BY <2>2 DEF Alerts!Next
<1>2. CASE alertType
  <2>1. /\ type \in Raised /\ currentAlert < type /\ UNCHANGED type
        /\ currentAlert' = type /\ age' = 0 /\ overlap' = TRUE
        /\ rfPc = "type" /\ rfPc' = "time"
    BY <1>2 DEF alertType, Inv
  <2>2. Alerts!Raise
    BY <2>1, RaisedAreInts DEF Alerts!Raise
  <2> QED BY <2>2 DEF Alerts!Next
<1>3. CASE alertTime \/ patternCount
  <2>1. /\ UNCHANGED <<currentAlert, age, type>> /\ overlap' = TRUE
        /\ rfPc \in {"time", "count"} /\ rfPc' \in {"count", "pattern"}
    BY <1>3 DEF alertTime, patternCount
  <2>2. Alerts!Proceed
    BY <2>1 DEF Alerts!Proceed
  <2> QED BY <2>2 DEF Alerts!Next
<1>4. CASE patternRest
  <2>1. /\ UNCHANGED <<currentAlert, age>> /\ overlap' = TRUE
        /\ type' = ALERT_NONE /\ rfPc = "pattern" /\ rfPc' = "idle"
    BY <1>4 DEF patternRest
  <2>2. Alerts!Return
    BY <2>1 DEF Alerts!Return
  <2> QED BY <2>2 DEF Alerts!Next
<1> QED BY <1>1, <1>2, <1>3, <1>4 DEF alert

LEMMA AlarmUpdate ==
  ASSUME Inv, ExpiryInv, NoCall, update
  PROVE  [Alerts!Next]_(Alerts!state)
<1>1. CASE updateBegin
  <2>1. /\ UNCHANGED <<currentAlert, age, type, rfPc>>
        /\ overlap' = (rfPc # "idle")
    BY <1>1 DEF updateBegin, fields, rf
  <2>2. rfPc # "idle" <=> type # ALERT_NONE
    BY RaisedAreInts DEF NoCall, Inv, TypeOK
  <2>3. Alerts!Turn
    BY <2>1, <2>2 DEF Alerts!Turn
  <2> QED BY <2>3 DEF Alerts!Next
<1>2. CASE clearAlert
  <2>1. /\ currentAlert # ALERT_NONE /\ currentAlert' = ALERT_NONE
        /\ UNCHANGED <<age, type, rfPc, overlap>>
    BY <1>2 DEF clearAlert, Inv, rf, history
  <2>2. overlap \/ (age > Timeout /\ currentAlert # ALERT_ACTIVITY_CRITICAL)
    BY <1>2 DEF clearAlert, ExpiryInv
  <2>3. Alerts!Clear
    BY <2>1, <2>2 DEF Alerts!Clear
  <2> QED BY <2>3 DEF Alerts!Next
<1>3. CASE beepTest \/ toneEnd \/ decrement \/ gapStart \/ toneStart \/ ledBegin
           \/ blink \/ expiredTest \/ clearRest
  <2>1. UNCHANGED <<currentAlert, age, type, rfPc, overlap>>
    BY <1>3 DEF beepTest, toneEnd, decrement, gapStart, toneStart, ledBegin, blink,
                expiredTest, clearRest, fields, rf, history
  <2> QED BY <2>1, AlarmFrame
<1> QED BY <1>1, <1>2, <1>3 DEF update

\* For every pattern, timeout and clock width, and every interleaving of the RF
\* task with the loop: a call only ever raises the alert, and what ends one
\* without a call beside it is its age.
THEOREM ImplementsAlarm == Spec => AlarmSpec
<1>1. Init => Alerts!Init /\ NoCall
  <2>1. Init => rfPc = "idle"
    BY DEF Init
  <2> QED BY <2>1 DEF Init, Alerts!Init, NoCall
<1>2. Inv /\ ExpiryInv /\ NoCall /\ [Next]_vars
        => [Alerts!Next]_(Alerts!state)
  <2> SUFFICES ASSUME Inv, ExpiryInv, NoCall, [Next]_vars
               PROVE  [Alerts!Next]_(Alerts!state)
    OBVIOUS
  <2>1. CASE Tick
    <3>1. /\ UNCHANGED <<currentAlert, type, rfPc, overlap>>
          /\ age' = IF age > Timeout THEN age ELSE age + 1
      BY <2>1 DEF Tick, fields, rf
    <3>2. Alerts!Pass
      BY <3>1 DEF Alerts!Pass
    <3> QED BY <3>2 DEF Alerts!Next
  <2>2. CASE SetStealth \/ UNCHANGED vars
    BY <2>2, AlarmFrame DEF SetStealth, vars, fields, rf, history
  <2> QED BY <2>1, <2>2, AlarmCall, AlarmUpdate DEF Next
<1> QED
  BY <1>1, <1>2, NoCallStep, ExpiryInit, ExpiryStep, Invariance, PTL
  DEF Spec, AlarmSpec, Alerts!Spec
=============================================================================
