---------------------------- MODULE AlertManager ----------------------------
(***************************************************************************)
(* AlertManager (alert_manager.cpp) and its two users, which share its     *)
(* fields without a lock: the RF task on core 0 calls alert()              *)
(* (main.cpp:102-112), the Arduino loop on core 1 calls update()           *)
(* (main.cpp:324).  A step is one read or write of a shared field, or a    *)
(* run of them between which the other thread cannot be told apart.        *)
(*                                                                         *)
(* millis() is a counter modulo TimeMod.  The durations are constants, so  *)
(* that an instance can scale them down while keeping their order.         *)
(***************************************************************************)
EXTENDS Integers

CONSTANTS
  TimeMod,      \* 2^32 in the firmware
  Timeout,      \* 10000 ms: auto-clear
  Count,        \* beeps per alert type: 2, 3, 5
  Duration,     \* length of a beep: 80, 100, 150 ms
  Gap,          \* pause between beeps: 80, 50, 50 ms
  Blink,        \* LED period: 250, 100, 50 ms
  MaxLag,       \* loop() runs at least once in MaxLag ms (watchdog)
  StealthModes  \* the values of stealthMode requests may store

\* enum AlertType; the firmware raises only the three activity alerts.
ALERT_NONE == 0
ALERT_ACTIVITY_MEDIUM == 2
ALERT_ACTIVITY_HIGH == 3
ALERT_ACTIVITY_CRITICAL == 4
Raised ==
  {ALERT_ACTIVITY_MEDIUM, ALERT_ACTIVITY_HIGH, ALERT_ACTIVITY_CRITICAL}

ASSUME AlertAssumption ==
  /\ TimeMod \in Nat /\ Timeout \in Nat /\ Timeout < TimeMod /\ MaxLag \in Nat
  /\ Count \in [Raised -> 1..255]
  /\ Duration \in [Raised -> Nat] /\ Gap \in [Raised -> Nat]
  /\ Blink \in [Raised -> Nat]
  /\ StealthModes \subseteq BOOLEAN

VARIABLES
  clock,          \* millis()
  lag,            \* ms since loop() last entered update()
  stealth,        \* configManager.get().stealthMode
  \* fields of AlertManager
  currentAlert, alertStartTime, lastToggle, ledState, toneEndTime,
  beepsRemaining, beepDurationMs, beepGapMs,
  \* the loop: program counter and the locals of update()
  loopPc, now, remaining,
  \* the RF task: program counter and the alert it is raising
  rfPc, type,
  \* what happened, for the properties
  age,            \* ms since the current alert was raised, up to Timeout + 1
  overlap,        \* a call of alert() ran beside this update()
  pause           \* ms since the pause before a beep began, or NoPause

fields == <<currentAlert, alertStartTime, lastToggle, ledState, toneEndTime,
            beepsRemaining, beepDurationMs, beepGapMs>>
loop == <<loopPc, now, remaining>>
rf == <<rfPc, type>>
history == <<age, overlap, pause>>
vars == <<clock, lag, stealth, fields, loop, rf, history>>

Time == 0..(TimeMod - 1)
Since(a, b) == (a - b) % TimeMod         \* uint32_t subtraction
NoPause == -1
LongestPause == beepGapMs + 2 * MaxLag
Paused == IF beepsRemaining > 0 THEN 0 ELSE NoPause

Init ==
  /\ clock = 0 /\ lag = 0 /\ stealth \in StealthModes
  /\ currentAlert = ALERT_NONE /\ alertStartTime = 0 /\ lastToggle = 0
  /\ ledState = FALSE /\ toneEndTime = 0 /\ beepsRemaining = 0
  /\ beepDurationMs = 0 /\ beepGapMs = 0
  /\ loopPc = "idle" /\ now = 0 /\ remaining = 0
  /\ rfPc = "idle" /\ type = ALERT_NONE
  /\ age = 0 /\ overlap = FALSE /\ pause = NoPause

-----------------------------------------------------------------------------
(* Time, and POST /api/config storing stealthMode.                         *)

Tick ==
  /\ lag < MaxLag
  /\ clock' = (clock + 1) % TimeMod /\ lag' = lag + 1
  /\ age' = IF age > Timeout THEN age ELSE age + 1
  /\ pause' = IF pause = NoPause \/ pause > LongestPause THEN pause
              ELSE pause + 1
  /\ UNCHANGED <<stealth, fields, loop, rf, overlap>>

SetStealth ==
  /\ stealth' \in StealthModes /\ stealth' # stealth
  /\ UNCHANGED <<clock, lag, fields, loop, rf, history>>

-----------------------------------------------------------------------------
(* update(), called from loop().                                           *)

\* (variant) the pattern is advanced whether or not a beep is left
updateBegin_NoTest ==
  /\ loopPc = "idle" /\ loopPc' = "beep" /\ now' = clock
  /\ lag' = 0 /\ overlap' = (rfPc # "idle")
  /\ UNCHANGED <<clock, stealth, fields, remaining, rf, age, pause>>

updateBegin ==
  /\ loopPc = "idle"
  /\ lag' = 0 /\ overlap' = (rfPc # "idle")
  /\ IF beepsRemaining > 0
     THEN loopPc' = "beep" /\ now' = clock
     ELSE loopPc' = "led" /\ UNCHANGED now
  /\ UNCHANGED <<clock, stealth, fields, remaining, rf, age, pause>>

\* Which of the two branches of the beep pattern is taken, if any.
beepTest ==
  /\ loopPc = "beep"
  /\ loopPc' = IF toneEndTime > 0 /\ now >= toneEndTime THEN "toneEnd"
               ELSE IF toneEndTime = 0 /\ Since(now, lastToggle) >= beepGapMs
                    THEN "toneStart" ELSE "led"
  /\ UNCHANGED <<clock, lag, stealth, fields, now, remaining, rf, history>>

\* noTone(); toneEndTime = 0; and the read half of beepsRemaining--.
toneEnd ==
  /\ loopPc = "toneEnd" /\ loopPc' = "decrement"
  /\ toneEndTime' = 0
  /\ remaining' = beepsRemaining
  /\ UNCHANGED <<clock, lag, stealth, currentAlert, alertStartTime, lastToggle,
                 ledState, beepsRemaining, beepDurationMs, beepGapMs, now, rf,
                 history>>

decrement ==
  /\ loopPc = "decrement" /\ loopPc' = "gap"
  /\ beepsRemaining' = (remaining - 1) % 256
  /\ remaining' = 0
  /\ UNCHANGED <<clock, lag, stealth, currentAlert, alertStartTime, lastToggle,
                 ledState, toneEndTime, beepDurationMs, beepGapMs, now, rf,
                 history>>

gapStart ==
  /\ loopPc = "gap" /\ loopPc' = "led"
  /\ lastToggle' = IF beepsRemaining > 0 THEN now ELSE lastToggle
  /\ now' = 0 /\ pause' = Paused
  /\ UNCHANGED <<clock, lag, stealth, currentAlert, alertStartTime, ledState,
                 toneEndTime, beepsRemaining, beepDurationMs, beepGapMs,
                 remaining, rf, age, overlap>>

\* In stealth mode the same schedule runs without the buzzer.
toneStart ==
  /\ loopPc = "toneStart" /\ loopPc' = "led"
  /\ toneEndTime' = (now + beepDurationMs) % TimeMod
  /\ now' = 0 /\ pause' = NoPause
  /\ UNCHANGED <<clock, lag, stealth, currentAlert, alertStartTime, lastToggle,
                 ledState, beepsRemaining, beepDurationMs, beepGapMs,
                 remaining, rf, age, overlap>>

\* The LED block is skipped as a whole in stealth mode.
ledBegin ==
  /\ loopPc = "led"
  /\ IF ~stealth /\ currentAlert # ALERT_NONE
     THEN loopPc' = "blink" /\ now' = clock
     ELSE loopPc' = "idle" /\ now' = 0
  /\ UNCHANGED <<clock, lag, stealth, fields, remaining, rf, history>>

\* (variant) every pass counts as a toggle
blink_Each ==
  /\ loopPc = "blink" /\ loopPc' = "expired"
  /\ lastToggle' = now
  /\ ledState' = (ledState # (Since(now, lastToggle) >= Blink[currentAlert]))
  /\ UNCHANGED <<clock, lag, stealth, currentAlert, alertStartTime,
                 toneEndTime, beepsRemaining, beepDurationMs, beepGapMs, now,
                 remaining, rf, history>>

blink ==
  /\ loopPc = "blink" /\ loopPc' = "expired"
  /\ IF Since(now, lastToggle) >= Blink[currentAlert]
     THEN ledState' = ~ledState /\ lastToggle' = now
     ELSE UNCHANGED <<ledState, lastToggle>>
  /\ UNCHANGED <<clock, lag, stealth, currentAlert, alertStartTime,
                 toneEndTime, beepsRemaining, beepDurationMs, beepGapMs, now,
                 remaining, rf, history>>

\* (variant) the age is compared as if millis() never wrapped
expiredTest_NoWrap ==
  /\ loopPc = "expired"
  /\ IF /\ currentAlert # ALERT_ACTIVITY_CRITICAL
        /\ now < alertStartTime \/ now - alertStartTime > Timeout
     THEN loopPc' = "clear" ELSE loopPc' = "idle"
  /\ now' = 0
  /\ UNCHANGED <<clock, lag, stealth, fields, remaining, rf, history>>

\* (variant) a high alert does not expire either
expiredTest_HighStays ==
  /\ loopPc = "expired"
  /\ IF /\ currentAlert < ALERT_ACTIVITY_HIGH
        /\ Since(now, alertStartTime) > Timeout
     THEN loopPc' = "clear" ELSE loopPc' = "idle"
  /\ now' = 0
  /\ UNCHANGED <<clock, lag, stealth, fields, remaining, rf, history>>

expiredTest ==
  /\ loopPc = "expired"
  /\ IF /\ currentAlert # ALERT_ACTIVITY_CRITICAL
        /\ Since(now, alertStartTime) > Timeout
     THEN loopPc' = "clear" ELSE loopPc' = "idle"
  /\ now' = 0
  /\ UNCHANGED <<clock, lag, stealth, fields, remaining, rf, history>>

\* clearAlert(): the alert first, then the pattern and the LED.
clearAlert ==
  /\ loopPc = "clear" /\ loopPc' = "clearRest"
  /\ currentAlert' = ALERT_NONE /\ pause' = NoPause
  /\ UNCHANGED <<clock, lag, stealth, alertStartTime, lastToggle, ledState,
                 toneEndTime, beepsRemaining, beepDurationMs, beepGapMs, now,
                 remaining, rf, age, overlap>>

\* (variant) the LED keeps its state
clearRest_LedKept ==
  /\ loopPc = "clearRest" /\ loopPc' = "idle"
  /\ beepsRemaining' = 0 /\ toneEndTime' = 0 /\ pause' = NoPause
  /\ UNCHANGED <<clock, lag, stealth, currentAlert, alertStartTime, lastToggle,
                 ledState, beepDurationMs, beepGapMs, now, remaining, rf, age,
                 overlap>>

clearRest ==
  /\ loopPc = "clearRest" /\ loopPc' = "idle"
  /\ beepsRemaining' = 0 /\ toneEndTime' = 0 /\ pause' = NoPause
  /\ ledState' = FALSE
  /\ UNCHANGED <<clock, lag, stealth, currentAlert, alertStartTime, lastToggle,
                 beepDurationMs, beepGapMs, now, remaining, rf, age,
                 overlap>>

update ==
  \/ updateBegin \/ beepTest \/ toneEnd \/ decrement \/ gapStart \/ toneStart
  \/ ledBegin \/ blink \/ expiredTest \/ clearAlert \/ clearRest

-----------------------------------------------------------------------------
(* The RF task: a receiver reads a level, and alert() is called for it     *)
(* unless an alert at least as high is current.                            *)

assess(level) ==
  /\ rfPc = "idle"
  /\ currentAlert < level \/ currentAlert = ALERT_NONE
  /\ rfPc' = "type" /\ type' = level
  /\ UNCHANGED <<clock, lag, stealth, fields, loop, history>>

alertType ==
  /\ rfPc = "type" /\ rfPc' = "time"
  /\ currentAlert' = type
  /\ age' = 0 /\ overlap' = TRUE
  /\ UNCHANGED <<clock, lag, stealth, alertStartTime, lastToggle, ledState,
                 toneEndTime, beepsRemaining, beepDurationMs, beepGapMs, loop,
                 type, pause>>

alertTime ==
  /\ rfPc = "time" /\ rfPc' = "count"
  /\ alertStartTime' = clock
  /\ overlap' = TRUE
  /\ UNCHANGED <<clock, lag, stealth, currentAlert, lastToggle, ledState,
                 toneEndTime, beepsRemaining, beepDurationMs, beepGapMs, loop,
                 type, age, pause>>

\* startPattern(): beepsRemaining, then the other fields.
patternCount ==
  /\ rfPc = "count" /\ rfPc' = "pattern"
  /\ beepsRemaining' = Count[type]
  /\ overlap' = TRUE
  /\ UNCHANGED <<clock, lag, stealth, currentAlert, alertStartTime, lastToggle,
                 ledState, toneEndTime, beepDurationMs, beepGapMs, loop, type,
                 age, pause>>

patternRest ==
  /\ rfPc = "pattern" /\ rfPc' = "idle"
  /\ beepDurationMs' = Duration[type] /\ beepGapMs' = Gap[type]
  /\ toneEndTime' = 0
  /\ lastToggle' = (clock - Gap[type]) % TimeMod
  /\ type' = ALERT_NONE
  /\ overlap' = TRUE /\ pause' = Paused
  /\ UNCHANGED <<clock, lag, stealth, currentAlert, alertStartTime, ledState,
                 beepsRemaining, loop, age>>

alert == alertType \/ alertTime \/ patternCount \/ patternRest

-----------------------------------------------------------------------------

Next ==
  \/ Tick \/ SetStealth
  \/ update
  \/ \E level \in Raised : assess(level)
  \/ alert

Spec == Init /\ [][Next]_vars

\* Time passes, loop() keeps running and a call of alert() returns.
FairSpec == Spec /\ WF_vars(Tick) /\ WF_vars(update) /\ WF_vars(alert)

-----------------------------------------------------------------------------
(* Properties.                                                             *)

\* The types of the fields (alert_manager.h:42-53) and of the threads.
TypeOK ==
  /\ clock \in Time /\ lag \in 0..MaxLag /\ stealth \in BOOLEAN
  /\ currentAlert \in Raised \cup {ALERT_NONE}
  /\ alertStartTime \in Time /\ lastToggle \in Time /\ toneEndTime \in Time
  /\ ledState \in BOOLEAN /\ beepsRemaining \in 0..255
  /\ beepDurationMs \in Nat /\ beepGapMs \in Nat
  /\ loopPc \in {"idle", "beep", "toneEnd", "decrement", "gap", "toneStart",
                 "led", "blink", "expired", "clear", "clearRest"}
  /\ now \in Time /\ remaining \in 0..255
  /\ rfPc \in {"idle", "type", "time", "count", "pattern"}
  /\ type \in Raised \cup {ALERT_NONE}
  /\ age \in Nat /\ overlap \in BOOLEAN /\ pause \in Nat \cup {NoPause}

\* However alert() interleaves with the read and the write of
\* beepsRemaining--, the uint8_t never wraps below zero: no runaway pattern.
NoBeepUnderflow == \E t \in Raised : beepsRemaining <= Count[t]

\* Between updates the LED is lit only for an alert that is current.
LedFollowsAlert == loopPc = "idle" /\ ledState => currentAlert # ALERT_NONE

\* The pauses between the beeps and the toggles of the LED are both counted from
\* lastToggle, and both threads store it; no toggle, no change of stealth mode
\* and no wrap of millis() ever holds the next beep back longer than the gap and
\* two turns of the loop (alert_manager.cpp:57, 59, 90, 153).  A critical alert,
\* whose gap is as long as its LED's period, can be held back.
PausesEnd == currentAlert # ALERT_ACTIVITY_CRITICAL => pause <= LongestPause

\* What PausesEnd asks of the table and of the loop: no LED toggles during a
\* pause, and a pause is shorter than a wrap of the clock.
PausesFit ==
  \A s \in Raised :
    /\ Gap[s] + 2 * MaxLag < TimeMod
    /\ \A t \in Raised \ {ALERT_ACTIVITY_CRITICAL} : Gap[s] + MaxLag < Blink[t]

\* A current alert is only ever replaced by a higher one or cleared
\* (main.cpp:108), whatever the loop does meanwhile.
NeverLowered ==
  [][currentAlert' # currentAlert
       => currentAlert' = ALERT_NONE \/ currentAlert' > currentAlert]_vars

\* update() clears only an expired alert that is not critical, across a wrap
\* of millis(), provided no call of alert() ran beside it.
ClearsOnlyExpired ==
  [][currentAlert # ALERT_NONE /\ currentAlert' = ALERT_NONE /\ ~overlap
       => age > Timeout /\ currentAlert # ALERT_ACTIVITY_CRITICAL]_vars

Alerts == INSTANCE Alarm
  WITH Alerts <- Raised, None <- ALERT_NONE, Critical <- ALERT_ACTIVITY_CRITICAL,
       current <- currentAlert, calling <- type,
       made <- (rfPc \in {"time", "count", "pattern"}), beside <- overlap

\* Whatever the RF task and the loop do to the shared fields and whenever the
\* clock wraps, the alert behaves as Alarm says: a call never lowers it
\* (main.cpp:108), and a turn without a call beside it clears only an expired
\* alert below critical (alert_manager.cpp:93-97).
AlarmSpec == Alerts!Spec

\* Once stealth mode is off for good, every alert below critical ends: it is
\* cleared or a higher one takes its place (alert_manager.cpp:93).
AlertsEnd ==
  <>[]~stealth =>
    \A t \in Raised \ {ALERT_ACTIVITY_CRITICAL} :
       currentAlert = t ~> currentAlert # t

-----------------------------------------------------------------------------
(* What the comments say and the code does not do.                         *)

\* alert_manager.cpp:93: "Auto-clear alerts after timeout": every alert below
\* critical is cleared some time.
AutoClear ==
  \A t \in Raised \ {ALERT_ACTIVITY_CRITICAL} :
     currentAlert = t ~> currentAlert # t
=============================================================================
