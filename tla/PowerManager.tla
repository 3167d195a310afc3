---------------------------- MODULE PowerManager ----------------------------
(***************************************************************************)
(* PowerManager (power_manager.cpp) after setup().  setMode() is called by *)
(* POST /api/power on the async_tcp task and by update() on the RF task;   *)
(* getBatteryVoltage() by the RF task, the heartbeat on the loop and the   *)
(* status broadcast on the Web task.  Nothing is locked: a step is one     *)
(* read or write that another task may see.                                *)
(***************************************************************************)
EXTENDS Integers

CONSTANTS
  RF, TCP,         \* the tasks that set the mode
  Readers,         \* the tasks that read the gauge, RF among them
  Charges          \* states of charge, in percent

ASSUME PowerAssumption ==
  /\ RF # TCP /\ RF \in Readers /\ TCP \notin Readers
  /\ Charges \subseteq 0..100 /\ 100 \in Charges

POWER_FULL == 0
POWER_BALANCED == 1
Modes == {POWER_FULL, POWER_BALANCED}
Setters == {RF, TCP}

\* What a mode means (power_manager.h:10-13).
Cpu(mode) == IF mode = POWER_BALANCED THEN 160 ELSE 240
PowerSave(mode) == mode = POWER_BALANCED

VARIABLES
  currentMode, batteryPercent,        \* fields of PowerManager
  batteryMonitoring,
  cpu, powerSave,                     \* the hardware
  charge, gauge,                      \* the battery; the gauge answers
  due,                                \* ten seconds since lastBatteryRead
  readPc, sample,                     \* readers in getBatteryVoltage()
  updatePc,                           \* the RF task in update()
  setPc, mode,                        \* setters in setMode(), its parameter
  clash                               \* for the properties, see setBegin

hardware == <<cpu, powerSave>>
battery == <<charge, gauge, batteryMonitoring>>
reading == <<readPc, sample>>
setting == <<setPc, mode>>
vars == <<currentMode, batteryPercent, hardware, battery, due, reading,
          updatePc, setting, clash>>

\* After PowerManager::begin() and configureNetwork().  A gauge that does not
\* answer the probe of begin() is never read again; one that does may fail
\* the first read.
Init ==
  /\ currentMode = POWER_FULL /\ cpu = 240 /\ powerSave = FALSE
  /\ charge \in Charges /\ gauge \in BOOLEAN /\ batteryMonitoring \in BOOLEAN
  /\ batteryPercent \in IF batteryMonitoring THEN {charge, 100} ELSE {100}
  /\ due = FALSE
  /\ readPc = [r \in Readers |-> "idle"] /\ sample = [r \in Readers |-> 0]
  /\ updatePc = "idle"
  /\ setPc = [c \in Setters |-> "idle"]
  /\ mode = [c \in Setters |-> POWER_FULL]
  /\ clash = FALSE

-----------------------------------------------------------------------------
(* The battery, its gauge and the clock.                                   *)

Discharge ==
  /\ charge' \in Charges \ {charge}
  /\ UNCHANGED <<currentMode, batteryPercent, batteryMonitoring, hardware,
                 gauge, due, reading, updatePc, setting, clash>>

GaugeAnswers ==
  /\ gauge' = ~gauge
  /\ UNCHANGED <<currentMode, batteryPercent, batteryMonitoring, hardware,
                 charge, due, reading, updatePc, setting, clash>>

TenSeconds ==
  /\ ~due /\ due' = TRUE
  /\ UNCHANGED <<currentMode, batteryPercent, hardware, battery, reading,
                 updatePc, setting, clash>>

-----------------------------------------------------------------------------
(* getBatteryVoltage(): nothing is read of a gauge that was missing at     *)
(* boot, and a failed read keeps the old values.                           *)

readCall(r) ==
  /\ r # RF /\ readPc[r] = "idle" /\ batteryMonitoring
  /\ readPc' = [readPc EXCEPT ![r] = "read"]
  /\ UNCHANGED <<currentMode, batteryPercent, hardware, battery, due, sample,
                 updatePc, setting, clash>>

readMax17048Register(r) ==
  /\ readPc[r] = "read"
  /\ IF gauge
     THEN /\ sample' = [sample EXCEPT ![r] = charge]
          /\ readPc' = [readPc EXCEPT ![r] = "store"]
     ELSE readPc' = [readPc EXCEPT ![r] = "idle"] /\ UNCHANGED sample
  /\ UNCHANGED <<currentMode, batteryPercent, hardware, battery, due, updatePc,
                 setting, clash>>

storePercent(r) ==
  /\ readPc[r] = "store" /\ readPc' = [readPc EXCEPT ![r] = "idle"]
  /\ batteryPercent' = sample[r]
  /\ sample' = [sample EXCEPT ![r] = 0]
  /\ UNCHANGED <<currentMode, hardware, battery, due, updatePc, setting, clash>>

getBatteryVoltage(r) ==
  readCall(r) \/ readMax17048Register(r) \/ storePercent(r)

-----------------------------------------------------------------------------
(* setMode(), one step for each of the mode, the CPU and the Wi-Fi.        *)

\* clash: the two calls ran beside each other, and no call alone since.
setBegin(c, m) ==
  /\ setPc' = [setPc EXCEPT ![c] = IF m = currentMode THEN "again" ELSE "mode"]
  /\ mode' = [mode EXCEPT ![c] = m]
  /\ clash' = (\E d \in Setters \ {c} : setPc[d] # "idle")

Beside(c) == clash \/ \E d \in Setters \ {c} : setPc[d] # "idle"

\* (variant) a mode that is already current is not applied again
setCpuAgain_Skips(c) ==
  /\ setPc[c] = "again" /\ setPc' = [setPc EXCEPT ![c] = "idle"]
  /\ clash' = Beside(c)
  /\ UNCHANGED <<currentMode, batteryPercent, hardware, battery, due, reading,
                 updatePc, mode>>

setCpuAgain(c) ==
  /\ setPc[c] = "again" /\ setPc' = [setPc EXCEPT ![c] = "policy"]
  /\ cpu' = Cpu(mode[c])
  /\ clash' = Beside(c)
  /\ UNCHANGED <<currentMode, batteryPercent, powerSave, battery, due, reading,
                 updatePc, mode>>

\* The policy follows the field, not the parameter.
applyWiFiPolicy(c) ==
  /\ setPc[c] = "policy" /\ setPc' = [setPc EXCEPT ![c] = "wifi"]
  /\ mode' = [mode EXCEPT ![c] = currentMode]
  /\ clash' = Beside(c)
  /\ UNCHANGED <<currentMode, batteryPercent, hardware, battery, due, reading,
                 updatePc>>

setCurrentMode(c) ==
  /\ setPc[c] = "mode" /\ setPc' = [setPc EXCEPT ![c] = "cpu"]
  /\ currentMode' = mode[c]
  /\ clash' = Beside(c)
  /\ UNCHANGED <<batteryPercent, hardware, battery, due, reading, updatePc,
                 mode>>

setCPUFrequency(c) ==
  /\ setPc[c] = "cpu" /\ setPc' = [setPc EXCEPT ![c] = "wifi"]
  /\ cpu' = Cpu(mode[c])
  /\ clash' = Beside(c)
  /\ UNCHANGED <<currentMode, batteryPercent, powerSave, battery, due, reading,
                 updatePc, mode>>

setWiFiPowerSave(c) ==
  /\ setPc[c] = "wifi" /\ setPc' = [setPc EXCEPT ![c] = "idle"]
  /\ powerSave' = PowerSave(mode[c])
  /\ clash' = Beside(c)
  /\ UNCHANGED <<currentMode, batteryPercent, cpu, battery, due, reading,
                 updatePc, mode>>

setMode(c) ==
  \/ setCpuAgain(c) \/ applyWiFiPolicy(c)
  \/ setCurrentMode(c) \/ setCPUFrequency(c) \/ setWiFiPowerSave(c)

-----------------------------------------------------------------------------
(* The callers of setMode().                                               *)

\* POST /api/power?mode=m
post(m) ==
  /\ setPc[TCP] = "idle" /\ setBegin(TCP, m)
  /\ UNCHANGED <<currentMode, batteryPercent, hardware, battery, due, reading,
                 updatePc>>

updateBegin ==
  /\ updatePc = "idle" /\ setPc[RF] = "idle" /\ due
  /\ updatePc' = "gauge"
  /\ readPc' = [readPc EXCEPT
                  ![RF] = IF batteryMonitoring THEN "read" ELSE "idle"]
  /\ UNCHANGED <<currentMode, batteryPercent, hardware, battery, due, sample,
                 setting, clash>>

isBatteryCritical == batteryPercent < 5

\* (variant) the test is one percent low
updateTest_Low ==
  /\ updatePc = "gauge" /\ readPc[RF] = "idle"
  /\ due' = FALSE
  /\ updatePc' = IF batteryPercent < 4 THEN "mode" ELSE "idle"
  /\ UNCHANGED <<currentMode, batteryPercent, hardware, battery, reading,
                 setting, clash>>

updateTest ==
  /\ updatePc = "gauge" /\ readPc[RF] = "idle"
  /\ due' = FALSE
  /\ updatePc' = IF isBatteryCritical THEN "mode" ELSE "idle"
  /\ UNCHANGED <<currentMode, batteryPercent, hardware, battery, reading,
                 setting, clash>>

\* update() looks at the mode, and setMode() at what it is by then.
updateMode ==
  /\ updatePc = "mode"
  /\ updatePc' = IF currentMode = POWER_FULL THEN "set" ELSE "idle"
  /\ UNCHANGED <<currentMode, batteryPercent, hardware, battery, due, reading,
                 setting, clash>>

updateSet ==
  /\ updatePc = "set" /\ updatePc' = "idle"
  /\ setBegin(RF, POWER_BALANCED)
  /\ UNCHANGED <<currentMode, batteryPercent, hardware, battery, due, reading>>

update == updateBegin \/ updateTest \/ updateMode \/ updateSet

-----------------------------------------------------------------------------

Next ==
  \/ Discharge \/ GaugeAnswers \/ TenSeconds
  \/ \E r \in Readers : getBatteryVoltage(r)
  \/ \E c \in Setters : setMode(c)
  \/ \E m \in Modes : post(m)
  \/ update

Spec == Init /\ [][Next]_vars

\* Time passes and every task runs.
FairSpec ==
  /\ Spec /\ WF_vars(TenSeconds) /\ WF_vars(update)
  /\ \A r \in Readers : WF_vars(readMax17048Register(r) \/ storePercent(r))
  /\ \A c \in Setters : WF_vars(setMode(c))

-----------------------------------------------------------------------------
(* Properties.                                                             *)

\* The fields, the hardware and the tasks.
TypeOK ==
  /\ currentMode \in Modes /\ batteryPercent \in Charges
  /\ cpu \in {160, 240} /\ powerSave \in BOOLEAN
  /\ charge \in Charges /\ gauge \in BOOLEAN /\ due \in BOOLEAN
  /\ batteryMonitoring \in BOOLEAN
  /\ readPc \in [Readers -> {"idle", "read", "store"}]
  /\ sample \in [Readers -> Charges \cup {0}]
  /\ updatePc \in {"idle", "gauge", "mode", "set"}
  /\ setPc \in [Setters -> {"idle", "again", "policy", "mode", "cpu", "wifi"}]
  /\ mode \in [Setters -> Modes] /\ clash \in BOOLEAN

Applied == cpu = Cpu(currentMode) /\ powerSave = PowerSave(currentMode)

\* The CPU and the Wi-Fi are those of the mode whenever the last call of
\* setMode() ran alone - also after two calls that did not, since a mode that
\* is already current is applied again (power_manager.cpp:74-78).
ModeApplied ==
  (\A c \in Setters : setPc[c] = "idle") /\ ~clash => Applied

\* A battery that stays critical, with a gauge that was there at boot and
\* answers, brings the device to BALANCED again and again, whatever is
\* requested and however the readers overtake each other (power_manager.cpp:
\* 59-71); for good when the requests stop, and then with the CPU and the
\* Wi-Fi of that mode, unless the last request clashed with update().
CriticalBalances ==
  batteryMonitoring /\ <>[](gauge /\ charge < 5) =>
    /\ []<>(currentMode = POWER_BALANCED)
    /\ <>[](setPc[TCP] = "idle") =>
         <>[](currentMode = POWER_BALANCED /\ (clash \/ Applied))
=============================================================================
