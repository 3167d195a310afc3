------------------------- MODULE PowerManagerProofs -------------------------
(***************************************************************************)
(* What PowerManager guarantees for any set of readers and any states of   *)
(* charge: the types, and that a call of setMode() that runs alone leaves  *)
(* the CPU and the Wi-Fi as the mode wants them.                           *)
(***************************************************************************)
EXTENDS PowerManager, TLAPS

ReadersOK ==
  /\ batteryPercent \in Charges /\ charge \in Charges /\ gauge \in BOOLEAN
  /\ batteryMonitoring \in BOOLEAN /\ due \in BOOLEAN
  /\ readPc \in [Readers -> {"idle", "read", "store"}]
  /\ sample \in [Readers -> Charges \cup {0}]
  /\ \A r \in Readers : readPc[r] = "store" => sample[r] \in Charges
  /\ updatePc \in {"idle", "gauge", "mode", "set"}

SettersOK ==
  /\ currentMode \in Modes /\ cpu \in {160, 240} /\ powerSave \in BOOLEAN
  /\ setPc \in [Setters -> {"idle", "again", "policy", "mode", "cpu", "wifi"}]
  /\ mode \in [Setters -> Modes] /\ clash \in BOOLEAN
  /\ updatePc # "idle" => setPc[RF] = "idle"

\* How far a call that runs alone has brought the mode and the hardware.
Stage(c) ==
  /\ setPc[c] \in {"again", "policy", "cpu", "wifi"} => mode[c] = currentMode
  /\ setPc[c] \in {"policy", "wifi"} => cpu = Cpu(currentMode)

\* A call beside which none runs is at its stage; between calls the hardware
\* is that of the mode.
AloneApplies ==
  ~clash =>
    /\ \A c \in Setters : setPc[c] # "idle" =>
         Stage(c) /\ \A d \in Setters \ {c} : setPc[d] = "idle"
    /\ (\A c \in Setters : setPc[c] = "idle") => Applied

Inv == ReadersOK /\ SettersOK /\ AloneApplies

gauges == <<batteryPercent, battery, due, reading, updatePc>>
calls == <<currentMode, hardware, updatePc, setting, clash>>

LEMMA Frames ==
  /\ ReadersOK /\ UNCHANGED gauges => ReadersOK'
  /\ SettersOK /\ AloneApplies /\ UNCHANGED calls => SettersOK' /\ AloneApplies'
<1>1. ReadersOK /\ UNCHANGED gauges => ReadersOK'
  BY DEF ReadersOK, gauges, battery, reading
<1>2. SettersOK /\ UNCHANGED calls => SettersOK'
  BY DEF SettersOK, calls, hardware, setting
<1>3. AloneApplies /\ UNCHANGED calls => AloneApplies'
  BY DEF AloneApplies, Stage, Applied, calls, hardware, setting
<1> QED BY <1>1, <1>2, <1>3

LEMMA Initial == Init => Inv
<1> SUFFICES ASSUME Init PROVE Inv
  OBVIOUS
<1>1. ReadersOK
  BY PowerAssumption DEF Init, ReadersOK
<1>2. SettersOK
  BY DEF Init, SettersOK, Setters, Modes, POWER_FULL, POWER_BALANCED
<1>3. AloneApplies
  <2>1. Applied
    <3>1. currentMode # POWER_BALANCED /\ cpu = 240 /\ powerSave = FALSE
      BY DEF Init, POWER_FULL, POWER_BALANCED
    <3> QED BY <3>1, Zenon DEF Applied, Cpu, PowerSave
  <2>2. \A c \in Setters : setPc[c] = "idle"
    BY DEF Init
  <2> QED BY <2>1, <2>2 DEF AloneApplies
<1> QED BY <1>1, <1>2, <1>3 DEF Inv

\* Another call of setMode() begins.
LEMMA Begins ==
  ASSUME Inv, NEW c \in Setters, NEW m \in Modes, setPc[c] = "idle",
         setBegin(c, m), UNCHANGED <<currentMode, cpu, powerSave>>,
         updatePc' = "idle" \/ (c = TCP /\ UNCHANGED updatePc)
  PROVE  SettersOK' /\ AloneApplies'
<1>1. SettersOK'
  BY PowerAssumption DEF Inv, SettersOK, setBegin, Setters
<1>2. ASSUME ~clash' PROVE AloneApplies'
  <2>1. \A d \in Setters \ {c} : setPc[d] = "idle" /\ setPc'[d] = "idle"
    BY <1>2 DEF Inv, SettersOK, setBegin
  <2>2. /\ setPc'[c] = IF m = currentMode THEN "again" ELSE "mode"
        /\ mode'[c] = m /\ currentMode' = currentMode
    BY DEF Inv, SettersOK, setBegin
  <2>3. Stage(c)' /\ setPc'[c] # "idle"
    BY <2>2 DEF Stage
  <2> QED BY <2>1, <2>3 DEF AloneApplies
<1> QED BY <1>1, <1>2 DEF AloneApplies

\* A call of setMode() goes on.
LEMMA GoesOn ==
  ASSUME Inv, NEW c \in Setters, setMode(c)
  PROVE  Inv'
<1>1. ReadersOK'
  <2>1. UNCHANGED gauges
    BY DEF gauges, setMode, setCpuAgain, applyWiFiPolicy, setCurrentMode,
           setCPUFrequency, setWiFiPowerSave
  <2> QED BY <2>1, Frames DEF Inv
<1>2. /\ setPc[c] # "idle" /\ setPc' = [setPc EXCEPT ![c] = setPc'[c]]
      /\ clash' = Beside(c)
  BY DEF Inv, SettersOK, setMode, setCpuAgain, applyWiFiPolicy, setCurrentMode,
         setCPUFrequency, setWiFiPowerSave
<1>3. SettersOK'
  <2> USE DEF Inv, SettersOK, Cpu, PowerSave
  <2>0. clash' \in BOOLEAN
    BY <1>2 DEF Beside
  <2>1. CASE setCpuAgain(c)
    BY <2>0, <2>1 DEF setCpuAgain
  <2>2. CASE applyWiFiPolicy(c)
    BY <2>0, <2>2 DEF applyWiFiPolicy, hardware
  <2>3. CASE setCurrentMode(c)
    BY <2>0, <2>3 DEF setCurrentMode, hardware
  <2>4. CASE setCPUFrequency(c)
    BY <2>0, <2>4 DEF setCPUFrequency
  <2>5. CASE setWiFiPowerSave(c)
    BY <2>0, <2>5 DEF setWiFiPowerSave
  <2> QED BY <2>1, <2>2, <2>3, <2>4, <2>5 DEF setMode
<1>4. ASSUME ~clash' PROVE AloneApplies'
  <2>1. ~clash /\ \A d \in Setters \ {c} : setPc[d] = "idle"
    BY <1>2, <1>4 DEF Beside
  <2>2. Stage(c)
    BY <1>2, <2>1 DEF Inv, AloneApplies
  <2>3. \A d \in Setters \ {c} : setPc'[d] = "idle"
    BY <1>2, <2>1 DEF Inv, SettersOK
  <2>4. /\ setPc'[c] # "idle" => Stage(c)'
        /\ setPc'[c] = "idle" => Applied'
    <3> USE <2>2 DEF Inv, SettersOK, Stage
    <3>1. CASE setCpuAgain(c)
      BY <3>1 DEF setCpuAgain
    <3>2. CASE applyWiFiPolicy(c)
      BY <3>2 DEF applyWiFiPolicy, hardware
    <3>3. CASE setCurrentMode(c)
      BY <3>3 DEF setCurrentMode, hardware
    <3>4. CASE setCPUFrequency(c)
      BY <3>4 DEF setCPUFrequency
    <3>5. CASE setWiFiPowerSave(c)
      BY <3>5 DEF setWiFiPowerSave, Applied
    <3> QED BY <3>1, <3>2, <3>3, <3>4, <3>5 DEF setMode
  <2> QED BY <2>3, <2>4 DEF AloneApplies
<1> QED BY <1>1, <1>3, <1>4 DEF Inv, AloneApplies

LEMMA Step == Inv /\ [Next]_vars => Inv'
<1> SUFFICES ASSUME Inv, [Next]_vars PROVE Inv'
  OBVIOUS
<1>1. CASE Discharge
  BY <1>1, Frames DEF Inv, ReadersOK, Discharge, calls, reading
<1>2. CASE GaugeAnswers
  BY <1>2, Frames DEF Inv, ReadersOK, GaugeAnswers, calls, reading
<1>3. CASE TenSeconds
  BY <1>3, Frames DEF Inv, ReadersOK, TenSeconds, calls, battery, reading
<1>4. ASSUME NEW r \in Readers, getBatteryVoltage(r) PROVE Inv'
  <2>1. UNCHANGED calls
    BY <1>4 DEF calls, getBatteryVoltage, readCall, readMax17048Register,
                storePercent
  <2>2. CASE readCall(r)
    BY <2>1, <2>2, Frames DEF Inv, ReadersOK, readCall, battery
  <2>3. CASE readMax17048Register(r)
    BY <2>1, <2>3, Frames DEF Inv, ReadersOK, readMax17048Register, battery
  <2>4. CASE storePercent(r)
    BY <2>1, <2>4, Frames DEF Inv, ReadersOK, storePercent, battery
  <2> QED BY <1>4, <2>2, <2>3, <2>4 DEF getBatteryVoltage
<1>5. ASSUME NEW c \in Setters, setMode(c) PROVE Inv'
  BY <1>5, GoesOn
<1>6. ASSUME NEW m \in Modes, post(m) PROVE Inv'
  <2>1. ReadersOK'
    BY <1>6, Frames DEF Inv, post, gauges
  <2>2. SettersOK' /\ AloneApplies'
    BY <1>6, Begins DEF post, Setters, hardware
  <2> QED BY <2>1, <2>2 DEF Inv
<1>7. CASE updateBegin
  <2>1. ReadersOK'
    BY <1>7, PowerAssumption DEF Inv, ReadersOK, updateBegin, battery
  <2>2. SettersOK'
    BY <1>7 DEF Inv, SettersOK, updateBegin, hardware, setting
  <2>3. AloneApplies'
    BY <1>7 DEF Inv, AloneApplies, Stage, Applied, updateBegin, hardware, setting
  <2> QED BY <2>1, <2>2, <2>3 DEF Inv
<1>8. CASE updateTest \/ updateMode
  <2>1. ReadersOK'
    BY <1>8 DEF Inv, ReadersOK, updateTest, updateMode, battery, reading
  <2>2. SettersOK'
    BY <1>8 DEF Inv, SettersOK, updateTest, updateMode, hardware, setting
  <2>3. AloneApplies'
    BY <1>8 DEF Inv, AloneApplies, Stage, Applied, updateTest, updateMode,
                hardware, setting
  <2> QED BY <2>1, <2>2, <2>3 DEF Inv
<1>9. CASE updateSet
  <2>1. ReadersOK'
    BY <1>9 DEF Inv, ReadersOK, updateSet, battery, reading
  <2>2. /\ setPc[RF] = "idle" /\ updatePc' = "idle" /\ setBegin(RF, POWER_BALANCED)
        /\ UNCHANGED <<currentMode, cpu, powerSave>>
    BY <1>9 DEF Inv, SettersOK, updateSet, hardware
  <2>3. RF \in Setters /\ POWER_BALANCED \in Modes
    BY DEF Setters, Modes
  <2>4. SettersOK' /\ AloneApplies'
    BY <2>2, <2>3, Begins
  <2> QED BY <2>1, <2>4 DEF Inv
<1>10. CASE UNCHANGED vars
  BY <1>10, Frames DEF Inv, vars, gauges, calls
<1> QED
  BY <1>1, <1>2, <1>3, <1>4, <1>5, <1>6, <1>7, <1>8, <1>9, <1>10
  DEF Next, update

LEMMA Invariance == Spec => []Inv
<1> QED BY Initial, Step, PTL DEF Spec

\* The fields, the hardware and the tasks keep their types.
THEOREM TypeCorrect == Spec => []TypeOK
<1>1. Inv => TypeOK
  BY DEF Inv, ReadersOK, SettersOK, TypeOK
<1> QED BY <1>1, Invariance, PTL

\* Whenever the last call of setMode() ran alone, the CPU and the Wi-Fi are
\* those of the mode.
THEOREM PolicyApplied == Spec => []ModeApplied
<1>1. Inv => ModeApplied
  BY DEF Inv, AloneApplies, ModeApplied
<1> QED BY <1>1, Invariance, PTL
=============================================================================
