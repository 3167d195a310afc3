------------------------- MODULE ConfigStoreProofs -------------------------
(***************************************************************************)
(* Theorems about ConfigStore, for every set of SSIDs, passwords, channels *)
(* and settings, every combination of flash faults and any number of       *)
(* crashes and boots.                                                      *)
(***************************************************************************)
EXTENDS ConfigStore, TLAPS

USE DEF DefaultChannel

\* The generated network always passes the validation: MAC-derived SSID,
\* sixteen-character password, default or already validated channel
\* (config_manager.cpp generateNetworkCredentials, validateNetworkConfig).
LEMMA GeneratedIsValid ==
  ASSUME NEW base \in Config, base.chan \in 1..13, NEW p \in GenPasswords
  PROVE  LET c == WithCredentials(base, p)
         IN  c \in Config /\ validateNetworkConfig(c)
BY ConfigAssumption DEF Config, Ssids, Passwords, Channels, validateNetworkConfig,
   WithCredentials

\* Merging an accepted body into a configuration yields a configuration
\* (config_manager.cpp fromJSON).
LEMMA MergeIsConfig ==
  ASSUME NEW c \in Config, NEW body \in Bodies
  PROVE  Merge(c, body) \in Config
BY DEF Merge, Pick, Config, Bodies, Ssids, Passwords, Channels

LEMMA DefaultsAreConfig == defaultConfig \in Config
BY ConfigAssumption DEF defaultConfig, Config, Ssids, Passwords, Channels

LEMMA ConfigParts ==
  ASSUME NEW c \in Config
  PROVE  /\ c.pwd \in Passwords
         /\ NetworkOf(c) \in Network
BY DEF Config, Network, NetworkOf

\* The inductive invariant: whatever is about to be written is valid, the file
\* is unreadable while it is being written, and whatever was written is valid.
Inv ==
  /\ TypeOK
  /\ pc \in {"open", "write"} => validateNetworkConfig(cfg)
  /\ pc = "write" => file = Torn
  /\ StoredConfigLoads

LEMMA FaultBound ==
  ASSUME NEW kind, TypeOK, Fault(kind)
  PROVE  faults' \in 0..MaxFaults
BY ConfigAssumption DEF Fault, TypeOK

LEMMA InitInv == Init => Inv
<1> SUFFICES ASSUME Init PROVE Inv
  OBVIOUS
<1>1. file \in Config \cup {Absent} /\ (file # Absent => file \in LegacyFiles)
  BY DEF Init, LegacyFiles
<1>2. file \in Config => validateNetworkConfig(file) /\ file.pwd \in Passwords
  <2> SUFFICES ASSUME file \in Config
               PROVE  validateNetworkConfig(file) /\ file.pwd \in Passwords
    OBVIOUS
  <2>1. file \in LegacyFiles
    BY <1>1, FileAssumption
  <2> QED BY <2>1, ConfigAssumption DEF LegacyFiles, validateNetworkConfig, Passwords
<1>3. supplied \subseteq Passwords
  BY <1>1, <1>2 DEF Init
<1>4. cfg \in Config /\ generated \in BOOLEAN /\ configReady \in BOOLEAN
  BY DefaultsAreConfig DEF Init
<1>5. faults \in 0..MaxFaults /\ boots \in 0..MaxBoots
  BY ConfigAssumption DEF Init
<1>6. TypeOK
  BY <1>1, <1>3, <1>4, <1>5 DEF Init, TypeOK
<1> QED
  BY <1>2, <1>6 DEF Init, Inv, StoredConfigLoads

\* generateNetworkCredentials(base) leaves a valid configuration in RAM.
LEMMA GenerateStep ==
  ASSUME TypeOK, NEW base \in Config, base.chan \in 1..13,
         generateNetworkCredentials(base)
  PROVE  /\ cfg' \in Config /\ validateNetworkConfig(cfg')
         /\ generated' \in BOOLEAN /\ drawn' \subseteq GenPasswords
<1>1. PICK p \in GenPasswords \ drawn :
        /\ cfg' = WithCredentials(base, p)
        /\ drawn' = drawn \cup {p} /\ generated' = TRUE
  BY DEF generateNetworkCredentials
<1> QED
  BY <1>1, GeneratedIsValid DEF TypeOK

\* One step of the boot sequence, of a request or of the power keeps Inv.
LEMMA StepInv == Inv /\ [Next]_vars => Inv'
<1> SUFFICES ASSUME Inv, [Next]_vars PROVE Inv'
  OBVIOUS
<1> USE DEF Inv, StoredConfigLoads
<1>1. CASE PowerOn
  BY <1>1, ConfigAssumption DEF PowerOn, TypeOK
<1>2. CASE PowerOff
  <2>1. faults' \in 0..MaxFaults
    BY <1>2, FaultBound DEF PowerOff, TypeOK
  <2> QED BY <1>2, <2>1, DefaultsAreConfig DEF PowerOff, TypeOK, owner
<1>3. CASE mount
  <2>1. faults' \in 0..MaxFaults
    BY <1>3, FaultBound DEF mount, TypeOK
  <2> QED BY <1>3, <2>1, FileAssumption DEF mount, TypeOK, owner
<1>4. CASE load
  <2>0. /\ pc = "load"
        /\ UNCHANGED <<file, ap, management, boots, owner>>
    BY <1>4 DEF load
  <2>1. CASE ~storedIsUsable /\ pc' = "regenerate"
             /\ UNCHANGED <<caller, cfg, generated, configReady, drawn, faults>>
    BY <2>0, <2>1 DEF TypeOK, owner
  <2>2. CASE Fault("read") /\ pc' = "regenerate"
             /\ UNCHANGED <<caller, cfg, generated, configReady, drawn>>
    BY <2>0, <2>2, FaultBound DEF TypeOK, owner
  <2>3. CASE storedIsUsable /\ Adopt
    BY <2>0, <2>3 DEF TypeOK, owner, Adopt, storedIsUsable
  <2>4. CASE storedIsUsable /\ Migrate
    <3>1. file \in Config /\ file.chan \in 1..13
      BY <2>4 DEF storedIsUsable, validateNetworkConfig
    <3>2. /\ cfg' \in Config /\ validateNetworkConfig(cfg')
          /\ generated' \in BOOLEAN /\ drawn' \subseteq GenPasswords
      BY <2>4, <3>1, GenerateStep DEF Migrate
    <3> QED BY <2>0, <2>4, <3>2 DEF TypeOK, owner, Migrate
  <2> QED BY <1>4, <2>1, <2>2, <2>3, <2>4 DEF load
<1>5. CASE regenerate
  <2>1. /\ cfg' \in Config /\ validateNetworkConfig(cfg')
        /\ generated' \in BOOLEAN /\ drawn' \subseteq GenPasswords
    BY <1>5, GenerateStep, DefaultsAreConfig DEF regenerate, defaultConfig
  <2> QED BY <1>5, <2>1 DEF regenerate, TypeOK, owner
<1>6. CASE logCredentials
  BY <1>6, ConfigParts DEF logCredentials, TypeOK
<1>7. CASE showInitialNetworkCredentials
  BY <1>7, ConfigParts DEF showInitialNetworkCredentials, TypeOK
<1>8. CASE configureNetwork
  <2>1. faults' \in 0..MaxFaults
    BY <1>8, FaultBound DEF configureNetwork, TypeOK
  <2> QED BY <1>8, <2>1, ConfigParts DEF configureNetwork, TypeOK, owner
<1>9. CASE saveOpen
  <2>1. faults' \in 0..MaxFaults
    BY <1>9, FaultBound DEF saveOpen, TypeOK
  <2> QED BY <1>9, <2>1, FileAssumption DEF saveOpen, Return, TypeOK
<1>10. CASE saveWrite
  <2>1. faults' \in 0..MaxFaults
    BY <1>10, FaultBound DEF saveWrite, TypeOK
  <2> QED BY <1>10, <2>1 DEF saveWrite, Return, TypeOK
<1>11. ASSUME NEW body \in Bodies, fromJSON(body) PROVE Inv'
  <2>1. Merge(cfg, body) \in Config /\ validateNetworkConfig(Merge(cfg, body))
    BY <1>11, MergeIsConfig DEF fromJSON, TypeOK
  <2>2. {body.pwd} \ {Keep} \subseteq Passwords
    BY <1>11 DEF Bodies, Passwords
  <2> QED
    BY <1>11, <2>1, <2>2, ConfigParts DEF fromJSON, Accept, TypeOK
<1>12. CASE reset
  <2>1. faults' \in 0..MaxFaults
    BY <1>12, FaultBound DEF reset, TypeOK
  <2> QED BY <1>12, <2>1, ConfigParts, FileAssumption DEF reset, TypeOK
<1>13. CASE UNCHANGED vars
  BY <1>13 DEF vars, device, owner, TypeOK
<1> QED
  BY <1>1, <1>2, <1>3, <1>4, <1>5, <1>6, <1>7, <1>8, <1>9, <1>10, <1>11,
     <1>12, <1>13 DEF Next, Boot, save

THEOREM Invariance == Spec => []Inv
BY InitInv, StepInv, PTL DEF Spec

\* Every variable keeps its type in every behaviour of ConfigStore.
THEOREM TypeCorrect == Spec => []TypeOK
<1>1. Inv => TypeOK
  BY DEF Inv
<1> QED BY <1>1, Invariance, PTL

\* Whatever save() wrote, load() accepts on a later boot, for every history of
\* requests, faults and crashes.
THEOREM StoredLoads == Spec => []StoredConfigLoads
<1>1. Inv => StoredConfigLoads
  BY DEF Inv
<1> QED BY <1>1, Invariance, PTL

-----------------------------------------------------------------------------
(* An acknowledged configuration is kept.  The three excluded faults are   *)
(* the ones begin() and save() do not survive: a failed read at boot and a *)
(* format both make begin() replace the file, and a short write is taken   *)
(* for a success.  The retired SSID is migrated away at the next boot.     *)

AckedInv ==
  /\ cfg.ssid # RetiredSsid
  /\ promised # NoCfg =>
       /\ pc \notin {"regenerate", "open", "write", "log"}
       /\ file = promised
       /\ storedIsUsable /\ file.ssid # RetiredSsid

LEMMA InitAcked == Init => AckedInv
BY ConfigAssumption DEF Init, AckedInv, defaultConfig

LEMMA StepAcked ==
  ASSUME FaultKinds \cap {"read", "format", "short"} = {},
         RetiredSsid \notin PostSsids,
         Inv, AckedInv, [Next]_vars
  PROVE  AckedInv'
<1> USE DEF AckedInv, storedIsUsable
<1>0. ASSUME NEW kind, Fault(kind)
      PROVE  kind \notin {"read", "format", "short"}
  BY <1>0 DEF Fault
<1>1. CASE PowerOn
  BY <1>1 DEF PowerOn
<1>2. CASE PowerOff
  BY <1>2, ConfigAssumption DEF PowerOff, defaultConfig, owner
<1>3. CASE mount
  BY <1>3, <1>0 DEF mount, owner
<1>4. CASE load
  <2>1. CASE storedIsUsable /\ file.ssid # RetiredSsid /\ Adopt
    BY <1>4, <2>1 DEF load, Adopt, owner
  <2>2. CASE storedIsUsable /\ file.ssid = RetiredSsid /\ Migrate
    BY <1>4, <2>2, ConfigAssumption
    DEF load, Migrate, generateNetworkCredentials, WithCredentials, owner
  <2>3. CASE ~storedIsUsable /\ UNCHANGED cfg
    BY <1>4, <2>3 DEF load, owner
  <2> QED BY <1>4, <1>0, <2>1, <2>2, <2>3 DEF load
<1>5. CASE regenerate
  BY <1>5, ConfigAssumption
  DEF regenerate, generateNetworkCredentials, WithCredentials, owner
<1>6. CASE logCredentials
  BY <1>6 DEF logCredentials
<1>7. CASE showInitialNetworkCredentials
  BY <1>7 DEF showInitialNetworkCredentials
<1>8. CASE configureNetwork
  BY <1>8 DEF configureNetwork, owner
<1>9. CASE saveOpen
  BY <1>9 DEF saveOpen, Return, Inv, TypeOK
<1>10. CASE saveWrite
  <2>1. validateNetworkConfig(cfg) /\ cfg \in Config
    BY <1>10 DEF saveWrite, Inv, TypeOK
  <2>2. \/ file' = cfg /\ Return(TRUE)
        \/ Return(FALSE) /\ UNCHANGED file
    BY <1>10, <1>0 DEF saveWrite
  <2> QED BY <1>10, <2>1, <2>2 DEF saveWrite, Return, Inv, TypeOK
<1>11. ASSUME NEW body \in Bodies, fromJSON(body) PROVE AckedInv'
  BY <1>11 DEF fromJSON, Accept, Merge, Pick, Bodies
<1>12. CASE reset
  BY <1>12 DEF reset
<1>13. CASE UNCHANGED vars
  BY <1>13 DEF vars, device, owner
<1> QED
  BY <1>1, <1>2, <1>3, <1>4, <1>5, <1>6, <1>7, <1>8, <1>9, <1>10, <1>11,
     <1>12, <1>13 DEF Next, Boot, save

\* A configuration acknowledged with 200 is what flash holds until a later
\* request replaces or resets it, through any number of crashes and reboots.
THEOREM AckedKept ==
  ASSUME FaultKinds \cap {"read", "format", "short"} = {},
         RetiredSsid \notin PostSsids
  PROVE  Spec => []AckedConfigKept
<1>1. AckedInv => AckedConfigKept
  BY DEF AckedInv, AckedConfigKept
<1>2. Inv /\ Inv' /\ AckedInv /\ [Next]_vars => AckedInv'
  BY StepAcked
<1> QED BY <1>1, <1>2, InitAcked, Invariance, PTL DEF Spec

-----------------------------------------------------------------------------
(* The configuration manager implements the abstract store.                *)

LEMMA StoreInit == Init => Store!Init
<1> SUFFICES ASSUME Init PROVE Store!Init
  OBVIOUS
<1>1. Inv
  BY InitInv
<1> QED BY <1>1 DEF Init, Inv, StoredConfigLoads, Store!Init

LEMMA StoreStep ==
  ASSUME Inv, Inv', [Next]_vars
  PROVE  [Store!Next]_<<IF file \in Config THEN file ELSE NoCfg, pc = "write">>
<1> DEFINE stored == IF file \in Config THEN file ELSE NoCfg
           writing == pc = "write"
<1>1. CASE UNCHANGED file /\ (pc = "write" <=> pc' = "write")
  BY <1>1
<1>2. CASE saveOpen
  <2>1. CASE file' = Torn /\ pc' = "write"
    BY <1>2, <2>1, FileAssumption DEF saveOpen, Store!Next, Store!BeginWrite
  <2>2. CASE UNCHANGED file /\ Return(FALSE)
    BY <1>1, <1>2, <2>2 DEF saveOpen, Return, Inv, TypeOK
  <2> QED BY <1>2, <2>1, <2>2 DEF saveOpen
<1>3. CASE saveWrite
  <2>1. ~writing' /\ writing
    BY <1>3 DEF saveWrite, Return, Inv, TypeOK
  <2>2. CASE file' = cfg
    <3>1. cfg \in Config /\ validateNetworkConfig(cfg)
      BY <1>3 DEF saveWrite, Inv, TypeOK
    <3> QED BY <2>1, <2>2, <3>1 DEF Store!Next, Store!Commit
  <2>3. CASE UNCHANGED file
    <3>1. file' = Torn
      BY <1>3, <2>3 DEF saveWrite, Inv
    <3> QED BY <2>1, <3>1, FileAssumption DEF Store!Next, Store!Abort
  <2> QED BY <1>3, <2>2, <2>3 DEF saveWrite
<1>4. CASE PowerOff
  <2>1. CASE pc = "write"
    BY <1>4, <2>1, FileAssumption
    DEF PowerOff, Inv, Store!Next, Store!Abort
  <2> QED BY <1>1, <1>4, <2>1 DEF PowerOff
<1>5. CASE mount
  <2>1. CASE file' = Absent
    BY <1>5, <2>1, FileAssumption DEF mount, Store!Next, Store!Erase
  <2> QED BY <1>1, <1>5, <2>1 DEF mount
<1>6. CASE reset
  <2>1. CASE file' = Absent
    BY <1>6, <2>1, FileAssumption DEF reset, Store!Next, Store!Erase
  <2> QED BY <1>1, <1>6, <2>1 DEF reset
<1>7. CASE PowerOn
  BY <1>1, <1>7 DEF PowerOn
<1>8. CASE load
  BY <1>1, <1>8 DEF load, Adopt, Migrate
<1>9. CASE regenerate \/ logCredentials \/ showInitialNetworkCredentials
             \/ configureNetwork
  BY <1>1, <1>9 DEF regenerate, logCredentials, showInitialNetworkCredentials,
     configureNetwork
<1>10. ASSUME NEW body \in Bodies, fromJSON(body)
       PROVE UNCHANGED file /\ (pc = "write" <=> pc' = "write")
  BY <1>10 DEF fromJSON, Accept
<1>11. CASE UNCHANGED vars
  BY <1>1, <1>11 DEF vars, device
<1> QED
  BY <1>1, <1>2, <1>3, <1>4, <1>5, <1>6, <1>7, <1>8, <1>9, <1>10, <1>11
  DEF Next, Boot, save

\* The configuration manager with its callers implements SettingsStore.
THEOREM ImplementsStore == Spec => StoreSpec
<1>1. Inv /\ Inv' /\ [Next]_vars
        => [Store!Next]_<<IF file \in Config THEN file ELSE NoCfg, pc = "write">>
  BY StoreStep
<1> QED BY <1>1, StoreInit, Invariance, PTL DEF Spec, StoreSpec, Store!Spec

-----------------------------------------------------------------------------
(* What an idle device shows is what the next boot loads.                  *)

IdleInv ==
  /\ pc \in {"log", "show", "ap"} => file = cfg
  /\ pc = "run" /\ pendingReset = {} => file = cfg

LEMMA StepIdle ==
  ASSUME FaultKinds \cap {"mount", "open", "zero", "short"} = {},
         Inv, IdleInv, [Next]_vars
  PROVE  IdleInv'
<1> USE DEF IdleInv
<1>0. ASSUME NEW kind, Fault(kind)
      PROVE  kind \notin {"mount", "open", "zero", "short"}
  BY <1>0 DEF Fault
<1>1. CASE PowerOn \/ PowerOff
  BY <1>1 DEF PowerOn, PowerOff
<1>2. CASE mount \/ regenerate
  BY <1>0, <1>2 DEF mount, regenerate
<1>3. CASE load
  BY <1>3 DEF load, Adopt, Migrate
<1>4. CASE logCredentials \/ showInitialNetworkCredentials \/ configureNetwork
  BY <1>4 DEF logCredentials, showInitialNetworkCredentials, configureNetwork
<1>5. CASE saveOpen
  BY <1>0, <1>5 DEF saveOpen
<1>6. CASE saveWrite
  BY <1>0, <1>6 DEF saveWrite
<1>7. ASSUME NEW body \in Bodies, fromJSON(body) PROVE IdleInv'
  BY <1>7 DEF fromJSON
<1>8. CASE reset
  BY <1>8 DEF reset
<1>9. CASE UNCHANGED vars
  BY <1>9 DEF vars, device, owner
<1> QED
  BY <1>1, <1>2, <1>3, <1>4, <1>5, <1>6, <1>7, <1>8, <1>9 DEF Next, Boot, save

\* With a flash that mounts and takes every write, an idle device has on flash
\* what it has in RAM, whatever power cuts came between, unless a reset waits
\* for its reboot.
THEOREM IdleIsStored ==
  ASSUME FaultKinds \cap {"mount", "open", "zero", "short"} = {}
  PROVE  Spec => []IdleRamIsStored
<1>1. Init => IdleInv
  BY DEF Init, IdleInv
<1>2. Inv /\ IdleInv /\ [Next]_vars => IdleInv'
  BY StepIdle
<1>3. IdleInv => IdleRamIsStored
  BY DEF IdleInv, IdleRamIsStored
<1> QED BY <1>1, <1>2, <1>3, Invariance, PTL DEF Spec

-----------------------------------------------------------------------------
(* The AP runs only outside the boot sequence, and a boot starts unready.   *)

Serving ==
  /\ ap # NoCfg =>
       pc = "run" \/ (pc \in {"open", "write"} /\ caller = "post")
  /\ pc \in {"off", "mount", "load"} => configReady = FALSE

LEMMA StepServing ==
  ASSUME Inv, Serving, [Next]_vars
  PROVE  Serving'
<1> USE DEF Serving
<1>1. CASE PowerOn \/ PowerOff \/ mount \/ load \/ regenerate
  BY <1>1 DEF PowerOn, PowerOff, mount, load, Adopt, Migrate, regenerate
<1>2. CASE logCredentials \/ showInitialNetworkCredentials \/ configureNetwork
  BY <1>2 DEF logCredentials, showInitialNetworkCredentials, configureNetwork
<1>3. CASE saveOpen \/ saveWrite
  <2>1. CASE saveOpen
    BY <1>3, <2>1 DEF saveOpen, Return, Inv, TypeOK
  <2>2. CASE saveWrite
    BY <1>3, <2>2 DEF saveWrite, Return, Inv, TypeOK
  <2> QED BY <1>3, <2>1, <2>2
<1>4. ASSUME NEW body \in Bodies, fromJSON(body) PROVE Serving'
  BY <1>4 DEF fromJSON
<1>5. CASE reset \/ UNCHANGED vars
  BY <1>5 DEF reset, vars, device
<1> QED BY <1>1, <1>2, <1>3, <1>4, <1>5 DEF Next, Boot, save

LEMMA AlwaysServing == Spec => []Serving
<1>1. Init => Serving
  BY DEF Init, Serving
<1>2. Inv /\ Serving /\ [Next]_vars => Serving'
  BY StepServing
<1> QED BY <1>1, <1>2, Invariance, PTL DEF Spec

-----------------------------------------------------------------------------
(* The owner knows the password in force.                                  *)

Known == oled \cup serial \cup supplied

\* A password on flash that was not shown yet is about to be; one in RAM that
\* was not shown is a generated one on its way to the screen, or no AP will
\* start with it.
KnownInv ==
  /\ file \in Config =>
       \/ file.pwd \in Known
       \/ pc \in {"log", "show"} /\ generated /\ cfg.pwd = file.pwd
  /\ pc \in {"open", "write"} =>
       cfg.pwd \in Known \/ (caller # "post" /\ generated)
  /\ pc = "log" => cfg.pwd \in Known \/ generated
  /\ pc = "show" => cfg.pwd \in Known \/ generated \/ configReady = FALSE
  /\ pc = "ap" /\ configReady => cfg.pwd \in Known
  /\ pc = "run" /\ ap # NoCfg => cfg.pwd \in Known
  /\ ApPasswordKnown

LEMMA InitKnown == Init => KnownInv
<1> SUFFICES ASSUME Init PROVE KnownInv
  OBVIOUS
<1>1. file \in Config => file.pwd \in supplied
  BY FileAssumption DEF Init
<1> QED BY <1>1 DEF Init, KnownInv, Known, ApPasswordKnown

LEMMA StepKnown ==
  ASSUME "cut" \notin FaultKinds, Inv, Serving, KnownInv, [Next]_vars
  PROVE  KnownInv'
<1> USE DEF KnownInv, Known, ApPasswordKnown
<1>1. CASE PowerOn
  BY <1>1 DEF PowerOn
<1>2. CASE PowerOff
  <2>1. pc = "run"
    BY <1>2 DEF PowerOff, Fault
  <2> QED BY <1>2, <2>1 DEF PowerOff, owner
<1>3. CASE mount
  <2>1. ap = NoCfg
    BY <1>3 DEF mount, Serving
  <2>2. pc' \in {"load", "show"} /\ configReady' = FALSE
    BY <1>3 DEF mount, Serving
  <2> QED BY <1>3, <2>1, <2>2, FileAssumption DEF mount, owner
<1>4. CASE load
  BY <1>4 DEF load, Adopt, Migrate, generateNetworkCredentials, storedIsUsable,
     owner
<1>5. CASE regenerate
  BY <1>5 DEF regenerate, generateNetworkCredentials, owner
<1>6. CASE logCredentials
  BY <1>6 DEF logCredentials
<1>7. CASE showInitialNetworkCredentials
  BY <1>7 DEF showInitialNetworkCredentials
<1>8. CASE configureNetwork
  BY <1>8 DEF configureNetwork, Serving, NetworkOf, owner
<1>9. CASE saveOpen
  BY <1>9, FileAssumption DEF saveOpen, Return, Serving, Inv, TypeOK
<1>10. CASE saveWrite
  BY <1>10, FileAssumption DEF saveWrite, Return, Serving, Inv, TypeOK
<1>11. ASSUME NEW body \in Bodies, fromJSON(body) PROVE KnownInv'
  <2>1. cfg'.pwd \in Known'
    BY <1>11 DEF fromJSON, Accept, Merge, Pick
  <2> QED BY <1>11, <2>1 DEF fromJSON, Accept
<1>12. CASE reset
  BY <1>12, FileAssumption DEF reset
<1>13. CASE UNCHANGED vars
  BY <1>13 DEF vars, device, owner
<1> QED
  BY <1>1, <1>2, <1>3, <1>4, <1>5, <1>6, <1>7, <1>8, <1>9, <1>10, <1>11,
     <1>12, <1>13 DEF Next, Boot, save

\* Unless the power is cut in the middle of a step, the AP never runs with, nor
\* asks for, a password the owner was neither shown nor chose.
THEOREM PasswordKnown ==
  ASSUME "cut" \notin FaultKinds
  PROVE  Spec => []ApPasswordKnown
<1>1. Inv /\ Serving /\ KnownInv /\ [Next]_vars => KnownInv'
  BY StepKnown
<1>2. KnownInv => ApPasswordKnown
  BY DEF KnownInv
<1> QED BY <1>1, <1>2, InitKnown, Invariance, AlwaysServing, PTL DEF Spec

-----------------------------------------------------------------------------
(* A factory reset retires the password.                                   *)

\* What a boot at this point would take for retired, and for saved again.
Retired == burned \cup pendingReset
SavedAgain == (reclaimed \ pendingReset) \cup resaved

ResetInv ==
  /\ file \in Config /\ file.pwd \in Retired => file.pwd \in SavedAgain
  /\ pc \in {"open", "write"} /\ cfg.pwd \in Retired => cfg.pwd \in SavedAgain
  /\ pc = "log" \/ (pc \in {"show", "ap"} /\ configReady) =>
       (cfg.pwd \in burned => cfg.pwd \in reclaimed)
  /\ pc = "run" /\ ap # NoCfg /\ cfg.pwd \in burned \ pendingReset =>
       cfg.pwd \in SavedAgain
  /\ pc \in {"mount", "load", "regenerate", "log", "show", "ap"}
     \/ (pc \in {"open", "write"} /\ caller # "post") =>
       pendingReset = {} /\ resaved = {}
  /\ ResetRetiresPassword

\* A password that was retired and comes from esp_random() was drawn.
DrawnInv ==
  /\ Retired \cap GenPasswords \subseteq drawn
  /\ cfg.pwd \in GenPasswords => cfg.pwd \in drawn
  /\ file \in Config /\ file.pwd \in GenPasswords => file.pwd \in drawn

LEMMA InitReset == Init => ResetInv /\ DrawnInv
<1> SUFFICES ASSUME Init PROVE ResetInv /\ DrawnInv
  OBVIOUS
<1>1. file \in Config => file.pwd \in PostPasswords
  BY FileAssumption DEF Init, LegacyFiles
<1>2. cfg.pwd \notin GenPasswords
  BY ConfigAssumption DEF Init, defaultConfig
<1> QED
  BY <1>1, <1>2, ConfigAssumption
  DEF Init, ResetInv, DrawnInv, Retired, SavedAgain, ResetRetiresPassword

\* A new password was never retired.
LEMMA FreshStep ==
  ASSUME DrawnInv, NEW base, generateNetworkCredentials(base)
  PROVE  /\ cfg'.pwd \in GenPasswords /\ cfg'.pwd \in drawn'
         /\ cfg'.pwd \notin Retired /\ drawn \subseteq drawn'
<1>1. PICK p \in GenPasswords \ drawn :
        cfg' = WithCredentials(base, p) /\ drawn' = drawn \cup {p}
  BY DEF generateNetworkCredentials
<1> QED BY <1>1 DEF WithCredentials, DrawnInv

LEMMA StepDrawn ==
  ASSUME Inv, DrawnInv, [Next]_vars
  PROVE  DrawnInv'
<1> USE DEF DrawnInv, Retired
<1>1. CASE PowerOn
  BY <1>1 DEF PowerOn
<1>2. CASE PowerOff
  BY <1>2, ConfigAssumption DEF PowerOff, defaultConfig, owner
<1>3. CASE mount
  BY <1>3, FileAssumption DEF mount, owner
<1>4. CASE load
  <2>1. CASE Adopt
    BY <1>4, <2>1 DEF load, Adopt, owner, storedIsUsable
  <2>2. CASE Migrate
    BY <1>4, <2>2, FreshStep DEF load, Migrate, owner
  <2>3. CASE UNCHANGED <<cfg, drawn>>
    BY <1>4, <2>3 DEF load, owner
  <2> QED BY <1>4, <2>1, <2>2, <2>3 DEF load
<1>5. CASE regenerate
  BY <1>5, FreshStep DEF regenerate, owner
<1>6. CASE logCredentials \/ showInitialNetworkCredentials \/ configureNetwork
  BY <1>6 DEF logCredentials, showInitialNetworkCredentials, configureNetwork,
     owner
<1>7. CASE saveOpen \/ saveWrite
  BY <1>7, FileAssumption DEF saveOpen, saveWrite
<1>8. ASSUME NEW body \in Bodies, fromJSON(body) PROVE DrawnInv'
  <2>1. cfg'.pwd \in GenPasswords => cfg'.pwd = cfg.pwd
    BY <1>8, ConfigAssumption DEF fromJSON, Accept, Merge, Pick, Bodies
  <2> QED BY <1>8, <2>1 DEF fromJSON, Accept
<1>9. CASE reset
  BY <1>9, FileAssumption DEF reset
<1>10. CASE UNCHANGED vars
  BY <1>10 DEF vars, device, owner
<1> QED
  BY <1>1, <1>2, <1>3, <1>4, <1>5, <1>6, <1>7, <1>8, <1>9, <1>10
  DEF Next, Boot, save

LEMMA StepReset ==
  ASSUME Inv, Serving, DrawnInv, ResetInv, [Next]_vars
  PROVE  ResetInv'
<1> USE DEF ResetInv, ResetRetiresPassword, Retired, SavedAgain
<1>1. CASE PowerOn
  BY <1>1 DEF PowerOn, Serving
<1>2. CASE PowerOff
  BY <1>2 DEF PowerOff, owner
<1>3. CASE mount
  <2>1. ap = NoCfg
    BY <1>3 DEF mount, Serving
  <2>2. pc' \in {"load", "show"} /\ configReady' = FALSE
    BY <1>3 DEF mount, Serving
  <2> QED BY <1>3, <2>1, <2>2, FileAssumption DEF mount, owner
<1>4. CASE load
  <2>1. CASE Adopt
    BY <1>4, <2>1 DEF load, Adopt, owner, storedIsUsable
  <2>2. CASE Migrate
    BY <1>4, <2>2, FreshStep DEF load, Migrate, owner
  <2>3. CASE pc' = "regenerate"
    BY <1>4, <2>3 DEF load, owner
  <2> QED BY <1>4, <2>1, <2>2, <2>3 DEF load
<1>5. CASE regenerate
  BY <1>5, FreshStep DEF regenerate, owner
<1>6. CASE logCredentials
  BY <1>6 DEF logCredentials
<1>7. CASE showInitialNetworkCredentials
  BY <1>7 DEF showInitialNetworkCredentials
<1>8. CASE configureNetwork
  BY <1>8 DEF configureNetwork, Serving, NetworkOf, owner
<1>9. CASE saveOpen
  BY <1>9, FileAssumption DEF saveOpen, Return, Inv, TypeOK
<1>10. CASE saveWrite
  BY <1>10, FileAssumption DEF saveWrite, Return, Inv, TypeOK
<1>11. ASSUME NEW body \in Bodies, fromJSON(body) PROVE ResetInv'
  <2>1. cfg'.pwd = IF body.pwd = Keep THEN cfg.pwd ELSE body.pwd
    BY <1>11 DEF fromJSON, Accept, Merge, Pick
  <2>2. /\ burned' = burned \ {body.pwd} /\ UNCHANGED <<pendingReset, reclaimed>>
        /\ resaved' = resaved \cup (pendingReset \cap {cfg'.pwd})
    BY <1>11 DEF fromJSON, Accept
  <2>3. cfg'.pwd \in Retired' => cfg'.pwd \in SavedAgain'
    BY <1>11, <2>1, <2>2 DEF fromJSON
  <2> QED BY <1>11, <2>2, <2>3 DEF fromJSON, Accept
<1>12. CASE reset
  BY <1>12, FileAssumption DEF reset
<1>13. CASE UNCHANGED vars
  BY <1>13 DEF vars, device, owner
<1> QED
  BY <1>1, <1>2, <1>3, <1>4, <1>5, <1>6, <1>7, <1>8, <1>9, <1>10, <1>11,
     <1>12, <1>13 DEF Next, Boot, save

\* Whatever faults and power cuts come between, no AP after a factory reset and
\* a reboot has the retired password, unless a request saved it again.
THEOREM ResetRetires == Spec => []ResetRetiresPassword
<1>1. Inv /\ DrawnInv /\ [Next]_vars => DrawnInv'
  BY StepDrawn
<1>2. Inv /\ Serving /\ DrawnInv /\ ResetInv /\ [Next]_vars => ResetInv'
  BY StepReset
<1>3. ResetInv => ResetRetiresPassword
  BY DEF ResetInv
<1> QED BY <1>1, <1>2, <1>3, InitReset, Invariance, AlwaysServing, PTL DEF Spec
=============================================================================
