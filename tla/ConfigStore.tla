---------------------------- MODULE ConfigStore ----------------------------
(***************************************************************************)
(* ConfigManager (config_manager.cpp) with the callers that drive it: the  *)
(* boot sequence in setup(), the AP snapshot taken by                      *)
(* SkySweepWebServer::configureNetwork() and the two HTTP handlers that    *)
(* change the configuration.  After boot only the async_tcp task writes    *)
(* the configuration, so one program counter pc serves both phases.        *)
(*                                                                         *)
(* The board can lose power between any two steps; the flash file system   *)
(* can fail in the ways named by FaultKinds.  A password drawn from        *)
(* esp_random() is a member of GenPasswords that was never drawn before.   *)
(* Thresholds, intervals, log level and stealth mode are one value "rest": *)
(* no property here tells them apart.                                      *)
(***************************************************************************)
EXTENDS Naturals, FiniteSets

CONSTANTS
  GenSsid,          \* the SSID derived from the MAC
  RetiredSsid,      \* kRetiredPublicSsid
  PostSsids,        \* SSIDs a request may name
  ValidSsids,       \* the SSIDs of length 1..31
  GenPasswords,     \* esp_random() passwords (bound: one is used per draw)
  PostPasswords,    \* passwords a request may name
  ValidPasswords,   \* the passwords of length 8..63
  PostChannels,     \* channels a request may name
  Rests,            \* values of all the other settings
  DefaultRest,      \* setDefaults()
  Empty,            \* the empty string of setDefaults()
  Keep,             \* a key the request leaves out
  NoCfg,            \* no configuration
  Absent,           \* /config.json does not exist
  Torn,             \* it exists and is not one complete JSON object
  FaultKinds,       \* which environment faults this instance allows
  MaxFaults,        \* bound on faults
  MaxBoots          \* bound on boots

DefaultChannel == 6

ASSUME ConfigAssumption ==
  /\ {GenSsid, RetiredSsid} \subseteq ValidSsids /\ GenSsid # RetiredSsid
  /\ GenPasswords \subseteq ValidPasswords
  /\ GenPasswords \cap PostPasswords = {}
  /\ Empty \notin ValidSsids \cup ValidPasswords
  /\ Keep \notin PostSsids \cup PostPasswords \cup PostChannels \cup Rests
  /\ DefaultRest \in Rests
  /\ PostChannels \subseteq Nat
  /\ FaultKinds \subseteq
       {"cut", "format", "read", "open", "zero", "short", "softap",
        "remove", "mount"}
  /\ MaxFaults \in Nat /\ MaxBoots \in Nat

Ssids == PostSsids \cup ValidSsids \cup {Empty, RetiredSsid}
Passwords == PostPasswords \cup ValidPasswords \cup {Empty}
Channels == PostChannels \cup {DefaultChannel}
Config == [ssid : Ssids, pwd : Passwords, chan : Channels, rest : Rests]
Network == [ssid : Ssids, pwd : Passwords, chan : Channels]

ASSUME NoCfgAssumption == NoCfg \notin Config \cup Network \cup Passwords

ASSUME FileAssumption == Absent \notin Config /\ Torn \notin Config

VARIABLES
  pc,          \* where the boot sequence or the request handler is
  caller,      \* who called save(): "begin", "load" or "post"
  cfg,         \* ConfigManager::cfg, in RAM
  generated,   \* networkCredentialsGenerated
  configReady, \* the result of begin() that setup() keeps
  file,        \* /config.json on flash
  ap,          \* the network the access point runs, or NoCfg
  management,  \* SkySweepWebServer::managementPassword
  drawn,       \* generated passwords so far
  faults, boots,
  \* what the owner has been told, for the properties
  oled,        \* passwords the OLED has shown
  serial,      \* passwords the serial console has shown
  supplied,    \* passwords an authenticated request supplied
  promised,    \* configuration the last 200 acknowledged, or NoCfg
  pendingReset,\* passwords a factory reset of this session must retire
  burned,      \* passwords retired by a factory reset of an earlier session
  resaved,     \* of those, the ones a request saved again in this session
  reclaimed    \* of the burned ones, those saved again before the reboot

device == <<pc, caller, cfg, generated, configReady, file, ap, management>>
owner == <<oled, serial, supplied, promised, pendingReset, burned, resaved,
           reclaimed>>
vars == <<device, drawn, faults, boots, owner>>

-----------------------------------------------------------------------------

defaultConfig ==
  [ssid |-> Empty, pwd |-> Empty, chan |-> DefaultChannel, rest |-> DefaultRest]

validateNetworkConfig(c) ==
  /\ c.ssid \in ValidSsids
  /\ c.pwd \in ValidPasswords
  /\ c.chan \in 1..13

NetworkOf(c) == [ssid |-> c.ssid, pwd |-> c.pwd, chan |-> c.chan]

\* A file an earlier firmware wrote, with the SSID it shared with every unit.
LegacyFiles ==
  {c \in Config : /\ c.ssid = RetiredSsid
                  /\ c.pwd \in ValidPasswords \cap PostPasswords
                  /\ c.chan = DefaultChannel /\ c.rest = DefaultRest}

Init ==
  /\ pc = "off" /\ caller = "begin"
  /\ cfg = defaultConfig /\ generated = FALSE /\ configReady = FALSE
  /\ file \in {Absent} \cup LegacyFiles
  /\ ap = NoCfg /\ management = NoCfg
  /\ drawn = {} /\ faults = 0 /\ boots = 0
  /\ oled = {} /\ serial = {} /\ promised = NoCfg
  /\ supplied = IF file = Absent THEN {} ELSE {file.pwd}
  /\ pendingReset = {} /\ burned = {} /\ resaved = {}
  /\ reclaimed = {}

\* The environment spends one fault of the given kind.
Fault(kind) ==
  /\ kind \in FaultKinds /\ faults < MaxFaults
  /\ faults' = faults + 1

-----------------------------------------------------------------------------
(* Power.                                                                  *)

PowerOn ==
  /\ pc = "off" /\ boots < MaxBoots
  /\ boots' = boots + 1
  /\ pc' = "mount"
  /\ burned' = burned \cup pendingReset /\ pendingReset' = {}
  /\ reclaimed' = (reclaimed \ pendingReset) \cup resaved /\ resaved' = {}
  /\ UNCHANGED <<caller, cfg, generated, configReady, file, ap, management,
                 drawn, faults, oled, serial, supplied, promised>>

\* Switching an idle device off, or losing power in the middle of anything:
\* RAM is gone, flash keeps what was written.
PowerOff ==
  /\ pc # "off"
  /\ IF pc = "run" THEN UNCHANGED faults ELSE Fault("cut")
  /\ pc' = "off" /\ caller' = "begin"
  /\ cfg' = defaultConfig /\ generated' = FALSE /\ configReady' = FALSE
  /\ ap' = NoCfg /\ management' = NoCfg
  /\ UNCHANGED <<file, drawn, boots, owner>>

-----------------------------------------------------------------------------
(* save().  Opening with "w" truncates the file before anything is written.*)

\* What the caller does with save()'s result.
Return(ok) ==
  CASE caller = "begin" ->
         /\ pc' = IF ok THEN "log" ELSE "show"
         /\ UNCHANGED <<configReady, promised>>
    [] caller = "load" ->
         /\ pc' = IF ok THEN "show" ELSE "regenerate"
         /\ configReady' = ok
         /\ UNCHANGED promised
    [] caller = "post" ->
         /\ pc' = "run"
         /\ promised' = IF ok THEN cfg ELSE NoCfg
         /\ UNCHANGED configReady

saveOpen ==
  /\ pc = "open"
  /\ \/ /\ file' = Torn /\ pc' = "write"
        /\ UNCHANGED <<faults, configReady, promised>>
     \/ /\ Fault("open") /\ Return(FALSE)
        /\ UNCHANGED file
  /\ UNCHANGED <<caller, cfg, generated, ap, management, drawn, boots, oled,
                 serial, supplied, pendingReset, burned, resaved, reclaimed>>

\* save() answers written > 0, so a short write counts as success.
saveWrite ==
  /\ pc = "write"
  /\ \/ file' = cfg /\ Return(TRUE) /\ UNCHANGED faults
     \/ Fault("zero") /\ Return(FALSE) /\ UNCHANGED file
     \/ Fault("short") /\ Return(TRUE) /\ UNCHANGED file
  /\ UNCHANGED <<caller, cfg, generated, ap, management, drawn, boots, oled,
                 serial, supplied, pendingReset, burned, resaved, reclaimed>>

-----------------------------------------------------------------------------
(* begin() and setup().                                                    *)

\* SPIFFS.begin(true) formats a partition it cannot mount; when that fails
\* too, begin() returns false at once and setup() goes on without storage.
mount ==
  /\ pc = "mount"
  /\ \/ pc' = "load" /\ UNCHANGED <<faults, file>>
     \/ Fault("format") /\ pc' = "load" /\ file' = Absent
     \/ Fault("mount") /\ pc' = "show" /\ UNCHANGED file
  /\ UNCHANGED <<caller, cfg, generated, configReady, ap, management, drawn,
                 boots, owner>>

WithCredentials(base, p) ==
  [ssid |-> GenSsid, pwd |-> p, chan |-> base.chan, rest |-> base.rest]

\* (variant) the flag that makes the OLED show the credentials is not set
generateNetworkCredentials_Silent(base) ==
  \E p \in GenPasswords \ drawn :
     /\ cfg' = WithCredentials(base, p)
     /\ drawn' = drawn \cup {p}
     /\ UNCHANGED generated

generateNetworkCredentials(base) ==
  \E p \in GenPasswords \ drawn :
     /\ cfg' = WithCredentials(base, p)
     /\ drawn' = drawn \cup {p}
     /\ generated' = TRUE

storedIsUsable == file \in Config /\ validateNetworkConfig(file)

\* Adopt the stored configuration, or migrate one with a retired SSID.
Adopt ==
  /\ cfg' = file /\ configReady' = TRUE /\ pc' = "show"
  /\ UNCHANGED <<caller, generated, drawn, faults>>

Migrate ==
  /\ generateNetworkCredentials(file)
  /\ caller' = "load" /\ pc' = "open"
  /\ UNCHANGED <<configReady, faults>>

\* (variants) every SSID but the generated one is taken for retired; a load
\* that fails ends begin()
load_RetiresCustomSsid ==
  /\ pc = "load" /\ UNCHANGED <<file, ap, management, boots, owner>>
  /\ \/ /\ ~storedIsUsable /\ pc' = "regenerate"
        /\ UNCHANGED <<caller, cfg, generated, configReady, drawn, faults>>
     \/ storedIsUsable /\ file.ssid = GenSsid /\ Adopt
     \/ storedIsUsable /\ file.ssid # GenSsid /\ Migrate

load_GivesUp ==
  /\ pc = "load" /\ UNCHANGED <<file, ap, management, boots, owner>>
  /\ \/ /\ ~storedIsUsable /\ pc' = "show"
        /\ UNCHANGED <<caller, cfg, generated, configReady, drawn, faults>>
     \/ storedIsUsable /\ file.ssid # RetiredSsid /\ Adopt
     \/ storedIsUsable /\ file.ssid = RetiredSsid /\ Migrate

load ==
  /\ pc = "load"
  /\ \/ /\ ~storedIsUsable
        /\ pc' = "regenerate"
        /\ UNCHANGED <<caller, cfg, generated, configReady, drawn, faults>>
     \/ /\ Fault("read")
        /\ pc' = "regenerate"
        /\ UNCHANGED <<caller, cfg, generated, configReady, drawn>>
     \/ storedIsUsable /\ file.ssid # RetiredSsid /\ Adopt
     \/ storedIsUsable /\ file.ssid = RetiredSsid /\ Migrate
  /\ UNCHANGED <<file, ap, management, boots, owner>>

\* setDefaults(); generateNetworkCredentials(); then save().
regenerate ==
  /\ pc = "regenerate"
  /\ generateNetworkCredentials(defaultConfig)
  /\ caller' = "begin" /\ pc' = "open"
  /\ UNCHANGED <<configReady, file, ap, management, faults, boots, owner>>

\* begin() prints the credentials it generated and returns true.
logCredentials ==
  /\ pc = "log"
  /\ serial' = serial \cup {cfg.pwd}
  /\ configReady' = TRUE /\ pc' = "show"
  /\ UNCHANGED <<caller, cfg, generated, file, ap, management, drawn, faults,
                 boots, oled, supplied, promised, pendingReset, burned,
                 resaved, reclaimed>>

showInitialNetworkCredentials ==
  /\ pc = "show"
  /\ oled' = IF generated THEN oled \cup {cfg.pwd} ELSE oled
  /\ pc' = "ap"
  /\ UNCHANGED <<caller, cfg, generated, configReady, file, ap, management,
                 drawn, faults, boots, serial, supplied, promised,
                 pendingReset, burned, resaved, reclaimed>>

\* setup() starts the web server only when the configuration is ready; the
\* password is copied before softAP() is tried.
configureNetwork ==
  /\ pc = "ap" /\ pc' = "run"
  /\ \/ /\ configReady
        /\ management' = cfg.pwd /\ ap' = NetworkOf(cfg)
        /\ UNCHANGED faults
     \/ /\ configReady /\ Fault("softap")
        /\ management' = cfg.pwd /\ UNCHANGED ap
     \/ ~configReady /\ UNCHANGED <<management, ap, faults>>
  /\ UNCHANGED <<caller, cfg, generated, configReady, file, drawn, boots,
                 owner>>

-----------------------------------------------------------------------------
(* HTTP handlers.  Requests arrive only while the AP is up.                *)

\* What a syntactically good body asks for; Keep is a key that is missing.
Bodies == [ssid : PostSsids \cup {Keep}, pwd : PostPasswords \cup {Keep},
           chan : PostChannels \cup {Keep}, rest : Rests \cup {Keep}]

Pick(old, new) == IF new = Keep THEN old ELSE new

Merge(c, body) ==
  [ssid |-> Pick(c.ssid, body.ssid), pwd |-> Pick(c.pwd, body.pwd),
   chan |-> Pick(c.chan, body.chan), rest |-> Pick(c.rest, body.rest)]

\* What POST /api/config does with a body it accepts, up to the call of save().
Accept(body) ==
  LET updated == Merge(cfg, body) IN
  /\ cfg' = updated
  /\ supplied' = supplied \cup ({body.pwd} \ {Keep})
  /\ promised' = NoCfg
  /\ burned' = burned \ {body.pwd}
  /\ resaved' = resaved \cup (pendingReset \cap {updated.pwd})
  /\ UNCHANGED <<generated, configReady, file, ap, management, drawn, faults,
                 boots, oled, serial, pendingReset, reclaimed>>

\* (variants) the merged network is not validated; the file is not rewritten
fromJSON_Unvalidated(body) ==
  /\ pc = "run" /\ ap # NoCfg
  /\ Accept(body)
  /\ caller' = "post" /\ pc' = "open"

fromJSON_RamOnly(body) ==
  /\ pc = "run" /\ ap # NoCfg
  /\ validateNetworkConfig(Merge(cfg, body))
  /\ Accept(body)
  /\ UNCHANGED <<caller, pc>>

\* POST /api/config with a body fromJSON() takes: RAM first, then save().
fromJSON(body) ==
  /\ pc = "run" /\ ap # NoCfg
  /\ validateNetworkConfig(Merge(cfg, body))
  /\ Accept(body)
  /\ caller' = "post" /\ pc' = "open"

\* A body fromJSON() refuses is answered 400 and changes nothing, so it is a
\* stuttering step and needs no action.

\* (variant) the file survives the reset
reset_KeepsFile ==
  /\ pc = "run" /\ ap # NoCfg
  /\ generated' = FALSE
  /\ promised' = NoCfg
  /\ pendingReset' = pendingReset \cup {cfg.pwd}
  /\ resaved' = resaved \ {cfg.pwd}
  /\ UNCHANGED <<pc, caller, cfg, configReady, file, ap, management, drawn,
                 faults, boots, oled, serial, supplied, burned, reclaimed>>

\* POST /api/config/reset, answered 200, or 500 when the file stays.
reset ==
  /\ pc = "run" /\ ap # NoCfg
  /\ generated' = FALSE
  /\ \/ /\ file' = Absent
        /\ promised' = NoCfg
        /\ pendingReset' = pendingReset \cup {cfg.pwd}
        /\ resaved' = resaved \ {cfg.pwd}
        /\ UNCHANGED faults
     \/ /\ file # Absent /\ Fault("remove")
        /\ UNCHANGED <<file, promised, pendingReset, resaved>>
  /\ UNCHANGED <<pc, caller, cfg, configReady, ap, management, drawn, boots,
                 oled, serial, supplied, burned, reclaimed>>

-----------------------------------------------------------------------------

Boot == \/ mount \/ load \/ regenerate \/ logCredentials
        \/ showInitialNetworkCredentials \/ configureNetwork
save == saveOpen \/ saveWrite

Next ==
  \/ PowerOn \/ PowerOff
  \/ Boot \/ save
  \/ \E body \in Bodies : fromJSON(body)
  \/ reset

Spec == Init /\ [][Next]_vars

\* setup() and a request handler run to completion while there is power.
FairSpec == Spec /\ WF_vars(Boot \/ save)
-----------------------------------------------------------------------------
(* Properties.                                                             *)

\* The types of the variables of the device (config_manager.h, RuntimeConfig).
TypeOK ==
  /\ pc \in {"off", "mount", "load", "regenerate", "open", "write", "log",
             "show", "ap", "run"}
  /\ caller \in {"begin", "load", "post"}
  /\ cfg \in Config /\ generated \in BOOLEAN /\ configReady \in BOOLEAN
  /\ file \in Config \cup {Absent, Torn}
  /\ ap \in Network \cup {NoCfg}
  /\ management \in Passwords \cup {NoCfg}
  /\ drawn \subseteq GenPasswords
  /\ faults \in 0..MaxFaults /\ boots \in 0..MaxBoots
  /\ promised \in Config \cup {NoCfg}
  /\ oled \subseteq Passwords /\ serial \subseteq Passwords
  /\ supplied \subseteq Passwords /\ pendingReset \subseteq Passwords
  /\ burned \subseteq Passwords /\ resaved \subseteq Passwords
  /\ reclaimed \subseteq Passwords

\* Whatever save() writes, the validation in load() accepts on the next boot:
\* the device never throws away a complete file of its own (config_manager.cpp
\* load() and fromJSON() must agree on what is valid).  StoreSpec below implies
\* it.
StoredConfigLoads == file \in Config => validateNetworkConfig(file)

\* A configuration acknowledged with 200 stays on flash until a later request
\* replaces or resets it, whatever power cuts and reboots come between
\* (docs/en/getting-started.md: POST /api/config persists changes).
AckedConfigKept == promised # NoCfg => file = promised

\* After a factory reset and a reboot the AP never comes up with the retired
\* password, unless a request of the same session saved it again.
ResetRetiresPassword ==
  ap # NoCfg /\ ap.pwd \in burned => ap.pwd \in reclaimed

\* What GET /api/config shows an idle device to have is what the next boot
\* will load, unless a reset is waiting for its reboot.
IdleRamIsStored == pc = "run" /\ ap # NoCfg /\ pendingReset = {} => file = cfg

\* The owner can join and manage: the password in force was on the OLED, on
\* the serial console, or supplied by an authenticated request
\* (docs/en/getting-started.md: the firmware generates a unique password,
\* stores it, and shows it on the OLED and USB serial console).
ApPasswordKnown ==
  ap # NoCfg => {ap.pwd, management} \subseteq oled \cup serial \cup supplied

\* Once no fault is left, every boot that keeps its power brings up the AP,
\* whatever earlier crashes left on flash.
BootRecovers ==
  (pc = "mount" /\ faults = MaxFaults) ~> (ap # NoCfg \/ pc = "off")

-----------------------------------------------------------------------------
(* What the documentation says and the code does not do.                   *)

\* SECURITY.md: a factory reset removes the stored configuration; the next
\* boot generates and displays a replacement.
FactoryResetReplaces == ap # NoCfg => ap.pwd \notin burned

-----------------------------------------------------------------------------
(* The abstract store the rest of the firmware relies on.                  *)

Store == INSTANCE SettingsStore WITH
           Values <- {c \in Config : validateNetworkConfig(c)},
           None <- NoCfg,
           stored <- IF file \in Config THEN file ELSE NoCfg,
           writing <- pc = "write"

\* Every behaviour of the configuration manager, crashes and flash faults
\* included, is one of the store: a stored configuration is lost only by a
\* write in progress or an erase, and only valid ones are ever stored.
StoreSpec == Store!Spec
=============================================================================
