# SkySweep32 verification

TLA+ models, TLC runs and TLAPS proofs for the SkySweep32 Rev C firmware
(`src/src` in this tree; file names below are relative to it). SkySweep32 is a
passive RF monitor on an ESP32-S3: three receivers report energy, the firmware
classifies it, raises a local alarm, tells neighbouring nodes and a web
dashboard, and logs to a microSD card.

## 1. Inventory

### Threads

| thread | core | what it does | source |
|---|---|---|---|
| `setup()` | 1 | boots everything in order, then starts the tasks | `main.cpp:259-320` |
| `taskRFScanning` | 0, prio 3 | one sweep: for each receiver read RSSI (SPI lock, 100 ms), classify, alert, mesh, web, log; every tenth sweep a CC1101 band scan; battery policy | `main.cpp:89-155` |
| `taskDisplayUpdate` | 1 | draws receivers and the current activity, or turns the OLED off in stealth mode | `main.cpp:157-201` |
| `taskWebServer` | 1 | status broadcast every 500 ms | `main.cpp:203-209` |
| `taskGPS` | 1 | polls the GNSS UART | `main.cpp:232-238` |
| `loop()` | 1 | `alertManager.update()`, `espNowMesh.update()`, every 10 ms | `main.cpp:322-327` |
| async_tcp | any | runs the HTTP handlers one at a time | `web_server.cpp:75-225` |
| Wi-Fi task | 0 | runs the ESP-NOW receive and send callbacks | `espnow_mesh.cpp:19-50` |
| `taskRemoteID` | 0 | experimental build only | `main.cpp:211-230` |

The only lock is the SPI mutex. Everything else the threads share is plain
memory: `alertManager`, `powerManager`, `espNowMesh`, `activityClassifier`,
`configManager` and `receivers[]`.

### Components

| component | state | operations | what makes it correct | hard part |
|---|---|---|---|---|
| configuration store (`config_manager`) | RAM copy, `/config.json`, generated-flag | begin, load, save, reset, fromJSON | acknowledged settings survive, reset retires the credential, the owner knows the password | power cuts inside save, flash faults, request order |
| AP and HTTP handlers (`web_server`) | password snapshot, request body | configure, config POST, reset, power, logs | snapshot agrees with AP; handlers use shared hardware correctly | run beside the RF task |
| alert manager | current alert, start time, beep counters, LED | alert, update, clearAlert | an alarm is neither lost nor cut short nor left on | RF task and loop without a lock, `millis()` wrap |
| SPI bus (`spi_manager`) | mutex, chip selects | acquire with timeout, release, transfers | one user at a time | timeouts, users that skip the lock |
| data logger | file list, current file and its size | begin, log, rotate, delete oldest | bounded file count, oldest goes first | reboots without a clock, name reuse |
| ESP-NOW mesh | peer table, sequence counter | receive, heartbeat, alert, removeStale | fresh peers stay active, every node can be known | loss, duplication, callback against loop |
| power policy | mode, CPU clock, Wi-Fi power save | setMode, update | mode, clock and power save agree | RF task against HTTP handler |
| activity classifier | one current activity | assessActivity | reported level is what is observed | three receivers share one record |
| receivers (CC1101, SX1281, RX5808) | frequency, channel | readRSSI, scans | normalised 0..100, frequency matches sample | integer width, absent chip |
| parsers (CRSF, MAVLink) | frame assembler, current packet | parseByte, parseBuffer | bounds, in step again after a fault, frames arrive | lost and stray bytes, streams cut anywhere |
| Remote ID detector | table of aircraft | onResult, update with its clean-up, report | one entry for an aircraft, dropped after its timeout and not before | BLE callback against the task; experimental build only |
| GNSS | last fix | update, isFixValid | a fix that is not renewed expires | rests on an external parser |
| display | OLED power save | draw | none beyond the drawing | reads shared fields torn |
| build tools, hardware | none at run time | | | |

Interactions. `setup()` loads the configuration and hands the network to the web
server, which keeps its own copy of the password. The RF task calls receivers,
classifier, alert manager, mesh, web server, logger and power policy in that
order; the loop drives the alert manager and the mesh; async_tcp changes the
configuration and the power mode and reads the card. The Wi-Fi task writes the
peer table. Only the SPI bus is locked, so each shared field is a place where two
of these tasks may meet, and those meetings are what most of the modules are
about. The full list of hazards, each at its line, is in `PROJECT.json`.

## 2. Modules

| module | models | extends or refines |
|---|---|---|
| `SettingsStore` | what the rest of the firmware relies on: one durable value, lost only by a write in progress or an erase | |
| `ConfigStore` | `ConfigManager`, boot up to the AP, the two HTTP handlers that change the configuration | refines `SettingsStore` |
| `Alarm` | what the alarms promise: raised, never lowered, ended by age | |
| `AlertManager` | `alert()` on the RF task against `update()` on the loop | refines `Alarm` |
| `LogCard` | what the logger promises of the card: a set of logs in the hands of one task | |
| `DataLogger` | SPI mutex, log, rotation, deletion, log handlers, power cycles | refines `LogCard` |
| `Neighbours` | what the mesh promises of the nodes around: known, present, silent | |
| `Mesh` | one node's peer table, its senders, the air | refines `Neighbours` |
| `PowerManager` | `setMode()`, `update()` and the gauge's readers | |
| `Receivers` | the three drivers with their chips | |
| `ActivityClassifier` | thresholds, level, current activity | |
| `ActivityBoard` | what the dashboard is promised of the activity: one record for all receivers | |
| `Sweep` | the RF task | `Receivers`, `ActivityClassifier`; refines `ActivityBoard` |
| `FrameBuffer` | the buffer and the packet both parsers have | |
| `CrsfParser`, `MavlinkParser` | the frame assembler of each protocol | `FrameBuffer` |
| `FrameStream` | a transmitter, a link with faults and a caller that cuts the stream, around either parser | `CrsfParser`, `MavlinkParser` |
| `AircraftTable` | what the Remote ID detector promises: a set of named entries | |
| `RemoteId` | `RemoteIDDetector` on the BLE task against `taskRemoteID` | refines `AircraftTable` |
| `MC...` | small instances of each for TLC | the module |
| `...Proofs` | theorems, checked by TLAPS | the module |

Definitions keep the names of the functions they stand for; the map in
`PROJECT.json` gives the lines of each. Definitions marked *(variant)* are not
part of a specification: each is a plausible bug in the definition that follows
it, used to see that a property notices.

### Configuration store (`ConfigStore`, `SettingsStore`)

`pc` walks through `setup()`: `mount`, `load`, `regenerate` (defaults and new
credentials), `open` and `write` (the two halves of `save()`: opening with `"w"`
truncates), `log` (the serial console), `show` (the OLED), `ap`, and `run`. A
request for `/api/config` (`fromJSON`) changes RAM and then runs the same
`save()`; `reset` removes the file and nothing else. `caller` remembers where
`save()` returns to. `PowerOff` can come at any step. Faults are chosen by
`FaultKinds`: a partition that must be formatted or cannot be mounted, an
unreadable file, a file that does not open, a write of nothing, a short write,
a file that cannot be removed, a soft AP that does not start.

SSIDs, passwords, channels are small sets with valid and invalid members; a
password from `esp_random()` is one that was never drawn before; all other
settings are one value. A body that is refused changes nothing and is a
stuttering step. `oled`, `serial`, `supplied`, `promised`, `burned` and the like
record what the owner was told: they are history, nothing reads them.

### Alert manager (`AlertManager`)

A step is one read or write of a field that the other thread may see: the test
of the pattern, `beepsRemaining--` as a read and a write, the LED, the age, the
two halves of `clearAlert()`; on the other side the four stores of `alert()` and
`startPattern()`. `millis()` is a counter modulo `TimeMod` and `now` the loop's
local copy of it. `age`, `overlap` and `pause`, the time since the pause before a
beep began, are history.

`Alarm` knows none of the threads' steps. Under the mapping a call is in progress
while the RF task has a `type`; it has raised the alert once its first store is
made; `beside` is `overlap`, that a call ran beside the loop's turn. Only then may
an alert be cleared that is young, or critical: the abstract module says how far
the missing lock reaches, and that it reaches no further.

### microSD logger and SPI bus (`DataLogger`)

`holder` is the mutex. A task waits (`log`, `radio`), then either acquires or
times out; every step under the lock is an action. A file is named by the uptime
at which its name was made and stamped by its last write; both start again at a
boot, which is why a name may come back and an old file may look new.
`getLogFileCount` is the set of what the call may return: the count modulo 2^8,
or 0 when `LOG_DIR` does not open. Each of four calls of the card may fail: opening
a log (the entry is dropped), printing (any part of the entry is written, none
included, into a file that then exists), opening the directory (the count is 0 and
nothing is deleted) and removing a file (ignored by the code). A directory that
opens is read to its end. The HTTP handlers use the card (`web`) without the mutex,
as in the code. `latest` and `lapses`, the rotations that one of these faults kept
from deleting, are history.

`LogCard` is the card as its users see it: a task takes the bus, enters one line
(or loses it on the way) and gives the bus back, gives logs up meanwhile, or gives the bus back with nothing
done. The mutex is the owner and a boot after the first ends the first session;
names, sizes, stamps, the listing and the timeouts are gone. That every change of
`logs` needs the owner is what makes the count that `getLogFileCount` read still
true when a file is deleted for it.

### ESP-NOW mesh (`Mesh`)

One receiver, its senders and the frames in the air. Time stamps are kept as
ages, since the code only uses differences; ages are modulo `TimeMod`. The Wi-Fi
task handles a frame in three steps (find or add the slot, store `lastSeen`,
store `active`), the loop runs `removeStale` slot by slot with the two operands
of the age read apart, in either order. Senders boot, send heartbeats, alerts,
lose frames (at most `MaxLoss` in a row) and stop; the receiver may restart. A
sender may share the receiver's id, the last byte of the MAC, and is then
ignored.

`Neighbours` has sets of nodes where the code has slots. A node is heard, known and
present at the first of the three steps of its frame: a slot that a frame is being
written to counts as present whatever `active` holds (`Handled`), and as not silent
until `lastSeen` is stored. A step of the scan that reads a slot is a look at a
silence; a node is dropped for its silence, or because a frame came since
that look (`disturbed`, which is `overlap`).

### Power policy (`PowerManager`)

Three tasks read the gauge in two steps; `update()` on the RF task and
`POST /api/power` on async_tcp call `setMode()`, one step for each of the mode,
the CPU and the Wi-Fi; `update()` looks at the percentage, then at the mode, and
`setMode()` compares the mode once more. The charge falls and the gauge stops and
starts answering at any time, but a gauge that did not answer the probe at boot
(`batteryMonitoring`) is never read again, and the percentage stays at 100.

### Receivers, classifier, RF task (`Receivers`, `ActivityClassifier`, `Sweep`)

Each driver has its own idea of the frequency next to what the chip is tuned to;
`at` remembers what a reading was really taken on. Registers and voltages come
from small sets and go through the code's arithmetic, `int8_t` included, to
0..100. A CC1101 that does not answer is still read and gives a register of 0x00
or 0xFF; an SX1281 command may fail before or after the chip took the frequency;
the bus may not be free. Channels of the SX1281 and the RX5808 are numbers: the
tables to MHz are one to one.

`fromJSON()` on async_tcp assigns the thresholds while the RF task reads them one
by one: `held` are the tables whose fields memory may hold and `seen` those it
held since the assessment began, so a level is any that some mixture of them
gives. The time stamp of the record is kept as its age. `Sweep` puts the steps in
the task's order: read, assess, report, for each receiver; the band scan each
`ScanEvery` sweeps; the pause, in which time passes. The time a sweep itself
takes is counted to the pause.

`ActivityBoard` is the record without thresholds, stamps and clock. A reading is in
hand between assessment and report, so that the level shown and the level alarmed
are the same one; the record is taken by every reading above none, whatever level
it showed (one receiver's `LOW` replaces another's `CRITICAL`, as in the code), and
emptied by the first reading of nothing after the timeout. Silence is counted only
while there is something to forget.

### Parsers (`FrameBuffer`, `CrsfParser`, `MavlinkParser`, `FrameStream`)

`rx` is what `rxBuffer` holds up to `rxIndex`; `packet` is `currentPacket`, whose
payload array keeps the tail of an earlier packet. The disjuncts of
`crsfParseByte` and `mavlinkParseByte` are the ways through `parseByte()`; a byte
that would be read from behind `rxIndex` is `Leftover`, which is no byte. The CRCs
are parameters: what matters is what they cover. `FrameStream` runs one of the
parsers on a stream that begins in the middle of a frame and on which the link
loses, changes or adds a bounded number of bytes; `parseBuffer(n)` takes the next
`n` bytes and returns at the first packet, so that the rest of the piece is lost
(`Discard`), as in the code. `unsure` is history: the number of bytes within which
the parser must be in step again, twice the longest frame after a fault. A sync byte
inside a frame (`FalseStart`) that comes before it has run out sets it back to that;
to a parser in step it is a byte like any other.

Nothing in the firmware calls the parsers: the surroundings stand for the
receiver they are meant for and for the streams of `test/host/test_parsers.cpp`.

### Remote ID (`RemoteId`)

Only in the experimental build. The task goes through `update()` (the table is
thinned out entry by entry, the count is set, the scan started), reads the count
and reports entry by entry. `onResult()` runs on the BLE task in two or three
steps: the search and the test for room, then either the update or the store and
the count, where `droneCount` may be read anew. The library's `start()` waits for
the end of the scan; the comment at the call says it does not. `blocking` chooses:
with a scan that does not wait the two tasks meet, and only the bounds of the
table (`TypeOK`) are promised. Time stamps are kept as ages, capped where no
property tells them apart; an age below 0 in the comparison is the wrap of the
`uint32_t` difference.

`AircraftTable` is a set of entries with a name and a silence. The array is such a
set behind a scan that blocks: its entries are the slots below `droneCount`, and
during the clean-up those already moved (below `writeIdx`) and those not yet looked
at (from `index` on), since in between the array holds stale copies. An addition
happens when the count is stored, not when the slot is written. For a scan that
does not block the mapping is the empty table: nothing is promised of that one.

## 3. Runs

| run | shows |
|---|---|
| `config_crash` | Power cuts at any step over three boots: `AckedConfigKept`, `ResetRetiresPassword`, `IdleRamIsStored`; every step is one of `SettingsStore` (`StoreSpec`). |
| `config_faults` | Flash and AP faults without power cuts: the password in force is one the owner was shown or chose (`ApPasswordKnown`), and the first boot without a fault brings the AP up (`BootRecovers`). |
| `alert_fair` | All interleavings of `alert()` and `update()`: `NoBeepUnderflow`, `LedFollowsAlert`; every step is one of `Alarm` (`AlarmSpec`); outside stealth mode alerts end (`AlertsEnd`); below critical no pause before a beep lasts longer than the gap and two turns of the loop, although the LED and the pattern count from one stamp (`PausesEnd`). |
| `logger_rotate` | Two tasks, timeouts, a card each of whose calls may fail, a power cycle: a task is in its critical section exactly while it has the mutex (`LockedExclusive`); there are no more files than `MaxFiles`, one per boot and one per rotation that a fault kept from deleting (`FileCountBounded`); `FileSizeBounded`; every step is one of `LogCard` (`CardSpec`), `LockReleased`. |
| `mesh_peers` | Two senders, one with the receiver's id: `PeersDistinct`, every step is one of `Neighbours` (`NeighboursSpec`), `LivePeerKept`, `PeerReturns`. |
| `power_modes` | Requests against the policy, three readers of the gauge: `ModeApplied`; a battery that stays critical, if its gauge was there at boot and answers, brings BALANCED back again and again, and for good, CPU and Wi-Fi included, when the requests stop and did not clash (`CriticalBalances`). |
| `parser_sync` | Either parser on a faulty stream, with and without sync bytes inside the frames: no byte is read or kept beyond the buffers (`TypeOK`), a parser in step stays in step and one that is not is back once two longest frames' bytes have come without a false start (`SyncRegained`), a frame that ends in step comes out with its own payload (`FramesArrive`), and frames keep coming out however the caller cuts the stream, unless frames with sync bytes inside are sent again and again (`KeepsReceiving`). |
| `remote_id` | Two aircraft, a table of two: nothing is written behind the table (`TypeOK`); with a scan that blocks, `NamedNotPlaced` (positions never come under a name, since Location messages carry no id), `ReportedFresh`, and every step is one of `AircraftTable` (`TableSpec`). |
| `sweep_fresh` | The whole RF task: `LoggedWhereSampled`, `ScanLeavesNoTrace`, `LevelBetween`, the stronger of two signals never reads or is classified lower, from register to level (`StrongerReadsHigher`), every step is one of `ActivityBoard` (`BoardSpec`), `ChannelsCovered`. |

`mesh_peers`, `sweep_fresh`, `parser_sync` and `remote_id` also check `TypeOK`, which there
bounds tables, buffers and arithmetic. In the other four modules it says no more
than the types and is proved only (section 4), as is `StoredConfigLoads`, which
`StoreSpec` implies. In the same way `AlarmSpec` implies `NeverLowered` and
`ClearsOnlyExpired`, `CardSpec` implies `LatestLogKept`, `NeighboursSpec` implies
`DroppedInTime`, `BoardSpec` implies `ActivityFresh` and `KeptForTimeout`, and
`TableSpec` covers `OneEntryEach` and `LiveStays` but for stale copies within the
clean-up: these are stated in their modules and theorems, and no run repeats them. Three more runs end in a counterexample, because the code
does not do what a text of the repository says:

| run | the text | what happens |
|---|---|---|
| `config_reset_doc` | SECURITY.md: after a factory reset the next boot generates a replacement | a configuration request before the reboot saves the old password again |
| `alert_stealth_doc` | `alert_manager.cpp:93`: auto-clear alerts after timeout | in stealth mode the test is skipped; the alert stays and silences its level |
| `logger_bus_doc` | CONTRIBUTING.md: every SPI user goes through `spiManager` | `/api/logs` uses the card without the lock |

Four more disagreements with a text have no run of their own. A mesh frame
between two reads of `removeStale()` makes the age wrap, and a peer just heard is
dropped until its next frame, against `espnow_mesh.cpp:114` (not heard from in 60
seconds): `LivePeerKept` leaves that overlap out. Two overlapping calls of
`setMode()` may leave the mode BALANCED with the CPU at 240 MHz for good, against
`power_manager.cpp:65` (critical battery selects the lowest policy): `ModeApplied`
speaks of a call that runs alone. A transmitter that repeats a frame which holds
sync bytes can keep a parser out of step for ever, against `test_parsers.cpp:378`
(they self-resync): `SyncRegained` begins its count again at each such byte that
comes while the parser is out of step, and `KeepsReceiving` names the transmitter
it leaves out. The
Remote ID scan blocks, against the comment at `remote_id_detector.cpp:39`.

Met while modelling, and left out of the runs because no text of the repository
rules on them: an alert raised beside `update()` may be cleared at once (its start
time is stored after the loop read `millis()`) or be cut to one beep; a CC1101
register of 128 to 146, below -128 dBm, wraps in `int8_t` and reads as the
strongest signal (`StrongerReadsHigher` leaves these registers out, and the lemma
`WeakestReadHighest` of `SweepProofs` shows that it must: every one of them gives
100); a CC1101 that is not fitted reads as -74 dBm, above the default
LOW threshold, and is logged; a power cut between `save()` and the OLED leaves a
stored password nobody was shown; a battery gauge that is not there at boot is never
read again, so that the battery counts as full and never as critical; a card whose
`/logs` does not open lets the log
files grow in number for good, since the count is then 0; within a sweep the
activity of one receiver replaces a higher one of another; the pause between the beeps of a
critical alarm is as long as the LED's period, whose stamp it shares, so that the
LED may hold the pattern up (`PausesEnd` leaves it out); a tone whose end lies just
below 2^32 ms and is looked at after the wrap goes on until the clock comes round,
which in stealth mode nothing cuts short; `parseLinkStats()` asks for a byte less than it copies. Each is a hazard in `PROJECT.json`.

### Bounds

* `ConfigStore`: one valid and one invalid member of every kind; with two faults
  and three boots a fault can hit a boot that repairs an earlier one. Each boot
  draws at most two passwords (a failed migration draws twice), so three or four
  are enough; drawn passwords are interchangeable (symmetry in the safety run).
  The retired SSID is on flash at the start only: a request that names it is
  acknowledged and undone by the next boot, which is a hazard and is left out
  of `AckedConfigKept`.
* `AlertManager`: durations are scaled to one to three ticks in the order the
  firmware has them (a gap and a turn of the loop, 80 and some 10 ms, are below the
  LED's 100 and 250 ms; `PausesFit`), the clock wraps after four, so that every wrap
  and every equality happens. A pattern has one or two beeps: the second is where a count
  can be lost.
* `DataLogger`: two tasks (one with a radio), one file allowed, a file that fills
  in one entry, or in more where a part of it is lost, two sessions, five
  milliseconds: enough for rotation and deletion in both sessions, for a failed
  count and a failed removal, and for a name that comes back.
* `Mesh`: a table of two, heartbeat of one tick, timeout of two, a clock of six,
  one loss in a row: the least for which `(MaxLoss + 1) * Gap <= Stale` holds with
  loss, and for which ages wrap.
* `PowerManager`: all three readers, a charge on either side of 5 %, a gauge that
  is there at boot and one that is not.
* `Sweep`: two channels, two bands, three threshold tables, one of which does not
  rise, registers on both sides of the `int8_t` edge, timeout two, pause one, a
  clock of four, a band scan every second sweep.

* `FrameStream`: bytes 0 to 5 of which 5 is the sync byte; payloads of up to two
  bytes of a possible two (CRSF) and up to one of five (MAVLink), one of each
  protocol with a sync byte and a length that starts a false frame; stray bytes are
  sync bytes, the ones that can start a false frame; pieces of one or two bytes,
  two faults. The checksums are weighted sums modulo 6 and 36, so that a false
  frame may pass. A stray sync byte can make a parser wait for the longest frame.
* `RemoteId`: two aircraft and the entry without a name for a table of two, so that
  it fills up; a scan and a timeout of two ticks, a delay of one, a clean-up that
  may take one.

### Fairness

Time passes and every task runs: FreeRTOS schedules the tasks by priority and
none of them spins, and the task watchdog resets a core whose loop stops for 30 s
(`MaxLag`). So `update()`, `removeStale`, `receive`, a call that has begun,
and the clock are weakly fair. `Mesh` needs strong fairness of `Tick`: a tick
waits until no frame is in the air, and frames are handled within a tick.
`DataLogger` assumes only that a task holding the bus goes on; that a task gets
the bus is not assumed. `Sweep` needs strong fairness of a reading of the SX1281
that gets the bus and whose commands succeed: on a chip that fails for ever the
sweep stays on its channel, as the code does. The
pause of the RF task is bounded (`MaxGap`) although the code accepts any
`rfScanMs`: with a huge one the task sleeps for weeks, which is a hazard and no
run. In `FrameStream` the transmitter goes on sending and the caller
goes on calling; of faults there are finitely many. `RemoteId` has safety
properties only. No fairness is assumed of requests,
power, faults, the battery or the order of tasks.

## 4. Theorems

Proved for all values of the constants that satisfy the named assumptions in the
modules. Each is proved from an inductive invariant by one step for each action.

* `ConfigStoreProofs`: `TypeCorrect`, `StoredLoads`, `AckedKept`,
  `ImplementsStore`, `IdleIsStored`, `PasswordKnown`, `ResetRetires`. The invariant adds to the types that an opened `save()`
  always has a valid configuration in RAM, whoever called it: this is why what
  it writes loads again. `AckedKept` adds that a promise is kept by every
  program counter that has not yet reached the file; it assumes that no read,
  format or short-write fault occurs and that no request names the retired SSID.
  `ImplementsStore` maps `file` to the stored value and `pc = "write"` to a write
  in progress, with every fault allowed. `IdleIsStored` assumes a flash that
  mounts and takes every write; power cuts and lost files are allowed.
  `PasswordKnown` assumes only that power is not cut within a step: a password
  that was not shown is a generated one on its way to the screen, or no AP will
  start. `ResetRetires` has no assumption: a retired password is on flash, or on
  its way there, only if a request saved it again, and a generated one was never
  drawn before (`DrawnInv`).
* `AlertManagerProofs`: `TypeCorrect`, `NoUnderflow`, `LedFollows`,
  `AlertNeverLowered`, `OnlyExpired`, `PausesAreShort`, `ImplementsAlarm`. The decrement runs only between a test of
  `beepsRemaining > 0` and its store, and the only other writer stores at least
  one; the invariant says so for each program counter of the loop. `OnlyExpired`
  adds that the start stamp is no older than the alert except between the two
  stores of `alert()`, and that the time the loop holds is no further from it:
  the modular difference exceeds the timeout only for an alert that is as old.
  `PausesAreShort` assumes `PausesFit`: the gaps and a turn of the loop are below the
  LED periods of medium and high, and no gap comes near a wrap. While a pause lasts
  `lastToggle` is at least as old as the pause, and at most the gap older than the
  turn of the loop, since the turn before would have started the beep
  (`PauseInv`); so the LED finds its period over only where the RF task has just
  stored a stamp later than the loop's clock, and what it then stores is younger
  than a turn.
  `ImplementsAlarm` rests on the same invariant: with it a `clearAlert()`
  without a call beside it is a `Clear` of an expired alert. It adds that
  `type` is `ALERT_NONE` outside a call (`NoCall`); the other steps of the loop leave
  the alert alone.
* `DataLoggerProofs`: `TypeCorrect`, `Exclusive`, `FilesBounded`, `LatestKept` and
  `ImplementsCard` (both `MaxFiles > 0`), `SizeBounded`, all with any card faults.
  `FilesBounded` rests on what each program counter knows of the files: the
  current one is counted before it exists, except between a count and its deletion
  (`CountInv`); where the count or the removal fails, the bound rises with `lapses`.
  The property itself speaks only of counts the `uint8_t` can hold.
  `LatestKept` rests on the latest file having the latest stamp in the first
  session while the current file has entries, which is when a rotation looks
  (a file whose entry was lost whole is younger than the latest). `ImplementsCard` combines the three: a step that deletes
  is the holder's, its count is the cardinality of the set, and its victim is not
  the latest. `Exclusive` holds in both directions, so that no path of
  `log()`, timed out or failed, keeps the mutex. `SizeBounded`, with any card fault: a name made in this
  session lies after all earlier ones of it, so that a file that is taken up
  again holds only what earlier sessions left (`Earlier`), and what this one adds
  is below the rotation size and an entry.
* `MeshProofs`: `TypeCorrect`, `Distinct`, `Dropped`, `LiveKept`,
  `ImplementsNeighbours`. The scan never
  leaves the table, no slot above `peerCount` holds a node, and a node has one
  slot. For `Dropped`: the stamp of an active slot that the Wi-Fi task is not
  writing equals the silence of its node, and is at most the timeout, the ticks
  since the loop's turn began and, where the turn has still to come, one more
  turn (`Aged`); what the loop has read is no younger. For `LiveKept`, which
  assumes `(MaxLoss + 1) * Gap <= Stale`: the silence of a node that is on is
  made of its lost heartbeats and the age of the last one (`Beats`), and without
  a frame in between `compare` and `mark` speak of that silence (`Alone`). For
  `ImplementsNeighbours` a frame must also be noted: while one is in the Wi-Fi
  task's hands `overlap` is set (`Noted`), so that with `Alone` a slot marked
  inactive is either long silent or disturbed.
* `PowerManagerProofs`: `TypeCorrect`, `PolicyApplied`. A call that runs alone
  has, at each of its steps, applied the part it has passed.
* `SweepProofs`: `TypeCorrect`, `LoggedRight`, `ScanRestores`, `NoFalseLevel`,
  `Fresh`, `KeptLong`, `StrongerIsHigher`, `ImplementsBoard`. Its invariant has seven parts: the CC1101 outside and
  inside a band scan, the other two drivers, the reading (a driver that read
  still holds the frequency it read on), the task, the record on the card, the
  thresholds, and the record of activity, whose age equals `quiet` as long as it
  is active, so that the modulus never bites: `Timeout + MaxGap < TimeMod`. `ImplementsBoard` rests on
  that equality. `StrongerIsHigher` goes through the scales: the registers rise in
  dBm but for the wrap (`DbmRises`), the divisions of `normalized` keep an
  order (`ScalesRise`), and a table gives a stronger reading no lower level even
  when its own thresholds do not rise (`LevelRises`): whatever the weaker reading
  reached the stronger one reaches as well.
* `FrameStreamProofs`: `TypesHold`, `SyncIsRegained` and `FramesDoArrive`, for any
  frames and checksums. At every moment the parser is in step, or has missed a start
  and lets the rest of the frame pass (`Skipping`, which a false start ends), or
  holds what a false start began and gives it up within `unsure` bytes (`Locked`, a
  bound that each byte moves on both sides). To a parser in step a sync byte
  inside a frame is one byte of it.
* `RemoteIdProofs`: `TypesHold` (also for a scan that does not block: an entry that
  is being added has room, because only the clean-up changes the count
  meanwhile and it only lowers it), `OneEach`, `NamesHaveNoPlace`, `LiveDoesStay`,
  `ReportsAreFresh`, `ImplementsTable`. With a scan that blocks, callback and clean-up exclude each
  other; while the clean-up runs the entries before `writeIdx` are those kept and
  those from `index` on are still to be looked at. `ImplementsTable` needs that the
  names in these two parts differ, that the one being added is in neither, and
  that the places taken are their sum.

Model-checked only: everything under fairness (`BootRecovers`, `AlertsEnd`,
`LockReleased`, `PeerReturns`, `CriticalBalances`, `ChannelsCovered`,
`KeepsReceiving`), which is out of the prover's reach. Every invariant and every
property of a step that a run checks is a theorem.

## 5. Not modelled

Display, dashboard page, host tests, build-time configuration, tools, hardware:
no state the rest depends on. GNSS: one task copies the fix of an external NMEA
parser once a second; what could go wrong is decided in that parser. The helpers
that read fields out of a packet, the tables of names and the unpacking of RC
channels in the parsers: functions of one packet. Payloads of mesh frames, statistics and sequence
numbers: nobody reads them. Functions without a caller in the firmware
(`setWifi`, `mute`, `exportToJSON`, `spectrumScan` and others, listed with their
components). The transfers of the SPI bus, the WebSocket's status message and the
assembly of a request body. Boot beyond the network and the receivers' start.

## 6. Plan

1. *Done*: configuration store, alert manager, logger and bus, mesh, power policy,
   receivers with classifier and RF task, and their first theorems.
2. *Done*: the frame assemblers and the Remote ID table, with their theorems.
3. Left: GNSS, the display, the chunks of a request body, and the order in which
   `setup()` starts the tasks. None of them shares state with what is proved here
   beyond what the modules already take as input.
4. *Done*: every safety property of the runs as a theorem.
5. *Done*: an abstract specification for each component that keeps a state others
   rely on, and the refinement as a theorem: settings, alarms, card, neighbours,
   activity, aircraft.
6. Left: an abstract specification of the power policy. `setMode()` may be called
   by two threads at once, so it would promise little beyond `PolicyApplied`; and
   one of the frame streams, where what a parser promises is `SyncIsRegained` and
   `FramesDoArrive` already.
