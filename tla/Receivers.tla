----------------------------- MODULE Receivers ------------------------------
(***************************************************************************)
(* The three receivers the RF task reads: CC1101Driver (drivers/cc1101.cpp), *)
(* SX1281Driver (drivers/sx1281.cpp) and RX5808Driver (drivers/rx5808.cpp), *)
(* each with the chip it drives.  A driver keeps its own idea of the        *)
(* frequency, and the log gets that idea; the chip may be tuned to another. *)
(*                                                                         *)
(* Frequencies of the SX1281 and the RX5808 are channel numbers: the tables *)
(* from channel to MHz are one to one.  Chips that share the SPI bus are    *)
(* reached only while SPIManager gives the bus within 100 ms.               *)
(***************************************************************************)
EXTENDS Integers, Sequences

CONSTANTS
  Home,            \* 915 MHz
  Bands,           \* BAND_FREQUENCIES
  Contract,        \* 855..925 MHz
  Unknown,         \* a frequency nobody chose
  SxCount,         \* kSweepChannelCount
  RxCount,         \* channels of RX5808 band E
  SubGhzRaw,       \* values of the CC1101's RSSI register
  TwoPointFourRaw, \* values of the SX1281's, averaged
  FivePointEightMv \* averaged output of the RX5808 in mV

ASSUME ReceiversAssumption ==
  /\ Bands \in Seq(Contract) /\ Home \in Contract /\ Unknown \notin Contract
  /\ SxCount \in Nat \ {0} /\ RxCount \in Nat \ {0}
  /\ SubGhzRaw \subseteq 0..255 /\ TwoPointFourRaw \subseteq 0..255
  /\ FivePointEightMv \subseteq Nat

VARIABLES
  \* the CC1101: whether it answers, its frequency and state; the driver
  ccAnswers, ccTuned, ccMode, currentFrequency,
  band, saved,                         \* the locals of scanAllBands
  \* the SX1281: its frequency; the driver
  sxTuned, sxInitialized, channelIndex, currentFrequencyMHz,
  \* the RX5808: its channel-select pins; the driver
  rxPins, currentChannel, scanStarted,
  rssi,            \* receivers[receiver].rssi
  at               \* what the chip was tuned to for that reading

cc1101 == <<ccTuned, ccMode, currentFrequency, band, saved>>
sx1281 == <<sxTuned, channelIndex, currentFrequencyMHz>>
rx5808 == <<rxPins, currentChannel, scanStarted>>
fitted == <<ccAnswers, sxInitialized>>
receivers == <<cc1101, sx1281, rx5808, fitted, rssi, at>>

\* After the begin() of the three: a CC1101 that does not answer is left as it
\* is, and nobody asks again.
ReceiversInit ==
  /\ ccAnswers \in BOOLEAN /\ currentFrequency = Home
  /\ ccTuned = IF ccAnswers THEN Home ELSE Unknown
  /\ ccMode = IF ccAnswers THEN "rx" ELSE "idle"
  /\ band = 0 /\ saved = Home
  /\ sxInitialized \in BOOLEAN
  /\ sxTuned = 0 /\ channelIndex = 0 /\ currentFrequencyMHz = 0
  /\ rxPins = 0 /\ currentChannel = 0 /\ scanStarted = FALSE
  /\ rssi = 0 /\ at = Unknown

-----------------------------------------------------------------------------
(* From readings to 0..100.                                                *)

int8(n) == ((n + 128) % 256) - 128

constrain(n) == IF n < 0 THEN 0 ELSE IF n > 100 THEN 100 ELSE n

\* (variant) without the limits
normalized_Unbounded(n, low, high) == ((n - low) * 100) \div (high - low)

\* The quotient is cut towards 0 in C++ and down here: below 0 both give 0.
normalized(n, low, high) == constrain(((n - low) * 100) \div (high - low))

\* (variant) the register is taken without its sign
ccDbm_Unsigned(raw) == int8(raw \div 2 - 74)

\* Dividing a negative number cuts towards 0.
ccDbm(raw) ==
  int8(IF raw >= 128 THEN -((256 - raw) \div 2) - 74 ELSE raw \div 2 - 74)

ccLevel(raw) == normalized(ccDbm(raw), -120, -30)

\* raw is in half dBm below 0, and rounded after the scale.
sxLevel(raw) == constrain((2 * (240 - raw) * 100 + 180) \div 360)

rxLevel(mv) == normalized(mv, 350, 1400)

-----------------------------------------------------------------------------
(* CC1101Driver.                                                           *)

setFrequency(f) ==
  IF f \in Contract
  THEN /\ currentFrequency' = f
       /\ ccTuned' = IF ccAnswers THEN f ELSE ccTuned
  ELSE UNCHANGED <<currentFrequency, ccTuned>>

strobe(mode) == ccMode' = IF ccAnswers THEN mode ELSE ccMode

\* An absent chip leaves the bus at one level.
RssiRegister == IF ccAnswers THEN SubGhzRaw ELSE {0, 255}

readSubGhz ==
  /\ \/ rssi' = 0 /\ at' = Unknown                      \* the bus was not free
     \/ /\ \E raw \in RssiRegister : rssi' = ccLevel(raw)
        /\ at' = IF ccMode = "rx" THEN ccTuned ELSE Unknown
  /\ UNCHANGED <<cc1101, sx1281, rx5808, fitted>>

scanBegin ==
  /\ band = 0 /\ band' = 1 /\ saved' = currentFrequency
  /\ UNCHANGED <<ccTuned, ccMode, currentFrequency>>

\* setIdleMode(), setFrequency(), SCAL, setRxMode(), and a reading.
scanBand ==
  /\ band \in 1..Len(Bands) /\ band' = band + 1
  /\ setFrequency(Bands[band]) /\ strobe("rx") /\ UNCHANGED saved

\* (variant) the scan ends on its last band
scanRestore_Stays ==
  /\ band = Len(Bands) + 1 /\ band' = 0
  /\ strobe("rx") /\ UNCHANGED <<saved, currentFrequency, ccTuned>>

scanRestore ==
  /\ band = Len(Bands) + 1 /\ band' = 0
  /\ setFrequency(saved) /\ strobe("rx") /\ UNCHANGED saved

scanAllBands ==
  /\ scanBegin \/ scanBand \/ scanRestore
  /\ UNCHANGED <<sx1281, rx5808, fitted, rssi, at>>

-----------------------------------------------------------------------------
(* SX1281Driver.                                                           *)

\* standby(), setFrequency() or startReceive() failed, the last one after the
\* chip took the frequency: the channel is tried again.
sxFails ==
  /\ rssi' = 0 /\ at' = Unknown
  /\ currentFrequencyMHz' = channelIndex
  /\ sxTuned' \in {sxTuned, channelIndex}
  /\ UNCHANGED channelIndex

\* (variant) the sweep stays on its channel
sxSamples_SameChannel ==
  /\ \E raw \in TwoPointFourRaw \cup {240} : rssi' = sxLevel(raw)
  /\ sxTuned' = channelIndex /\ at' = sxTuned'
  /\ currentFrequencyMHz' = channelIndex
  /\ UNCHANGED channelIndex

\* The average of the valid samples; the floor of -120 dBm if there is none.
sxSamples ==
  /\ \E raw \in TwoPointFourRaw \cup {240} : rssi' = sxLevel(raw)
  /\ sxTuned' = channelIndex /\ at' = sxTuned'
  /\ currentFrequencyMHz' = channelIndex
  /\ channelIndex' = (channelIndex + 1) % SxCount

readTwoPointFour ==
  /\ \/ rssi' = 0 /\ at' = Unknown /\ UNCHANGED sx1281  \* the bus, or no begin()
     \/ sxInitialized /\ (sxFails \/ sxSamples)
  /\ UNCHANGED <<cc1101, rx5808, fitted>>

-----------------------------------------------------------------------------
(* RX5808Driver, which begin() always initializes on Rev C.                *)

setChannel(c) == rxPins' = c /\ currentChannel' = c

\* (variant) the pins move on after the reading
scanNextChannel_After ==
  /\ \E mv \in FivePointEightMv : rssi' = rxLevel(mv)
  /\ at' = rxPins
  /\ setChannel((currentChannel + 1) % RxCount)
  /\ scanStarted' = TRUE

\* The first call reads the channel begin() chose.
scanNextChannel ==
  /\ IF scanStarted THEN setChannel((currentChannel + 1) % RxCount)
                    ELSE UNCHANGED <<rxPins, currentChannel>>
  /\ scanStarted' = TRUE
  /\ \E mv \in FivePointEightMv : rssi' = rxLevel(mv)
  /\ at' = rxPins'

readFivePointEight == scanNextChannel /\ UNCHANGED <<cc1101, sx1281, fitted>>

=============================================================================
