------------------------------ MODULE MacSetup ------------------------------
(***************************************************************************)
(* The MAC configuration main() of single-bss-sld.cc makes between the CW  *)
(* derivation and the EDCA Config::Set calls: the WifiRemoteStationManager *)
(* and WifiMacQueue defaults (lines 305-327), the AP's beacon interval     *)
(* (383-398) and the A-MPDU size limits (410-423).                         *)
(*                                                                         *)
(* Times are whole microseconds: simulationTime is a double of seconds on  *)
(* the command line, and Seconds() and MicroSeconds() build the Time       *)
(* values the attributes hold.  std::numeric_limits<uint32_t>::max() is   *)
(* scaled to TLC's largest integer, UInt32Max: no count or size the model  *)
(* compares with it comes near either value.  The uint32_t sums of lines *)
(* 313 and 413-420 would only wrap for a payload within 100 bytes of      *)
(* 4 GiB, which no client sends, and are kept exact.                       *)
(***************************************************************************)
EXTENDS Integers

CONSTANTS
  PayloadSize,      \* payloadSize (line 131)
  PayloadBytes,     \* payloadBE, payloadBK, payloadVI, payloadVO, by name
  SimulationTimes,  \* simulationTime values, in microseconds
  UseRts,           \* useRts (line 139): FALSE in the program
  UnlimitedAmpdu,   \* unlimitedAmpdu (line 137): FALSE in the program
  MaxMpdusInAmpdu   \* maxMpdusInAmpdu (line 138): 0 in the program

ASSUME /\ PayloadSize \in Nat
       /\ SimulationTimes \subseteq Nat \ {0}
       /\ UseRts \in BOOLEAN /\ UnlimitedAmpdu \in BOOLEAN
       /\ MaxMpdusInAmpdu \in 0 .. 255

UInt32Max == 2147483647
(* One time unit (TU) of 802.11 is 1024 us; the Beacon Interval field of a *)
(* beacon is 16 bits of TUs.                                               *)
Tu == 1024
MaxBeaconTus == 65535

AmpduAcs == {"BE", "BK", "VI", "VO"}
PayloadOfAc == [BE |-> PayloadBytes.payloadBE, BK |-> PayloadBytes.payloadBK,
               VI |-> PayloadBytes.payloadVI, VO |-> PayloadBytes.payloadVO]

VARIABLES
  simulationTime,   \* the --simulationTime value, in microseconds
  stationManager,   \* WifiRemoteStationManager defaults
  queue,            \* WifiMacQueue defaults
  beaconInterval,   \* the AP's BeaconInterval, in microseconds
  maxAmpduSize,     \* XX_MaxAmpduSize of every device, per category
  macPc             \* "defaults", "devices", "ampdu", "done"

vars == <<simulationTime, stationManager, queue, beaconInterval, maxAmpduSize, macPc>>

(* An attribute left at the ns-3 default.                                  *)
Unset == -1

-----------------------------------------------------------------------------

SetMacDefaultsDelayIsSimTime ==
  /\ macPc = "defaults"
  /\ stationManager' =
       [rtsCtsThreshold |-> IF UseRts THEN 0 ELSE Unset,
        fragmentationThreshold |-> PayloadSize + 100,
        maxSlrc |-> UInt32Max, maxSsrc |-> UInt32Max]
  /\ queue' = [maxSize |-> UInt32Max, maxDelay |-> simulationTime]
  /\ macPc' = "devices"
  /\ UNCHANGED <<simulationTime, beaconInterval, maxAmpduSize>>

(* Lines 305-327: RTS/CTS only with useRts, a fragmentation threshold 100  *)
(* bytes above payloadSize, retry limits and queue size at uint32 max, and *)
(* a queue MaxDelay of twice the simulation time.                          *)
SetMacDefaults ==
  /\ macPc = "defaults"
  /\ stationManager' =
       [rtsCtsThreshold |-> IF UseRts THEN 0 ELSE Unset,
        fragmentationThreshold |-> PayloadSize + 100,
        maxSlrc |-> UInt32Max, maxSsrc |-> UInt32Max]
  /\ queue' = [maxSize |-> UInt32Max, maxDelay |-> 2 * simulationTime]
  /\ macPc' = "devices"
  /\ UNCHANGED <<simulationTime, beaconInterval, maxAmpduSize>>

(* ceil(x / 1024) * 1024 of a non-negative x.                              *)
CeilToTu(x) == ((x + Tu - 1) \div Tu) * Tu

CappedInterval(x) == IF x < MaxBeaconTus * Tu THEN x ELSE MaxBeaconTus * Tu

(* Lines 387-398: the beacon interval is the simulation time rounded up to *)
(* whole TUs, at most 65535 TUs (std::min<uint64_t>).                      *)
InstallApUncapped ==
  /\ macPc = "devices"
  /\ beaconInterval' = CeilToTu(simulationTime)
  /\ macPc' = "ampdu"
  /\ UNCHANGED <<simulationTime, stationManager, queue, maxAmpduSize>>

InstallAp ==
  /\ macPc = "devices"
  /\ beaconInterval' = CappedInterval(CeilToTu(simulationTime))
  /\ macPc' = "ampdu"
  /\ UNCHANGED <<simulationTime, stationManager, queue, maxAmpduSize>>

(* Lines 410-423: unless A-MPDUs are unlimited, each category's limit is   *)
(* maxMpdusInAmpdu MPDUs of its payload plus 50 bytes.                     *)
SetAmpduSizes ==
  /\ macPc = "ampdu"
  /\ maxAmpduSize' =
       IF UnlimitedAmpdu THEN maxAmpduSize
       ELSE [ac \in AmpduAcs |-> MaxMpdusInAmpdu * (PayloadOfAc[ac] + 50)]
  /\ macPc' = "done"
  /\ UNCHANGED <<simulationTime, stationManager, queue, beaconInterval>>

Init ==
  /\ simulationTime \in SimulationTimes
  /\ stationManager = [rtsCtsThreshold |-> Unset, fragmentationThreshold |-> Unset,
                       maxSlrc |-> Unset, maxSsrc |-> Unset]
  /\ queue = [maxSize |-> Unset, maxDelay |-> Unset]
  /\ beaconInterval = Unset
  /\ maxAmpduSize = [ac \in AmpduAcs |-> Unset]
  /\ macPc = "defaults"

Next == SetMacDefaults \/ InstallAp \/ SetAmpduSizes

Spec == Init /\ [][Next]_vars /\ WF_vars(Next)

-----------------------------------------------------------------------------

TypeOK ==
  /\ simulationTime \in SimulationTimes
  /\ stationManager \in [rtsCtsThreshold : {Unset, 0},
                         fragmentationThreshold : {Unset} \cup Nat,
                         maxSlrc : {Unset, UInt32Max}, maxSsrc : {Unset, UInt32Max}]
  /\ queue \in [maxSize : {Unset, UInt32Max}, maxDelay : {Unset} \cup Nat]
  /\ beaconInterval \in {Unset} \cup Nat
  /\ maxAmpduSize \in [AmpduAcs -> {Unset} \cup Nat]
  /\ macPc \in {"defaults", "devices", "ampdu", "done"}

=============================================================================
