----------------------------- MODULE Experiment -----------------------------
(***************************************************************************)
(* main() of single-bss-sld.cc as one sequential program: the --nodeAcs    *)
(* list is parsed (lines 254-290), the EDCA parameters are derived and set *)
(* (292-303, 425-463) around the MAC defaults and the AP (305-423), every  *)
(* station gets its traffic and client                                     *)
(* (512-627), Simulator::Run produces the success map (629-640), and the  *)
(* analysis writes the summary file (640-815).                             *)
(*                                                                         *)
(* The components are the modules AcAssignment, CwDerivation, MacSetup    *)
(* and LatencyStats; each step here is a step of one of them, taken in the     *)
(* order main() runs them.  What the composition adds is what one part     *)
(* hands to another: a station's category, its client and payload, the     *)
(* node IDs the analysis loops over, and the CW values the summary row     *)
(* prints.                                                                 *)
(***************************************************************************)
EXTENDS Integers, Sequences, FiniteSetsExt

CONSTANTS
  NSld, IntLexemes, MaxLen, GarbageBytes, Comma, Blank, Junk,
  SlotNs, Lambdas, UnspecifiedNs,
  Width, Bases, Stages,
  Links, MaxPkts, MaxTime, MaxFailures, PayloadSize, NaN, Pending,
  PayloadBytes, \* payloadBE, payloadBK, payloadVI, payloadVO, by name
  SimulationTimes, UseRts, UnlimitedAmpdu, MaxMpdusInAmpdu,
  MpduOverhead  \* bytes a QoS data MPDU adds to its payload

VARIABLES
  nodeAcsStr, input, nodeAcs, nodeToAcMap, traffic, clients, cursor, acPc,
  perSldLambda,
  cliCwmin, cwStage, cwmin, cwmax, derived, mac, configured,
  simulationTime, stationManager, queue, beaconInterval, maxAmpduSize, macPc,
  successInfo, lsPc, todo, enqueueTimeMap, dequeueTimeMap, holTimeMap,
  totalQueuing, totalAccess, meanQueuing, meanAccess, accessDelays,
  e2eDelays, glob, nodeCursor, file, fileOpen,
  mainConfig,   \* payloadSize, nSld, acBECwmin, acBECwStage in main()
  simulated     \* Simulator::Run has returned

acVars == <<nodeAcsStr, input, nodeAcs, nodeToAcMap, traffic, clients, cursor, acPc,
            perSldLambda>>
cwVars == <<cliCwmin, cwStage, cwmin, cwmax, derived, mac, configured>>
lsVars == <<successInfo, lsPc, todo, enqueueTimeMap, dequeueTimeMap, holTimeMap,
            totalQueuing, totalAccess, meanQueuing, meanAccess, accessDelays,
            e2eDelays, glob, nodeCursor, file, fileOpen>>
msVars == <<simulationTime, stationManager, queue, beaconInterval, maxAmpduSize, macPc>>
vars == <<acVars, cwVars, msVars, lsVars, mainConfig, simulated>>

(* The WifiTxStatsHelper records of a single-link queue are in FIFO order. *)
MacKeepsOrder == TRUE

(* What main()'s configuration can hold when the analysis runs.            *)
MainConfigs ==
  [payloadSize : {PayloadSize}, nSld : {NSld},
   acBECwmin : 0 .. 2^Width - 1, acBECwStage : Stages]

AC == INSTANCE AcAssignment WITH pc <- acPc
CW == INSTANCE CwDerivation
MS == INSTANCE MacSetup
LS == INSTANCE LatencyStats WITH pc <- lsPc

-----------------------------------------------------------------------------

(* The stringstream loop and the node-to-AC map, lines 254-290; a code    *)
(* outside 0..3 returns 1 before anything else runs.                       *)
Parse ==
  /\ AC!ParseAc \/ AC!RejectAc \/ AC!FinishAcList
  /\ UNCHANGED <<msVars, cwVars, lsVars, mainConfig, simulated>>

(* Lines 292-303 run once the list is parsed; acBECwmin is main()'s       *)
(* variable the derivation decrements.                                     *)
DeriveEdca ==
  /\ acPc = "traffic"
  /\ \E ac \in CW!Acs : CW!DeriveCw(ac)
  /\ mainConfig' = [mainConfig EXCEPT !.acBECwmin = cwmin'["BE"]]
  /\ UNCHANGED <<msVars, acVars, lsVars, simulated>>

(* Lines 305-423, after the four derivations.                              *)
SetUpMac ==
  /\ Len(derived) = 4
  /\ MS!Next
  /\ UNCHANGED <<acVars, cwVars, lsVars, mainConfig, simulated>>

(* Lines 425-463, once the devices are installed.                          *)
ConfigureTxops ==
  /\ macPc = "done"
  /\ CW!ConfigureEdca
  /\ UNCHANGED <<msVars, acVars, lsVars, mainConfig, simulated>>

(* Lines 540-627, after every Txop is configured; an unknown AC aborts.    *)
SetupTraffic ==
  /\ configured
  /\ AC!ConfigureTraffic \/ AC!SetupClient \/ AC!CrashOnUnknownAc
  /\ UNCHANGED <<msVars, cwVars, lsVars, mainConfig, simulated>>

(* A deterministic client (MaxPackets 0, line 93) schedules its next send *)
(* one Interval after each send.  With an interval of 0 it re-schedules    *)
(* itself at the same instant for ever; a negative one moves the event    *)
(* into the past (an assertion in Simulator::Schedule aborts the builds    *)
(* that check it).  Either way virtual time never reaches the stop event  *)
(* of line 639, and Simulator::Run does not return.                        *)
ClockAdvances ==
  \A i \in AC!Stations :
     clients[i].type = "deterministic" => clients[i].arrival.intervalNs > 0

(* Simulator::Run and GetSuccessInfoMap(), lines 629-640: any success map  *)
(* the MAC can produce for these stations.                                 *)
RunSimulation ==
  /\ acPc = "done"
  /\ ~simulated
  /\ ClockAdvances
  /\ \E m \in LS!SuccessMaps :
       /\ successInfo' = m
       /\ todo' = LS!KeysInOrder(m)
  /\ simulated' = TRUE
  /\ UNCHANGED <<msVars, acVars, cwVars, mainConfig, lsPc, enqueueTimeMap, dequeueTimeMap,
                 holTimeMap, totalQueuing, totalAccess, meanQueuing, meanAccess,
                 accessDelays, e2eDelays, glob, nodeCursor, file, fileOpen>>

(* Lines 640-815: the analysis of the success map and the summary file.    *)
Analyse ==
  /\ simulated
  /\ LS!Next
  /\ UNCHANGED <<msVars, acVars, cwVars, simulated>>

(* main() starts with the summary file opened for appending (line 126).   *)
Init ==
  /\ AC!Init
  /\ CW!Init
  /\ MS!Init
  /\ successInfo = [k \in LS!Keys |-> <<>>]
  /\ LS!AnalysisInit
  /\ mainConfig = [payloadSize |-> PayloadSize, nSld |-> NSld,
                   acBECwmin |-> cliCwmin["BE"], acBECwStage |-> cwStage["BE"]]
  /\ simulated = FALSE

Next ==
  \/ Parse
  \/ DeriveEdca
  \/ SetUpMac
  \/ ConfigureTxops
  \/ SetupTraffic
  \/ RunSimulation
  \/ Analyse

(* One thread runs main() from top to bottom.                              *)
Spec == Init /\ [][Next]_vars /\ WF_vars(Next)

-----------------------------------------------------------------------------
(* The program ends: it returns 1 on an invalid code, aborts on an unknown *)
(* AC, or closes the summary file after the analysis.                      *)
Terminated == acPc \in {"invalid", "crash"} \/ lsPc = "exit"

(* Whatever --nodeAcs string it is given and whatever the simulation       *)
(* delivers, main() terminates: the parse loop ends, every loop over the   *)
(* stations and the success map ends, and the file is closed.              *)
ProgramTerminates == <>Terminated

-----------------------------------------------------------------------------
(* What the MAC set-up promises the run.                                   *)

(* Simulator::Stop(Seconds(5 + simulationTime)), line 639, in us.          *)
StopTime == 5000000 + simulationTime

(* The AP's beacon interval is a whole number of TUs (the comment of line  *)
(* 390), fits the 16-bit Beacon Interval field, and is no shorter than the *)
(* simulation unless that field caps it: the stations, which tolerate any  *)
(* number of missed beacons (line 378), see beacons only as rarely as      *)
(* ns-3 allows.  Lines 387-389 need both the ceil and the std::min cap for *)
(* a simulationTime that is not a multiple of 1.024 ms or exceeds 67.1 s.  *)
BeaconIntervalInTus ==
  beaconInterval # MS!Unset =>
    /\ beaconInterval % MS!Tu = 0
    /\ MS!Tu <= beaconInterval /\ beaconInterval <= MS!MaxBeaconTus * MS!Tu
    /\ beaconInterval >= simulationTime \/ beaconInterval = MS!MaxBeaconTus * MS!Tu

(* Once every client is installed, the defaults of lines 311-327 do what   *)
(* their comments say for the traffic main() set up: "Disable              *)
(* fragmentation", so every MPDU a client sends, its payload plus the MAC  *)
(* header, FCS and LLC, is within the fragmentation threshold, which line  *)
(* 313 takes from the outer payloadSize; and "Don't drop MPDUs due to long *)
(* stay in queue", so MaxDelay, twice the simulation time, is at least the *)
(* whole run up to the stop event, which starts 5 s before the statistics  *)
(* window of simulationTime.                                               *)
MacDefaultsAsCommented ==
  acPc = "done" =>
    /\ \A i \in AC!Stations :
         clients[i] # AC!NoClient =>
           PayloadBytes[clients[i].payload] + MpduOverhead
             <= stationManager.fragmentationThreshold
    /\ queue.maxDelay >= StopTime

-----------------------------------------------------------------------------
(* What spec.md says the outputs of one run hold.                          *)

(* Spec section 7: an out-of-range category code is the one fatal error    *)
(* before the analysis; any other configuration runs the simulation and   *)
(* writes its summary row.  perSldLambda reaches the deterministic         *)
(* clients through the interval of line 512 and NanoSeconds (line 602).   *)
SummaryWrittenUnlessRejected == <>(acPc = "invalid" \/ lsPc = "exit")

(* The successes the analysis counts for node ID j, over its links.        *)
CodeSuccesses(j) == MapThenSumSet(LAMBDA l : Len(successInfo[<<j, l>>]), Links)

(* Throughput counts each station's packets at the payload size it sends   *)
(* (spec sections 4.4 and 6: a payload size per category).  Station i is   *)
(* node ID i + 1; its client sends the payload of its category (line 575   *)
(* shadows payloadSize), while lines 744 and 775 use the outer payloadSize *)
(* for every station.  Stations the list does not cover are left to       *)
(* UnlistedStationsGetBestEffort.                                          *)
StationThroughputUsesItsPayload ==
  lsPc = "exit" =>
    \A j \in 1 .. NSld :
       j - 1 < Len(nodeAcs) =>
         file[j].thpt = CodeSuccesses(j) * PayloadBytes[clients[j - 1].payload] * 8

(* The summary row's baseCwMin column is the Best Effort base CW given on  *)
(* the command line (spec section 6).  Line 812 prints acBECwmin after     *)
(* line 294 has decremented it in place.                                   *)
SummaryReportsBaseCwMin ==
  lsPc = "exit" => file[Len(file)].baseCwMin = cliCwmin["BE"]

(* The output file reports the run the stations made: each station's      *)
(* throughput at its own payload, and the command-line base CW.            *)
OutputReportsRunConfiguration ==
  StationThroughputUsesItsPayload /\ SummaryReportsBaseCwMin

====
