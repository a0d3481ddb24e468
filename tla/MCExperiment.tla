---------------------------- MODULE MCExperiment ----------------------------
(* Instantiates Experiment for TLC.  Two stations, --nodeAcs strings of up *)
(* to three lexemes over BE, VO, the invalid code 4, a comma, a blank and  *)
(* junk: lists that are empty, short, full, malformed or invalid.  An      *)
(* out-of-bounds read gives BE or the unknown AC 4.  One base CW and stage *)
(* per category (the command line gives the same to all four).  The       *)
(* analysis sees one link and up to two FIFO records per station, with     *)
(* timestamps 0..1.  Payloads are the code's defaults in bytes:          *)
(* payloadSize = payloadBE = payloadBK = 1500, payloadVI 1200 and         *)
(* payloadVO 250.                                                          *)
EXTENDS Experiment

MCNSld == 2
MCIntLexemes == {0, 3, 4}
MCMaxLen == 3
MCGarbageBytes == {0, 4}
(* A list of the four categories only: no out-of-bounds read reaches an   *)
(* unknown AC, so every run that is not rejected gets to Simulator::Run.   *)
MCValidBytes == {0}
(* The 9 us slot; the default rate 0.00001.                                *)
MCSlotNs == 9000
MCLambdas == {<<1, 100000>>}
(* A rate of 0 (interval +infinity) and a rate of 20000 per slot          *)
(* (interval 0.45 ns, which rounds to 0).                                  *)
MCBadLambdas == {<<0, 1>>, <<20000, 1>>}
(* +inf as an int64: INT64_MIN on x86-64, INT64_MAX where it saturates.  *)
MCUnspecifiedNs == {-(2^30), 2^30}
MCWidth == 8
MCBases == {3}
MCStages == {1}
MCLinks == {0}
MCMaxPkts == 2
MCMaxTime == 1
MCMaxFailures == 0
MCPayloadSize == 1500
MCPayloadBytes ==
  [payloadBE |-> 1500, payloadBK |-> 1500, payloadVI |-> 1200, payloadVO |-> 250]
(* The code's constants (lines 137-139): A-MPDUs limited to 0 MPDUs, no   *)
(* RTS/CTS.                                                                *)
MCUseRts == FALSE
MCUnlimitedAmpdu == FALSE
MCMaxMpdusInAmpdu == 0
(* The default 60 s, and 70 s, past the 65535-TU beacon cap (67.1 s).      *)
MCSimulationTimes == {60000000, 70000000}
(* A QoS data header of 26 bytes, the FCS of 4 and the LLC/SNAP header of  *)
(* 8 the WifiNetDevice adds.                                               *)
MCMpduOverhead == 38
(* --simulationTime=1 --payloadBE=2000: a short run, and Best Effort      *)
(* packets larger than payloadSize.                                        *)
MCShortSimulationTimes == {1000000}
MCLargeBePayloadBytes ==
  [payloadBE |-> 2000, payloadBK |-> 1500, payloadVI |-> 1200, payloadVO |-> 250]
=============================================================================
