--------------------------- MODULE MCLatencyStats ---------------------------
(* Instantiates LatencyStats for TLC: two stations on one link, up to three *)
(* records per station with timestamps 0..2, so that a station can have a  *)
(* backlog (a packet enqueued before its predecessor leaves), a single     *)
(* record (nothing retained) or no record at all.  Retry counts only feed  *)
(* the success probability, which this run does not check: none here.     *)
EXTENDS LatencyStats

MCNSld == 2
MCLinks == {0}
MCMaxPkts == 3
MCMaxTime == 2
MCMaxFailures == 0
MCPayloadSize == 1

(* main()'s configuration at the analysis with the default EDCA values:   *)
(* acBECwmin 15 decremented to 14, stage 6.                               *)
MCMainConfigs ==
  {[payloadSize |-> PayloadSize, nSld |-> NSld, acBECwmin |-> 14, acBECwStage |-> 6]}
=============================================================================
