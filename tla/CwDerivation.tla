---------------------------- MODULE CwDerivation ----------------------------
(***************************************************************************)
(* The EDCA parameters of single-bss-sld.cc: the contention-window bounds  *)
(* derived from each access category's initial CW and cutoff stage (lines *)
(* 292-303), and the CW, AIFSN and TXOP-limit values handed to the Txop of *)
(* every device (lines 425-463).                                           *)
(*                                                                         *)
(* acXXCwmin and acXXCwmax are uint64_t: the model keeps their width as    *)
(* the constant Width (TLC's integers hold Width <= 30; the code's is 64). *)
(* cwmin * pow(2, stage) is a double; converting a double that does not    *)
(* fit in the unsigned type is undefined behaviour, modelled as any value  *)
(* of the type.                                                            *)
(***************************************************************************)
EXTENDS Integers, Sequences

CONSTANTS
  Width,    \* bits of uint64_t, scaled down for TLC
  Bases,    \* values the command line may give acXXCwmin
  Stages    \* values the command line may give acXXCwStage (a uint8_t)

ASSUME /\ Width \in 1 .. 30
       /\ Bases \subseteq 0 .. 2^Width - 1
       /\ Stages \subseteq 0 .. 255

(* The categories in the order lines 292-303 derive them.                  *)
AcOrder == <<"BE", "BK", "VI", "VO">>
Acs == {AcOrder[i] : i \in 1 .. 4}

(* Fixed AIFSNs (lines 446-449) and TXOP limits in microseconds (456-459). *)
Aifsn == [ac \in Acs |-> CASE ac = "BE" -> 3 [] ac = "BK" -> 7 [] OTHER -> 2]
TxopLimit ==
  [ac \in Acs |-> CASE ac = "VI" -> 3008 [] ac = "VO" -> 1504 [] OTHER -> 0]

Modulus == 2^Width

VARIABLES
  cliCwmin,     \* acXXCwmin as parsed from the command line
  cwStage,      \* acXXCwStage
  cwmin,        \* acXXCwmin
  cwmax,        \* acXXCwmax, 0 until derived
  derived,      \* categories lines 292-303 have derived so far
  mac,          \* the Txop attributes of every device, per category
  configured    \* the Config::Set calls of lines 436-463 have run

vars == <<cliCwmin, cwStage, cwmin, cwmax, derived, mac, configured>>

-----------------------------------------------------------------------------

(* uint64_t(cwmin * pow(2, stage)): exact when it fits, anything otherwise. *)
ScaledCw(base, stage) ==
  IF base * 2^stage < Modulus THEN {base * 2^stage} ELSE 0 .. Modulus - 1

DeriveCwSigned(ac) ==
  /\ Len(derived) < 4 /\ ac = AcOrder[Len(derived) + 1]
  /\ \E v \in ScaledCw(cwmin[ac], cwStage[ac]) : cwmax' = [cwmax EXCEPT ![ac] = v - 1]
  /\ cwmin' = [cwmin EXCEPT ![ac] = @ - 1]
  /\ derived' = Append(derived, ac)
  /\ UNCHANGED <<cliCwmin, cwStage, mac, configured>>

DeriveCwDecrementFirst(ac) ==
  /\ Len(derived) < 4 /\ ac = AcOrder[Len(derived) + 1]
  /\ cwmax' = [cwmax EXCEPT ![ac] = ((cwmin[ac] - 1) * 2^cwStage[ac] - 1) % Modulus]
  /\ cwmin' = [cwmin EXCEPT ![ac] = (@ - 1) % Modulus]
  /\ derived' = Append(derived, ac)
  /\ UNCHANGED <<cliCwmin, cwStage, mac, configured>>

(* acXXCwmax = acXXCwmin * pow(2, acXXCwStage); acXXCwmax -= 1;            *)
(* acXXCwmin -= 1, for the next category in code order.                    *)
DeriveCw(ac) ==
  /\ Len(derived) < 4 /\ ac = AcOrder[Len(derived) + 1]
  /\ \E v \in ScaledCw(cwmin[ac], cwStage[ac]) :
       cwmax' = [cwmax EXCEPT ![ac] = (v - 1) % Modulus]
  /\ cwmin' = [cwmin EXCEPT ![ac] = (@ - 1) % Modulus]
  /\ derived' = Append(derived, ac)
  /\ UNCHANGED <<cliCwmin, cwStage, mac, configured>>

(* Config::Set of MinCws, MaxCws, Aifsns and TxopLimits for all four       *)
(* categories, after the four derivations.                                 *)
ConfigureEdca ==
  /\ Len(derived) = 4
  /\ ~configured
  /\ mac' = [ac \in Acs |-> [minCw |-> cwmin[ac], maxCw |-> cwmax[ac],
                             aifsn |-> Aifsn[ac], txop |-> TxopLimit[ac]]]
  /\ configured' = TRUE
  /\ UNCHANGED <<cliCwmin, cwStage, cwmin, cwmax, derived>>

Init ==
  /\ cliCwmin \in [Acs -> Bases]
  /\ cwStage \in [Acs -> Stages]
  /\ cwmin = cliCwmin
  /\ cwmax = [ac \in Acs |-> 0]
  /\ derived = <<>>
  /\ mac = [ac \in Acs |-> [minCw |-> 0, maxCw |-> 0, aifsn |-> 0, txop |-> 0]]
  /\ configured = FALSE

Next ==
  \/ \E ac \in Acs : DeriveCw(ac)
  \/ ConfigureEdca

Spec == Init /\ [][Next]_vars /\ WF_vars(Next)

-----------------------------------------------------------------------------

TypeOK ==
  /\ cliCwmin \in [Acs -> Bases]
  /\ cwStage \in [Acs -> Stages]
  /\ cwmin \in [Acs -> 0 .. Modulus - 1]
  /\ cwmax \in [Acs -> 0 .. Modulus - 1]
  /\ derived \in Seq(Acs)
  /\ mac \in [Acs -> [minCw : 0 .. Modulus - 1, maxCw : 0 .. Modulus - 1,
                      aifsn : Nat, txop : Nat]]
  /\ configured \in BOOLEAN

(* What every Txop is configured with (spec sections 3 and 8): for initial *)
(* CW base >= 1 and stage s, CWmin = base - 1 and CWmax = base * 2^s - 1,  *)
(* so CWmin <= CWmax, in the category the command line gave them for.  It  *)
(* rests on lines 292-294 computing CWmax from the command-line value      *)
(* before CWmin is decremented in place.                                   *)
CwBoundsMatchFormula ==
  configured =>
    \A ac \in Acs :
      cliCwmin[ac] >= 1 =>
        /\ mac[ac].minCw = cliCwmin[ac] - 1
        /\ mac[ac].maxCw = cliCwmin[ac] * 2^cwStage[ac] - 1
        /\ mac[ac].minCw <= mac[ac].maxCw
=============================================================================
