---------------------------- MODULE AcAssignment ----------------------------
(***************************************************************************)
(* Access-category assignment of single-bss-sld.cc: the --nodeAcs string   *)
(* parsed by a std::stringstream (lines 254-272), the BE fallback and the  *)
(* per-node map (280-290), the per-station traffic configuration (540-560) *)
(* and the client each station gets (562-627, with the helpers 81-120),   *)
(* with the arrival parameters: perSldLambda and the interval of line 512. *)
(*                                                                         *)
(* The string is a sequence of lexemes: an integer literal, a comma, a     *)
(* blank, or a character no integer extraction accepts ("Junk").           *)
(* nodeAcs[i] past the end of the vector (line 289) is undefined           *)
(* behaviour: any byte, drawn from GarbageBytes.                           *)
(***************************************************************************)
EXTENDS Integers, Sequences, SequencesExt

CONSTANTS
  NSld,          \* nSld: stations 0..NSld-1 (node IDs 1..NSld)
  IntLexemes,    \* integer literals the string may hold
  MaxLen,        \* bound: lexemes in the string
  GarbageBytes,  \* values an out-of-bounds uint8_t read may give
  Comma, Blank, Junk, \* model values: the other lexemes
  SlotNs,        \* slotTime.GetNanoSeconds() of the PHY (line 468)
  Lambdas,       \* perSldLambda values, as fractions <<num, den>>
  UnspecifiedNs  \* what converting an infinite double gives (line 602)

ASSUME /\ NSld \in Nat \ {0}
       /\ IntLexemes \subseteq Int
       /\ GarbageBytes \subseteq 0 .. 255
       /\ MaxLen \in Nat
       /\ SlotNs \in Nat \ {0}
       /\ Lambdas \subseteq Nat \X (Nat \ {0})
       /\ UnspecifiedNs \subseteq Int

Stations == 0 .. NSld - 1
Lexemes == IntLexemes \cup {Comma, Blank, Junk}
IsInt(x) == x \in IntLexemes

(* Strings the command line can carry: two integer literals are never     *)
(* adjacent, they would be one literal.                                    *)
Strings ==
  {s \in BoundedSeq(Lexemes, MaxLen) :
     \A i \in 1 .. Len(s) - 1 : ~(IsInt(s[i]) /\ IsInt(s[i + 1]) /\ s[i + 1] >= 0)}

(* AcIndex values: AC_BE 0, AC_BK 1, AC_VI 2, AC_VO 3; wifiAcList has an   *)
(* entry for these four only, with low TIDs 0, 1, 4 and 6.                 *)
BE == 0
BK == 1
VI == 2
VO == 3
WifiAcs == {BE, BK, VI, VO}
LowTid == [ac \in WifiAcs |-> CASE ac = BE -> 0 [] ac = BK -> 1
                                [] ac = VI -> 4 [] ac = VO -> 6]

VARIABLES
  nodeAcsStr,   \* the --nodeAcs string
  input,        \* what the stringstream has not consumed yet
  nodeAcs,      \* the parsed std::vector<uint8_t>
  nodeToAcMap,  \* station -> AcIndex
  traffic,      \* trafficConfigMap: station -> [type, ac]
  clients,      \* the client application each station got
  cursor,       \* i of the client set-up loop
  pc,           \* "parse", "traffic", "clients", "done", "invalid", "crash"
  perSldLambda  \* the --perSldLambda value

vars == <<nodeAcsStr, input, nodeAcs, nodeToAcMap, traffic, clients, cursor, pc,
          perSldLambda>>

NoClient == [type |-> "none", tid |-> -1, payload |-> "none", arrival |-> [prob |-> <<0, 1>>]]

(* +infinity, as the fraction 1/0.                                        *)
Inf == <<1, 0>>

-----------------------------------------------------------------------------
(* The parse loop: while (ss >> ac) { validate; push_back; skip a comma }. *)

(* What ss >> ac finds: the first lexeme after the blanks it skips.        *)
AfterBlanks(s) ==
  LET nonBlank == {i \in DOMAIN s : s[i] # Blank}
  IN  IF nonBlank = {} THEN <<>> ELSE SubSeq(s, Min(nonBlank), Len(s))

ParseAcUnchecked ==
  LET rest == AfterBlanks(input)
  IN  /\ pc = "parse"
      /\ rest # <<>> /\ IsInt(Head(rest))
      /\ nodeAcs' = Append(nodeAcs, Head(rest))
      /\ input' = IF Len(rest) > 1 /\ rest[2] = Comma
                  THEN Tail(Tail(rest)) ELSE Tail(rest)
      /\ UNCHANGED <<nodeAcsStr, nodeToAcMap, traffic, clients, cursor, pc, perSldLambda>>

(* An extracted value in 0..3 is pushed; a comma right after it is eaten. *)
ParseAc ==
  LET rest == AfterBlanks(input)
  IN  /\ pc = "parse"
      /\ rest # <<>> /\ IsInt(Head(rest))
      /\ Head(rest) \in 0 .. 3
      /\ nodeAcs' = Append(nodeAcs, Head(rest))
      /\ input' = IF Len(rest) > 1 /\ rest[2] = Comma
                  THEN Tail(Tail(rest)) ELSE Tail(rest)
      /\ UNCHANGED <<nodeAcsStr, nodeToAcMap, traffic, clients, cursor, pc, perSldLambda>>

(* An extracted value outside 0..3: return 1, before any simulation.      *)
RejectAc ==
  LET rest == AfterBlanks(input)
  IN  /\ pc = "parse"
      /\ rest # <<>> /\ IsInt(Head(rest))
      /\ Head(rest) \notin 0 .. 3
      /\ pc' = "invalid"
      /\ UNCHANGED <<nodeAcsStr, input, nodeAcs, nodeToAcMap, traffic, clients, cursor, perSldLambda>>

FinishAcListAtEnd ==
  LET acs == IF nodeAcs = <<>> THEN [i \in 1 .. NSld |-> BE] ELSE nodeAcs
  IN  /\ pc = "parse"
      /\ AfterBlanks(input) = <<>>
      /\ nodeAcs' = acs
      /\ nodeToAcMap' \in
           {m \in [Stations -> GarbageBytes \cup (0 .. 3)] :
              \A i \in Stations : i < Len(acs) => m[i] = acs[i + 1]}
      /\ pc' = "traffic"
      /\ UNCHANGED <<nodeAcsStr, input, traffic, clients, cursor, perSldLambda>>

(* The extraction fails (end of string, a comma, junk): the loop ends,     *)
(* an empty vector becomes nSld zeros, and every station reads its entry,  *)
(* past the end of a shorter vector too.                                   *)
FinishAcList ==
  LET rest == AfterBlanks(input)
      acs  == IF nodeAcs = <<>> THEN [i \in 1 .. NSld |-> BE] ELSE nodeAcs
  IN  /\ pc = "parse"
      /\ ~(rest # <<>> /\ IsInt(Head(rest)))
      /\ nodeAcs' = acs
      /\ nodeToAcMap' \in
           {m \in [Stations -> GarbageBytes \cup (0 .. 3)] :
              \A i \in Stations : i < Len(acs) => m[i] = acs[i + 1]}
      /\ pc' = "traffic"
      /\ UNCHANGED <<nodeAcsStr, input, traffic, clients, cursor, perSldLambda>>

-----------------------------------------------------------------------------
(* Lines 540-560 and 562-627.                                              *)

TrafficTypeBkDeterministic(ac) ==
  IF ac \in {VI, BK} THEN "deterministic" ELSE "bernoulli"

(* The arrival model of a category: VI and VO deterministic, the rest     *)
(* (BE, BK and any other value) Bernoulli.                                 *)
TrafficType(ac) ==
  IF ac \in {VI, VO} THEN "deterministic" ELSE "bernoulli"

(* The payload switch: payloadBK/VI/VO for those, payloadBE otherwise.     *)
PayloadOf(ac) ==
  CASE ac = BK -> "payloadBK" [] ac = VI -> "payloadVI"
    [] ac = VO -> "payloadVO" [] OTHER -> "payloadBE"

(* sldDetermIntervalNs = slotTime.GetNanoSeconds() / perSldLambda: the    *)
(* mean gap of a Bernoulli arrival at perSldLambda per slot; a zero rate   *)
(* gives +infinity (line 512).                                             *)
SldDetermIntervalNs ==
  IF perSldLambda[1] = 0 THEN Inf
  ELSE <<SlotNs * perSldLambda[2], perSldLambda[1]>>

(* NanoSeconds(double) builds a Time of the value rounded to the nearest  *)
(* nanosecond (through int64x64_t); for +infinity the conversion to a     *)
(* 64-bit integer is undefined (UnspecifiedNs).                            *)
NanoSeconds(x) ==
  IF x = Inf THEN UnspecifiedNs ELSE {(2 * x[1] + x[2]) \div (2 * x[2])}

(* Every station's TrafficConfig carries the one global rate and interval. *)
ConfigureTraffic ==
  /\ pc = "traffic"
  /\ traffic' = [i \in Stations |->
                   [type |-> TrafficType(nodeToAcMap[i]), ac |-> nodeToAcMap[i],
                    lambda |-> perSldLambda, determIntervalNs |-> SldDetermIntervalNs]]
  /\ pc' = "clients"
  /\ cursor' = 0
  /\ UNCHANGED <<nodeAcsStr, input, nodeAcs, nodeToAcMap, clients, perSldLambda>>

(* Get*Client: wifiAcList.at(linkAc).GetLowTid() gives the priority; a    *)
(* deterministic client sends every NanoSeconds(m_determIntervalNs), a     *)
(* Bernoulli client with probability m_lambda in every slot.               *)
SetupClient ==
  /\ pc = "clients"
  /\ cursor < NSld
  /\ traffic[cursor].ac \in WifiAcs
  /\ \E arrival \in IF traffic[cursor].type = "deterministic"
                     THEN [intervalNs : NanoSeconds(traffic[cursor].determIntervalNs)]
                     ELSE {[prob |-> traffic[cursor].lambda]} :
       clients' = [clients EXCEPT ![cursor] =
                     [type    |-> traffic[cursor].type,
                      tid     |-> LowTid[traffic[cursor].ac],
                      payload |-> PayloadOf(traffic[cursor].ac),
                      arrival |-> arrival]]
  /\ cursor' = cursor + 1
  /\ pc' = IF cursor + 1 = NSld THEN "done" ELSE "clients"
  /\ UNCHANGED <<nodeAcsStr, input, nodeAcs, nodeToAcMap, traffic, perSldLambda>>

(* wifiAcList.at throws std::out_of_range for any other AcIndex (and       *)
(* NS_ASSERT stops a debug build on AC_UNDEF first): the program aborts.   *)
CrashOnUnknownAc ==
  /\ pc = "clients"
  /\ cursor < NSld
  /\ traffic[cursor].ac \notin WifiAcs
  /\ pc' = "crash"
  /\ UNCHANGED <<nodeAcsStr, input, nodeAcs, nodeToAcMap, traffic, clients, cursor, perSldLambda>>

-----------------------------------------------------------------------------

Init ==
  /\ nodeAcsStr \in Strings
  /\ input = nodeAcsStr
  /\ nodeAcs = <<>>
  /\ nodeToAcMap = [i \in Stations |-> BE]
  /\ traffic = [i \in Stations |-> [type |-> "none", ac |-> BE, lambda |-> <<0, 1>>,
                                     determIntervalNs |-> <<0, 1>>]]
  /\ clients = [i \in Stations |-> NoClient]
  /\ cursor = 0
  /\ pc = "parse"
  /\ perSldLambda \in Lambdas

Next ==
  \/ ParseAc
  \/ RejectAc
  \/ FinishAcList
  \/ ConfigureTraffic
  \/ SetupClient
  \/ CrashOnUnknownAc

Spec == Init /\ [][Next]_vars /\ WF_vars(Next)

-----------------------------------------------------------------------------

TypeOK ==
  /\ nodeAcsStr \in Strings
  /\ input \in Strings
  /\ nodeAcs \in Seq(0 .. 3)
  /\ nodeToAcMap \in [Stations -> GarbageBytes \cup (0 .. 3)]
  /\ traffic \in [Stations -> [type : {"none", "deterministic", "bernoulli"},
                               ac : GarbageBytes \cup (0 .. 3),
                               lambda : Lambdas \cup {<<0, 1>>},
                               determIntervalNs : Nat \X Nat]]
  /\ clients \in [Stations -> [type : {"none", "deterministic", "bernoulli"},
                               tid : {-1, 0, 1, 4, 6},
                               payload : {"none", "payloadBE", "payloadBK",
                                          "payloadVI", "payloadVO"},
                               arrival : [intervalNs : Int] \cup
                                         [prob : Lambdas \cup {<<0, 1>>}]]]
  /\ cursor \in 0 .. NSld
  /\ pc \in {"parse", "traffic", "clients", "done", "invalid", "crash"}
  /\ perSldLambda \in Lambdas

(* The client spec section 4.2 asks for a station of category ac: Video   *)
(* and Voice deterministic, Best Effort and Background Bernoulli, sending *)
(* at the category's low TID with the category's payload size.            *)
SpecClient(ac) ==
  [type    |-> IF ac \in {VI, VO} THEN "deterministic" ELSE "bernoulli",
   tid     |-> LowTid[ac],
   payload |-> CASE ac = BE -> "payloadBE" [] ac = BK -> "payloadBK"
                 [] ac = VI -> "payloadVI" [] ac = VO -> "payloadVO"]

(* Once every station has its client, each station the parsed list covers *)
(* sends as the spec's client of its listed category: the vector, the map, *)
(* the traffic-type chain, the payload switch and the TID lookup agree.   *)
ClientsFollowParsedList ==
  pc = "done" =>
    \A i \in Stations :
       i < Len(nodeAcs) =>
         [f \in {"type", "tid", "payload"} |-> clients[i][f]] = SpecClient(nodeAcs[i + 1])

(* Spec section 9 (legacy behaviour): a list shorter than nSld is padded   *)
(* with Best Effort; section 4.2 would rather have it fail.  Either way no *)
(* station the list does not cover ends up with another category, nor     *)
(* aborts the run.  Line 289 reads nodeAcs[i] past the end of the vector.  *)
UnlistedStationsGetBestEffort ==
  pc \in {"done", "crash"} =>
    \A i \in Stations : i >= Len(nodeAcs) => nodeToAcMap[i] = BE

(* A --nodeAcs list in the format of spec section 6: codes separated by    *)
(* commas and blanks, no empty item.                                       *)
SeparatedList(s) ==
  LET t == SelectSeq(s, LAMBDA x : x # Blank)
  IN  /\ \A i \in DOMAIN t : t[i] \in (0 .. 3) \cup {Comma}
      /\ \A i \in DOMAIN t : t[i] = Comma => i > 1 /\ t[i - 1] # Comma

(* Every code of such a list is parsed, one per station in order (spec     *)
(* section 4.2, step 1).  The loop of lines 260-272 stops at a comma that  *)
(* follows a blank, since it only skips a comma right after a number.      *)
SeparatedListFullyParsed ==
  pc \in {"traffic", "clients", "done", "crash"} /\ SeparatedList(nodeAcsStr)
  /\ SelectSeq(nodeAcsStr, IsInt) # <<>> =>
    nodeAcs = SelectSeq(nodeAcsStr, IsInt)

=============================================================================
