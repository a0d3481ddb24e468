---------------------------- MODULE LatencyStats ----------------------------
(***************************************************************************)
(* The post-simulation analytics of single-bss-sld.cc (lines 642-816):     *)
(* the head-of-line decomposition of every successful packet of every      *)
(* (node, link), the per-link delay totals, the global SLD statistics and  *)
(* the rows appended to the summary file.                                  *)
(*                                                                         *)
(* The input is WifiTxStatsHelper's success map, chosen in Init among all  *)
(* batches the MAC can produce: per (node, link) the records of a FIFO     *)
(* queue in completion order.  Timestamps (m_enqueueMs, m_dequeueMs) are   *)
(* small naturals and delays their exact differences.  Means and ratios    *)
(* are fractions <<num, den>>; the code's floating-point 0/0 is NaN (every *)
(* division by zero in this code has a zero numerator).  Throughput is     *)
(* successes * payloadSize * 8; the common positive factor                 *)
(* 1 / (simulationTime * 10^6) is left out.                                *)
(***************************************************************************)
EXTENDS Integers, Sequences, SequencesExt

CONSTANTS
  NSld,         \* nSld: SLD stations are nodes 1..NSld, node 0 is the AP
  Links,        \* link IDs (naturals) a station transmits on
  MaxPkts,      \* bound: success records of one (node, link)
  MaxTime,      \* bound: timestamps range over 0..MaxTime
  MaxFailures,  \* bound: m_failures of one record
  PayloadSize,  \* payloadSize, the size every throughput figure uses
  NaN,          \* model value: a floating-point 0/0
  Pending,      \* model value: a key the decomposition has not reached
  MacKeepsOrder,\* TRUE: the MAC hands over records as FifoBatch says
  MainConfigs   \* values main()'s configuration may hold at the analysis

ASSUME /\ NSld \in Nat \ {0}
       /\ Links \subseteq Nat /\ Links # {}
       /\ {MaxPkts, MaxTime, MaxFailures} \subseteq Nat
       /\ PayloadSize \in Nat \ {0}
       /\ MacKeepsOrder \in BOOLEAN

Nodes == 0 .. NSld
Keys == Nodes \X Links
Time == 0 .. MaxTime
Record == [enq : Time, deq : Time, failures : 0 .. MaxFailures]

(* The MAC's contract for one (node, link): a packet completes after it is *)
(* enqueued, and packets of one queue are enqueued and complete in order.  *)
FifoBatch(s) ==
  \A i \in DOMAIN s :
     /\ s[i].enq <= s[i].deq
     /\ i > 1 => s[i - 1].enq <= s[i].enq /\ s[i - 1].deq <= s[i].deq

Batches == {s \in BoundedSeq(Record, MaxPkts) : MacKeepsOrder => FifoBatch(s)}

VARIABLES
  successInfo,      \* the success map: (node, link) -> records
  pc,               \* which loop of the analysis runs
  todo,             \* keys the current loop over successInfo has left
  enqueueTimeMap,   \* enqueueTimeMap[node][link]
  dequeueTimeMap,   \* dequeueTimeMap[node][link]
  holTimeMap,       \* holTimeMap[node][link]
  totalQueuing,     \* totalQueuingDelayPerNodeLink
  totalAccess,      \* totalAccessDelayPerNodeLink
  meanQueuing,      \* meanQueuingDelayPerNodeLink
  meanAccess,       \* meanAccessDelayPerNodeLink
  accessDelays,     \* accessDelaysPerNodeLink
  e2eDelays,        \* e2eDelaysPerNodeLink
  glob,             \* numSldSuccess, numSldAttempts, sldSuccPr, sldThpt, means
  nodeCursor,       \* i of the per-node output loop
  file,             \* the rows appended to g_fileSummary
  fileOpen,         \* g_fileSummary is open
  mainConfig        \* the configuration the summary row prints

vars == <<successInfo, pc, todo, enqueueTimeMap, dequeueTimeMap, holTimeMap,
          totalQueuing, totalAccess, meanQueuing, meanAccess, accessDelays,
          e2eDelays, glob, nodeCursor, file, fileOpen, mainConfig>>

-----------------------------------------------------------------------------
(* Arithmetic of the doubles the code computes with.                       *)

Zero == <<0, 1>>
Div(a, b) == IF b = 0 THEN NaN ELSE <<a, b>>
AddQ(x, y) ==
  IF x = NaN \/ y = NaN THEN NaN ELSE <<x[1] * y[2] + y[1] * x[2], x[2] * y[2]>>
EqQ(x, y) ==
  IF x = NaN \/ y = NaN THEN x = y ELSE x[1] * y[2] = y[1] * x[2]

Throughput(n) == n * PayloadSize * 8

(* The keys the success map holds, in std::map iteration order.            *)
KeysInOrder(m) ==
  SetToSortSeq({k \in Keys : m[k] # <<>>},
               LAMBDA a, b : a[1] < b[1] \/ (a[1] = b[1] /\ a[2] < b[2]))
KeyOrder == KeysInOrder(successInfo)

(* m_numSuccessPerNodeLink of GetStatistics(): the successes of the key.   *)
NumSuccess(k) == Len(successInfo[k])

-----------------------------------------------------------------------------
(* Decomposition loop, lines 652-685.                                      *)

HolTimeNoBacklog(enq, deq, i) == enq[i]

(* Head-of-line time of record i: the first is its own enqueue time, every *)
(* later one waits for the previous packet of the queue to leave.          *)
HolTime(enq, deq, i) ==
  IF i = 1 THEN enq[1] ELSE Max({enq[i], deq[i - 1]})

(* The erase(begin()) of the first, untrustworthy element.                 *)
DropFirst(s) == Tail(s)

SplitKey ==
  /\ pc = "split"
  /\ todo # <<>>
  /\ LET k   == Head(todo)
         enq == [i \in DOMAIN successInfo[k] |-> successInfo[k][i].enq]
         deq == [i \in DOMAIN successInfo[k] |-> successInfo[k][i].deq]
         hol == [i \in DOMAIN successInfo[k] |-> HolTime(enq, deq, i)]
     IN  /\ enqueueTimeMap' = [enqueueTimeMap EXCEPT ![k] = DropFirst(enq)]
         /\ dequeueTimeMap' = [dequeueTimeMap EXCEPT ![k] = DropFirst(deq)]
         /\ holTimeMap' = [holTimeMap EXCEPT ![k] = DropFirst(hol)]
  /\ todo' = Tail(todo)
  /\ UNCHANGED <<successInfo, mainConfig, pc, totalQueuing, totalAccess, meanQueuing,
                 meanAccess, accessDelays, e2eDelays, glob, nodeCursor, file,
                 fileOpen>>

(* The second loop over successInfo starts when the first one is done.     *)
StartDelayLoop ==
  /\ pc = "split"
  /\ todo = <<>>
  /\ pc' = "delay"
  /\ todo' = KeyOrder
  /\ UNCHANGED <<successInfo, mainConfig, enqueueTimeMap, dequeueTimeMap, holTimeMap,
                 totalQueuing, totalAccess, meanQueuing, meanAccess,
                 accessDelays, e2eDelays, glob, nodeCursor, file, fileOpen>>

-----------------------------------------------------------------------------
(* Delay loop, lines 698-724: totals, per-packet series, per-link means.   *)

AccumulateKey ==
  /\ pc = "delay"
  /\ todo # <<>>
  /\ LET k   == Head(todo)
         enq == enqueueTimeMap[k]
         deq == dequeueTimeMap[k]
         hol == holTimeMap[k]
         que == totalQueuing[k] + SumFunction([i \in DOMAIN enq |-> hol[i] - enq[i]])
         acc == totalAccess[k] + SumFunction([i \in DOMAIN enq |-> deq[i] - hol[i]])
     IN  /\ totalQueuing' = [totalQueuing EXCEPT ![k] = que]
         /\ totalAccess' = [totalAccess EXCEPT ![k] = acc]
         /\ accessDelays' = [accessDelays EXCEPT ![k] =
                               @ \o [i \in DOMAIN enq |-> deq[i] - hol[i]]]
         /\ e2eDelays' = [e2eDelays EXCEPT ![k] =
                            @ \o [i \in DOMAIN enq |-> deq[i] - enq[i]]]
         /\ meanQueuing' = [meanQueuing EXCEPT ![k] = Div(que, NumSuccess(k) - 1)]
         /\ meanAccess' = [meanAccess EXCEPT ![k] = Div(acc, NumSuccess(k) - 1)]
  /\ todo' = Tail(todo)
  /\ UNCHANGED <<successInfo, mainConfig, pc, enqueueTimeMap, dequeueTimeMap, holTimeMap,
                 glob, nodeCursor, file, fileOpen>>

-----------------------------------------------------------------------------
(* Global SLD statistics, lines 726-767, summed over the stations sld.     *)

GlobalStatsOver(sld) ==
  LET keys     == sld \X Links
      success  == MapThenSumSet(LAMBDA k : NumSuccess(k), keys)
      attempts == MapThenSumSet(LAMBDA k :
                    SumFunction([i \in DOMAIN successInfo[k] |->
                                   1 + successInfo[k][i].failures]), keys)
      meanQue  == Div(MapThenSumSet(LAMBDA k : totalQueuing[k], keys), success)
      meanAcc  == Div(MapThenSumSet(LAMBDA k : totalAccess[k], keys), success)
  IN  /\ pc = "delay"
      /\ todo = <<>>
      /\ glob' = [numSldSuccess  |-> success,
                  numSldAttempts |-> attempts,
                  succPr         |-> Div(success, attempts),
                  thpt           |-> Throughput(success),
                  meanQue        |-> meanQue,
                  meanAcc        |-> meanAcc,
                  meanE2e        |-> AddQ(meanQue, meanAcc)]
      /\ pc' = "rows"
      /\ nodeCursor' = 1
      /\ UNCHANGED <<successInfo, mainConfig, todo, enqueueTimeMap, dequeueTimeMap,
                     holTimeMap, totalQueuing, totalAccess, meanQueuing,
                     meanAccess, accessDelays, e2eDelays, file, fileOpen>>

GlobalStatsSkipLast == GlobalStatsOver(1 .. NSld - 1)

GlobalStats == GlobalStatsOver(1 .. NSld)

-----------------------------------------------------------------------------
(* Per-station rows, lines 769-795, and the summary row, lines 797-816.    *)

EmitNodeRow ==
  /\ pc = "rows"
  /\ nodeCursor <= NSld
  /\ LET i    == nodeCursor
         n    == MapThenSumSet(LAMBDA l : NumSuccess(<<i, l>>), Links)
         que  == MapThenSumSet(LAMBDA l : totalQueuing[<<i, l>>], Links)
         acc  == MapThenSumSet(LAMBDA l : totalAccess[<<i, l>>], Links)
         mQue == IF n > 0 THEN Div(que, n) ELSE Zero
         mAcc == IF n > 0 THEN Div(acc, n) ELSE Zero
     IN  file' = Append(file, [node |-> i, thpt |-> Throughput(n),
                               que |-> mQue, acc |-> mAcc,
                               e2e |-> AddQ(mQue, mAcc)])
  /\ nodeCursor' = nodeCursor + 1
  /\ UNCHANGED <<successInfo, mainConfig, pc, todo, enqueueTimeMap, dequeueTimeMap,
                 holTimeMap, totalQueuing, totalAccess, meanQueuing,
                 meanAccess, accessDelays, e2eDelays, glob, fileOpen>>

(* The summary row: the global figures, then configuration values as main() *)
(* holds them at the end of the run (rngRun, simulationTime, mcs,          *)
(* channelWidth and perSldLambda are left out).                            *)
SummaryRow ==
  [succPr |-> glob.succPr, thpt |-> glob.thpt, que |-> glob.meanQue,
   acc |-> glob.meanAcc, e2e |-> glob.meanE2e,
   payloadSize |-> mainConfig.payloadSize, stationCount |-> mainConfig.nSld,
   baseCwMin |-> mainConfig.acBECwmin, cwStage |-> mainConfig.acBECwStage]

EmitSummaryNoClose ==
  /\ pc = "rows"
  /\ nodeCursor > NSld
  /\ file' = Append(file, SummaryRow)
  /\ pc' = "exit"
  /\ UNCHANGED <<successInfo, mainConfig, todo, enqueueTimeMap, dequeueTimeMap,
                 holTimeMap, totalQueuing, totalAccess, meanQueuing,
                 meanAccess, accessDelays, e2eDelays, glob, nodeCursor, fileOpen>>

(* The summary row, then g_fileSummary.close().                            *)
EmitSummary ==
  /\ pc = "rows"
  /\ nodeCursor > NSld
  /\ file' = Append(file, SummaryRow)
  /\ fileOpen' = FALSE
  /\ pc' = "exit"
  /\ UNCHANGED <<successInfo, mainConfig, todo, enqueueTimeMap, dequeueTimeMap,
                 holTimeMap, totalQueuing, totalAccess, meanQueuing,
                 meanAccess, accessDelays, e2eDelays, glob, nodeCursor>>

-----------------------------------------------------------------------------

(* The success maps Simulator::Run can leave: the AP sends no uplink data, *)
(* so only stations own records.                                           *)
SuccessMaps == {f \in [Keys -> Batches] : \A l \in Links : f[<<0, l>>] = <<>>}

(* The analysis variables as main() declares them (lines 640-651).         *)
AnalysisInit ==
  /\ pc = "split"
  /\ todo = KeyOrder
  /\ enqueueTimeMap = [k \in Keys |-> <<>>]
  /\ dequeueTimeMap = [k \in Keys |-> <<>>]
  /\ holTimeMap = [k \in Keys |-> <<>>]
  /\ totalQueuing = [k \in Keys |-> 0]
  /\ totalAccess = [k \in Keys |-> 0]
  /\ meanQueuing = [k \in Keys |-> Zero]
  /\ meanAccess = [k \in Keys |-> Zero]
  /\ accessDelays = [k \in Keys |-> <<>>]
  /\ e2eDelays = [k \in Keys |-> <<>>]
  /\ glob = [numSldSuccess |-> 0, numSldAttempts |-> 0, succPr |-> Zero,
             thpt |-> 0, meanQue |-> Zero, meanAcc |-> Zero, meanE2e |-> Zero]
  /\ nodeCursor = 1
  /\ file = <<>>
  /\ fileOpen = TRUE

Init ==
  /\ successInfo \in SuccessMaps
  /\ mainConfig \in MainConfigs
  /\ AnalysisInit

Next ==
  \/ SplitKey
  \/ StartDelayLoop
  \/ AccumulateKey
  \/ GlobalStats
  \/ EmitNodeRow
  \/ EmitSummary

(* A sequential program: every enabled step is eventually taken.           *)
Spec == Init /\ [][Next]_vars /\ WF_vars(Next)

-----------------------------------------------------------------------------
(* Invariants and properties.                                              *)

Fraction == (Int \X (Nat \ {0})) \cup {NaN}

TypeOK ==
  /\ successInfo \in [Keys -> Seq(Record)]
  /\ pc \in {"split", "delay", "rows", "exit"}
  /\ todo \in Seq(Keys)
  /\ enqueueTimeMap \in [Keys -> Seq(Time)]
  /\ dequeueTimeMap \in [Keys -> Seq(Time)]
  /\ holTimeMap \in [Keys -> Seq(Time)]
  /\ totalQueuing \in [Keys -> Int]
  /\ totalAccess \in [Keys -> Int]
  /\ meanQueuing \in [Keys -> Fraction]
  /\ meanAccess \in [Keys -> Fraction]
  /\ accessDelays \in [Keys -> Seq(Int)]
  /\ e2eDelays \in [Keys -> Seq(Int)]
  /\ glob.succPr \in Fraction /\ glob.meanQue \in Fraction
  /\ nodeCursor \in 1 .. NSld + 1
  /\ fileOpen = (pc # "exit")
  /\ mainConfig \in MainConfigs

(* The delay loop has finished key k (a key without records never starts). *)
Accumulated(k) ==
  \/ pc \in {"rows", "exit"}
  \/ pc = "delay" /\ k \notin Range(todo)

(* The per-packet series the code holds for key k after its erasures.      *)
CodeSeries(k) ==
  [i \in DOMAIN accessDelays[k] |->
     [hol |-> holTimeMap[k][i],
      que |-> holTimeMap[k][i] - enqueueTimeMap[k][i],
      acc |-> accessDelays[k][i],
      e2e |-> e2eDelays[k][i]]]

Decomp == INSTANCE DelayDecomposition WITH
            batch  <- successInfo,
            series <- [k \in Keys |->
                         IF successInfo[k] = <<>> \/ Accumulated(k)
                         THEN CodeSeries(k) ELSE Pending]

(* The vectors, the erase of the first sample and the two loops over the   *)
(* success map together implement the decomposition of spec section 4.3:   *)
(* for every key, the retained series is exactly the head-of-line          *)
(* recurrence over the records in order, with the first record dropped.    *)
DecompositionRefined == Decomp!Spec

(* Weighted(q, t): a row's mean delay times the throughput it reports.     *)
Weighted(q, t) == IF q = NaN THEN NaN ELSE <<q[1] * t, q[2]>>

(* The summary row written after the per-station rows agrees with them:    *)
(* the global throughput is the sum of the stations' throughputs and, once *)
(* some packet succeeded, each global mean delay is the throughput-        *)
(* weighted mean of the stations' mean delays.  The two figures come from  *)
(* separate loops over the node IDs 1..nSld (lines 729, 751 and 770).      *)
RowsAgree ==
  pc = "exit" =>
    LET summary == file[NSld + 1]
        rows    == [j \in 1 .. NSld |-> file[j]]
        total(f) == FoldFunction(AddQ, Zero,
                      [j \in 1 .. NSld |-> Weighted(rows[j][f], rows[j].thpt)])
    IN  /\ summary.thpt = SumFunction([j \in 1 .. NSld |-> rows[j].thpt])
        /\ summary.thpt > 0 =>
             \A f \in {"que", "acc", "e2e"} :
                EqQ(Weighted(summary[f], summary.thpt), total(f))

-----------------------------------------------------------------------------
(* What spec.md says of the aggregates (sections 4.4, 7 and 8).  Its        *)
(* successCount and attemptCount count the retained packets only, the      *)
(* first record of every key being dropped.                                *)

Retained(k) == IF successInfo[k] = <<>> THEN <<>> ELSE Tail(successInfo[k])
SpecSuccess == MapThenSumSet(LAMBDA k : Len(Retained(k)), Keys)
SpecAttempts ==
  SpecSuccess +
    MapThenSumSet(LAMBDA k :
      SumFunction([i \in DOMAIN Retained(k) |-> Retained(k)[i].failures]), Keys)
SpecTotal(f) ==
  MapThenSumSet(LAMBDA k :
    SumFunction([i \in DOMAIN Retained(k) |->
                   Decomp!SpecSeries(successInfo[k])[i][f]]), Keys)

(* The aggregates of spec section 4.4 are over the retained packets: the   *)
(* success probability sldSuccPr (lines 727-741) is retained successes     *)
(* over retained attempts, 2/3 in the scenario of spec section 8, and the  *)
(* global mean queuing and access delays (749-765) divide the retained     *)
(* totals by the retained count.  The code's numSldSuccess and             *)
(* numSldAttempts count every record, the dropped first ones and their    *)
(* retries too.                                                            *)
AggregatesOverRetained ==
  pc \in {"rows", "exit"} /\ SpecSuccess > 0 =>
    /\ EqQ(glob.succPr, Div(SpecSuccess, SpecAttempts))
    /\ EqQ(glob.meanQue, Div(SpecTotal("que"), SpecSuccess))
    /\ EqQ(glob.meanAcc, Div(SpecTotal("acc"), SpecSuccess))

(* A run where no station succeeded writes zeros, never an invalid value,  *)
(* in the summary row (spec section 7).  Lines 741 and 764-767 divide by   *)
(* numSldSuccess and numSldAttempts without a guard.                       *)
SummaryRowHasNoNaN ==
  pc = "exit" =>
    \A f \in {"succPr", "que", "acc", "e2e"} : file[Len(file)][f] # NaN

(* The summary row's aggregates are spec section 4.4's in both regimes:    *)
(* over the retained packets when some station succeeded, zeros when none  *)
(* did.                                                                    *)
SummaryAggregatesAsSpecified == AggregatesOverRetained /\ SummaryRowHasNoNaN

=============================================================================
