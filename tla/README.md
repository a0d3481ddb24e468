# TLA+ models of the single-BSS SLD latency experiment

This directory models `src/contrib/Project/examples/single-bss-sld.cc`, the ns-3
experiment program of this repository, in TLA+. The program sets up one access
point and `nSld` single-link stations. Each station gets a Wi-Fi access category
(AC) and a traffic client. The program runs the simulation, then turns the
per-packet enqueue/dequeue records collected by `WifiTxStatsHelper` into
queuing, access and end-to-end delays, and writes one CSV row per station plus
a summary row. The other sources under `src/` are ns-3 library fragments:
`queue-item.cc` (getters and setters), plus `ht-configuration.h` and
`inet-socket-address.h` (declarations). They have no behaviour to model.

The program is sequential, with one thread and no callbacks of its own between
configuration and analysis. The hard parts are therefore not interleavings.
They are:

- numeric edges: uint64 overflow of the CW formula, 0/0 statistics, off-by-one
  node indices;
- input handling: a stringstream parse loop, and a read past the end of a vector;
- the head-of-line recurrence, which depends on record order and on three
  vectors staying aligned while the first element is erased.

## Parts of the system and how they interact

| Part | Code (single-bss-sld.cc) | State | Operations |
|---|---|---|---|
| Parameter derivation | 161-169, 192-199, 292-303, 425-463 | `acXXCwmin`, `acXXCwStage`, `acXXCwmax`, Txop attributes | derive CWmax then decrement CWmin, per AC in order BE, BK, VI, VO; `Config::Set` of MinCws/MaxCws/Aifsns/TxopLimits |
| Traffic assignment | 81-120, 171, 200, 254-290, 512, 540-627 | `nodeAcsStr`, `nodeAcs`, `nodeToAcMap`, `perSldLambda`, `trafficConfigMap`, clients | parse one code; reject a code outside 0..3; end of list with BE fallback; per-station traffic type, rate and interval; per-station client (type, TID, payload, interval or probability) |
| Latency decomposition | 640-724 | `enqueueTimeMap`, `dequeueTimeMap`, `holTimeMap`, totals, series, per-link means | split the records of one (node, link), compute the HOL times, drop the first sample; accumulate one key |
| Aggregator | 726-815 | global counts, success probability, throughput, means; output file | global statistics; one row per station; summary row; close |
| Program flow of `main()` | 123-171, 254-815 | the phase main() is in | parse, derive and set EDCA, set up clients, `Simulator::Run`, analyse |
| MAC defaults and AP | 305-327, 383-398, 410-423 | station-manager and queue defaults, `beaconInterval`, A-MPDU limits | set the defaults; install the AP with its beacon interval; set the A-MPDU limits |
| Simulation set-up | 329-382, 399-408, 465-508 | ns-3 objects | not modelled (engine calls) |

How the parts interact:

- Traffic assignment decides each station's AC, and with it the payload and
  arrival model.
- Parameter derivation fixes the EDCA parameters the simulator contends with.
- The simulator (external) produces the success map `WifiTxStatsHelper::GetSuccessInfoMap()`.
- The decomposition and the aggregator consume that map.

`LatencyStats` alone takes the simulator's output as its initial state, and
`Experiment` chooses it at the `Simulator::Run` step. Every success
map the simulator can produce is enumerated: per-key records whose dequeue
times do not decrease and each come after the record's own enqueue
(`FifoBatch`), since a single-link MAC queue is FIFO.

## Modules

- **`CwDerivation`** models parameter derivation.
  - Variables: `cliCwmin` and `cwStage` (the command line), `cwmin` and
    `cwmax` (the uint64 variables), `derived` (which ACs lines 292-303 have
    handled), `mac` (what each Txop is set to) and `configured`.
  - Actions: `DeriveCw(ac)` models one block of lines 292-303, and
    `ConfigureEdca` models lines 425-463.
  - Integer width is the constant `Width`, and arithmetic is `% 2^Width`.
  - `uint64_t(double)` of a value that does not fit is undefined behaviour, so
    `ScaledCw` returns every value of the type.
- **`AcAssignment`** models traffic assignment.
  - The `--nodeAcs` string is a sequence of lexemes (integer literals, `Comma`,
    `Blank`, `Junk`).
  - `ParseAc`, `RejectAc` and `FinishAcList` are the three exits of one
    iteration of the `while (ss >> ac)` loop. `AfterBlanks` is the blank
    skipping of `operator>>`.
  - `FinishAcList` also applies the empty-list fallback (280-285) and builds
    `nodeToAcMap` (287-290). Reading `nodeAcs[i]` past the end is undefined
    behaviour, so the value is any byte of `GarbageBytes`.
  - `ConfigureTraffic` models lines 540-560. Every station's config carries
    the one global `perSldLambda` and `SldDetermIntervalNs` (line 512).
  - `SetupClient` and `CrashOnUnknownAc` model one iteration of the client
    loop (562-627). The first builds the client with `PayloadOf` and `LowTid`.
    Its arrival parameter is the interval in nanoseconds, `NanoSeconds`
    (line 602), for a deterministic client, and the probability
    `perSldLambda` for a Bernoulli one.
    The second covers `wifiAcList.at` throwing on an unknown AC (lines 88-109).
- **`LatencyStats`** models decomposition and aggregation.
  - Inputs: `successInfo` holds every success map for `NSld` stations plus the
    AP (node 0, which sends nothing) over `Links`.
  - Actions:
    - `SplitKey` handles one (node, link) of lines 652-685: the HOL recurrence
      `HolTime`, then the erase of the first sample `DropFirst`.
    - `StartDelayLoop` and `AccumulateKey` model lines 698-724.
    - `GlobalStats` models lines 726-767, over stations 1..nSld.
    - `EmitNodeRow` models lines 769-795.
    - `EmitSummary` models lines 797-815, and closes the file.
  - Keys are visited in `std::map` order, modelled with `SetToSortSeq`.
  - Fractions are kept exact as `<<numerator, denominator>>`, and 0/0 is the
    model value `NaN`, so that "NaN in the output" is observable.
  - Throughput is kept as `n * PayloadSize * 8`. The division by
    `simulationTime * 1e6` is left out because it scales every row alike.
  - `SummaryRow` also carries the configuration columns that have logic
    behind them: `payloadSize`, `nSld`, `acBECwmin` and `acBECwStage`. They
    are held in the variable `mainConfig`.
  - The constant `MacKeepsOrder` says whether the records satisfy
    `FifoBatch`, the MAC's ordering contract. It is FALSE only in the run
    that asks what the code does with records that break it.
- **`DelayDecomposition`** is the abstract specification of spec.md §4.3.
  - For each key it gives the series
    `hol = max(enq[j], deq[j-1]), que = hol - enq[j], acc = deq[j] - hol, e2e = deq[j] - enq[j]`
    over the records after the first.
  - `LatencyStats` implements it through `INSTANCE DelayDecomposition WITH`
    a refinement mapping. A key's series is `Pending` until `AccumulateKey`
    has summed it, and is then read from the code's vectors.
- **`MacSetup`** models the MAC defaults and the AP. Times are in
  microseconds.
  - `SetMacDefaults` models lines 305-327: RTS/CTS only with `useRts`, the
    fragmentation threshold `payloadSize + 100`, the retry limits and queue
    size at uint32 max, and `MaxDelay = 2 * simulationTime`.
  - `InstallAp` models lines 383-398: the beacon interval is the simulation
    time rounded up to whole TUs of 1024 us (`CeilToTu`), capped at 65535
    TUs (`CappedInterval`).
  - `SetAmpduSizes` models lines 410-423.
  - `useRts`, `unlimitedAmpdu` and `maxMpdusInAmpdu` are constants of the
    program (FALSE, FALSE, 0), so the RTS branch is never taken, and every
    A-MPDU limit is 0.
- **`Experiment`** composes the four components in the order `main()` runs
  them. It instantiates `AcAssignment` (with `pc <- acPc`), `CwDerivation`,
  `MacSetup` and `LatencyStats` (with `pc <- lsPc`). Each action is one component's step,
  guarded by the phase `main()` is in:
  - `Parse`: lines 254-290;
  - `DeriveEdca`: lines 292-303, once the list is parsed. It also
    updates `mainConfig.acBECwmin`, since line 294 decrements main()'s
    variable in place;
  - `SetUpMac`: lines 305-423, after the four derivations;
  - `ConfigureTxops`: lines 425-463, once the A-MPDU limits are set;
  - `SetupTraffic`: lines 540-627, once the Txops are configured;
  - `RunSimulation`: lines 629-643, any success map for the stations. It is
    only enabled when `ClockAdvances` holds: every deterministic client has
    a positive interval. A `PacketSocketClient` with `MaxPackets` 0 sends
    again one `Interval` after each send. With an interval of 0 or less,
    virtual time never reaches the stop event of line 639, and
    `Simulator::Run` does not return. An assert build aborts on the
    negative delay instead. Either way `main()` takes no further step;
  - `Analyse`: lines 645-815.
  The composition checks what one component hands the next: a station's
  payload and node ID `i+1` for station `i` in the output rows, the CW
  value in the summary row, and the MAC defaults against the payloads the
  clients send and the stop time of line 639 (`StopTime`).
- **`MCCwDerivation`, `MCAcAssignment`, `MCLatencyStats` and `MCExperiment`**
  give the bounds for TLC.

## Runs

| Run | Cfg | Expect | What it shows |
|---|---|---|---|
| `cw` | `MCCwDerivation.cfg` | pass | For every base in {0,1,3,7,15} and stage in {0,1,6} per AC (Width 16), each Txop gets `CWmin = base-1` and `CWmax = base*2^stage-1` of its own AC (`CwBoundsMatchFormula`). It fails if CWmax were computed after the decrement, or from another AC's variable. |
| `cw_overflow` | `CwDerivation_overflow.cfg` | violation | With Width 4, base 3 and stage 3, `base*2^stage` overflows. The uint64 conversion is undefined and CWmax is not the formula. Finding: line 292 has no bound on the uint8 stage. |
| `acs` | `MCAcAssignment.cfg` | pass | Covers every string of up to 4 lexemes with codes {0..4}, for 3 stations. Every station the parsed list covers gets the spec's client (arrival model, low TID, payload) for its AC (`ClientsFollowParsedList`). |
| `acs_short_list` | `AcAssignment_short.cfg` | violation | `--nodeAcs=0` with 3 stations. Stations 1 and 2 read past the vector (line 289) and get any byte, not BE, or abort. |
| `acs_separated_list` | `AcAssignment_sep.cfg` | violation | `0 ,0` parses as `[0]`. The loop only skips a comma directly after a number (line 268). |
| `latency` | `MCLatencyStats.cfg` | pass | Covers every FIFO success map of 2 stations, one link, up to 3 records and times 0..2. The code's loops refine `DelayDecomposition` (`DecompositionRefined`). The summary row's throughput is the sum of the station rows, and its weighted means agree with theirs (`RowsAgree`). The file is closed exactly at exit (`TypeOK`). |
| `latency_aggregates` | `LatencyStats_aggregates.cfg` | violation | `SummaryAggregatesAsSpecified` joins two claims about the summary row's aggregates. (a) Over retained records (`AggregatesOverRetained`): the success probability and the global mean delays count the dropped first records and their retries (lines 737, 764-765). (b) Zero when nothing succeeded (`SummaryRowHasNoNaN`): with zero successes the row holds NaN (lines 741, 764-767), where spec §7 requires 0. No state violates both, since (a) needs a success. With two stations TLC reports (a) after 4 steps. Station 2 has two records, the second with one retry: the code's succPr is 2/3, while the retained packet gives 1/2. (In spec §8's scenario the figures are 3/4 against 2/3.) The empty map's NaN row needs 5 steps with two stations. With `NSld = 1` it also needs 4 steps, the same as (a), and TLC then reports the NaN trace. |
| `latency_record_order` | `LatencyStats_order.cfg` | violation | With `MacKeepsOrder = FALSE`, records that go back in time are analysed without a check, and a summary row is written. Spec §7 requires a fatal error. |
| `experiment` | `MCExperiment.cfg` | pass | On every input string of up to 3 lexemes and every success map, `main()` terminates: it returns 1, aborts, or closes the file (`ProgramTerminates`). With the code's default payloads, and simulation times of 60 s and 70 s, the MAC defaults do what the comments of lines 311 and 326 say (`MacDefaultsAsCommented`, the property `experiment_mac` breaks with other inputs). Every MPDU fits under the fragmentation threshold, and MaxDelay outlasts the run. The beacon interval is a whole number of TUs, within the 16-bit field, and no shorter than the run unless capped (`BeaconIntervalInTus`). |
| `experiment_output` | `Experiment_output.cfg` | violation | `OutputReportsRunConfiguration` is the conjunction of two spec §6 claims. (a) The summary row's baseCwMin column is the command-line base: line 812 prints it minus 1, after line 294. Every exit state violates (a), so (a) is the counterexample TLC reports. (b) Each station's throughput uses its own payload: with `--nodeAcs=3` the Voice station's row counts its success at the outer payloadSize, 6 units where its client sends 1 (lines 744, 775, 575). A state violating (b) is a longer trace of the same run; it was found when (b) had a run of its own. |
| `experiment_mac` | `Experiment_mac.cfg` | violation | `--simulationTime=1 --payloadBE=2000`. A Best Effort MPDU of 2038 bytes is over the 1600-byte fragmentation threshold, which line 313 takes from the outer payloadSize. `MaxDelay` is 2 s, but the run lasts 6 s (lines 327, 639). Both halves of `MacDefaultsAsCommented` fail in the state TLC reports. |
| `experiment_rate` | `Experiment_rate.cfg` | violation | `perSldLambda` is 0 or 20000, and no garbage AC can abort the run. A VI/VO client gets `NanoSeconds(+inf)`, which is INT64_MIN on x86-64, or `NanoSeconds(0.45)`, which is 0. `Simulator::Run` never returns and no summary is written (`SummaryWrittenUnlessRejected`). |

Every property of a passing run has a mutant in `PROJECT.json`: a plausible
bug in the mapped code that makes TLC find the property violated. The mutants
are:

- HOL without the backlog term;
- the global loop skipping the last station;
- a summary that does not close the file;
- CW arithmetic without the unsigned wrap;
- decrementing before the CWmax computation;
- no 0..3 validation;
- BK instead of VO as the deterministic AC;
- a MaxDelay of one simulation time instead of two;
- a beacon interval without the 65535-TU cap;
- a parse loop that ends only at the end of the string, which hangs on a
  comma or junk, so `ProgramTerminates` fails.

## Bounds and why they are enough

- **`latency`:**
  - With 2 stations, a loop that drops or adds a station changes the totals.
  - 3 records make two retained samples, so the recurrence's `deq[i-1]` term
    is exercised with both a backlogged and an idle queue.
  - Times 0..2 allow equal and strictly ordered timestamps.
  - Failures are 0 in the pass run because no passing property reads them.
    The `latency_aggregates` run uses failures up to 1, with 2 stations
    and times 0..1, so the dropped-record trace is shorter than the
    empty-map one.
- **`acs`:**
  - 4 lexemes allow a separated list of two codes, a blank before a comma,
    and an invalid code after a valid one.
  - The code 4 is the smallest rejected value. Garbage bytes 0..4 include
    valid ACs and an unknown one.
- **`experiment`:**
  - 2 stations and strings of up to 3 lexemes over {0, 3, 4, comma, blank,
    junk} reach every exit of `main()`: return 1, the abort on garbage 4,
    and the closed file.
  - They give a Voice station next to a Best Effort one.
  - One base and stage keep the CW part to a single path. Its arithmetic is
    the `cw` run's question.
  - Up to 2 records per station with times 0..1 give stations with and
    without retained packets.
  - Simulation times of 60 s (the default, not a multiple of 1.024 ms) and
    70 s (past the 67.1 s beacon cap) exercise the ceil and the cap.
  - Payloads are the code's defaults in bytes.
  - The run reaches 515k states in about a minute.
- **`experiment_mac`** takes a 1 s simulation (under the 5 s warm-up) and
  a Best Effort payload 438 bytes over the threshold's margin.
- **Rates:** the slot is the PHY's 9000 ns.
  - `acs` takes `perSldLambda` in {0.00001 (the default), 0}, so both sides
    of the division at line 512 are reached.
  - `experiment` keeps the default, where the interval is 0.9 s.
  - `experiment_rate` takes 0 (interval +infinity) and 20000 (0.45 ns,
    rounded to 0). These are the two ways the interval stops being
    positive.
- **`cw`:** bases include 0 (the wrap) and stage 6 stays inside Width 16, so
  the pass run covers the in-range domain. The overflow is a separate run.

## Fairness

Each module is one sequential pass of the program, so the program always takes
its next step. `Spec` states weak fairness of `Next`. `ProgramTerminates` is
checked under that fairness in the `experiment` run. Every cfg sets `CHECK_DEADLOCK FALSE`, because each modelled
phase really ends:

- the Txops are configured;
- the client set-up finishes, or the program returns 1 or aborts;
- the summary file is closed and the program exits.

In `experiment_rate`, a state with no successor is the hung
`Simulator::Run`, and the liveness property is what reports it.

## Not modelled

- **Simulation set-up** (lines 329-382, 399-408, 465-508) consists of ns-3
  helper calls. The simulator and `WifiTxStatsHelper` are external. Their output is
  the initial state of `LatencyStats`.
- **Command-line parsing** is the ns-3 `CommandLine`. Its possible values are
  the modules' initial states.
- **The library fragments** `queue-item.cc`, `ht-configuration.h` and
  `inet-socket-address.h` have only accessors and declarations.
- **Rates:** `perSldLambda` and the interval `slot/perSldLambda` (line 512)
  are fractions `<<num, den>>`, and +infinity is `<<1, 0>>`. `NanoSeconds`
  rounds them to the nearest nanosecond. For +infinity the conversion to a
  64-bit integer is undefined, so
  it is any value of `UnspecifiedNs`: INT64_MIN on x86-64 and INT64_MAX
  where the conversion saturates, both scaled. The Bernoulli client and its
  handling of a probability above 1 are ns-3 code outside `src/`.
- **`nSld = 0`** (line 466) reads the slot time from an empty device
  container. This is engine code, and the modules size their station
  functions by `nSld >= 1`.
- **`simulationTime = 0`** gives a beacon interval of 0. The modules take
  `simulationTime > 0`, and what ns-3 does with the value is engine code.
- **Configuration columns without logic:** `rngRun`, `simulationTime`, `mcs`,
  `channelWidth` and `perSldLambda` in the summary row are copied from the
  command line unchanged, so they are left out.

## Limits of the model

- **Links:** single-link devices only ever produce link 0. `Links = {0}` is
  therefore the program's real domain, not a bound. A second link would only
  matter for a multi-link variant of the program.
- **What is left:** every remaining line of `main()` is an ns-3 engine call
  or I/O. They are listed under "Not modelled".
