# TLA+ models of the protobuf / Kafka / Schema Registry benchmark

The repository measures what it costs to encode a market-data message with Google Protobuf and
to hand it on: to another thread, to librdkafka, to a Confluent Schema Registry. Its numbers are
worth what the programs that produce them are worth. Some of these are concurrent programs with
lock-free queues, barriers, callbacks, retries, a remote service that may fail, and scripts that
are interrupted and resumed over one results directory; the others are sequential measuring loops,
whose numbers compare only if every row measures what its label says. This directory models both:
TLA+ modules, TLC runs and TLAPS proofs.

Paths are relative to the repository (`src/` is its root). `PROJECT.json` maps every definition
to the lines it stands for and lists, under `hazards`, what is hard to test here.

## 1. Inventory

| Component | State | Operations | What is hard | What makes it correct |
|---|---|---|---|---|
| SPSC pointer ring (`src/src/async_pipeline_benchmark.cc:201-228`) | slots, `head_`, `tail_` | `try_push`, `pop` | two threads, acquire/release only, plain slots, counters that wrap | no slot race; a bounded FIFO |
| Pipeline row (`run_sync`, `run_async`, same file) | ready latch, start and done flags, counters and samples of both threads | start handshake, push loop, pop loop, joins, row | start and end protocols; a push that is not retried | nothing dropped, production order, a row that adds up, an end |
| Kafka producer (`src/src/kafka_producer_benchmark.cc`) | delivery errors, payloads, messages in flight | produce, retry, poll, flush, row | ownership of payloads, late delivery reports, full queue, flush timeout | one free per payload, one message per iteration, errors in the right row |
| Concurrency benchmark (`src/src/concurrency_benchmark.cc`) | barrier, two mutexes, shared buffer, checksum | spawn, start, encode, merge, join | barrier count, a thread that cannot be started, lock per mode, division of the work | serial writers, a clock that starts with everybody, exact checksum |
| Kafka matrix script and report (`src/scripts/container_kafka_benchmark.sh`, `kafka_report.py`) | `results/`: numbered CSV files, a report | clean or append, run, fail, validate, report | kills and failures, in the middle of the cleaning too; file numbers; a limit on a shared counter | a report of exactly what was asked for, not pieced together; nothing overwritten but leftovers of a cut cleaning |
| Sharded workflow and merge (`src/.github/workflows/amd64-benchmark-sharded.yml`, `merge_kafka_results.py`) | artifacts per shard, merged CSV | check out, measure, upload, merge, report | jobs that fail at any point and upload anyway; stale files | complete shards assemble; nothing unmeasured is reported |
| Schema Registry benchmark, live paths (`src/src/schema_registry_benchmark.cc`) | connections, subjects at the Registry, CSV under a mutex | register, look up, exceptional paths, concurrent registration | lost answers, late executions, exceptions in threads, barrier | complete rows, truthful statuses, a common start, an end |
| Schema Registry benchmark, framing paths (same file) | one frame buffer that two paths share | frame in place, with a copy, as a string | the id byte by byte; a prefix left by the path before | a frame a consumer can read |
| Schema evolution benchmark (`src/src/schema_evolution_benchmark.cc`, `benchmark_schema_evolution.sh`) | subjects at the Registry, CSV | v1, v2, list; run again over a new or a kept Registry | statuses are logged and not checked; lost answers | what the statuses may be taken to show |
| Encode, latency, distribution, fixed64, representation benchmarks (`src/src/*_benchmark.cc`) | messages, buffers, counters of `operator new`, samples | arguments, CSV, paths, warm-up, loops, percentiles, rows | one message built in seven ways; counters and samples that outlive a repetition | comparable rows that measure their own loop |
| Host scripts, report generators, build, data | files, containers | run one container after another | readiness loop, cleanup trap | see section 5 |

How they interact: a host script starts a container; its script runs the matrix, one process of a
C++ benchmark per configuration; the process writes a CSV file; a report script reads the files of
the directory. Inside a process, threads share memory (pipeline, concurrency), call back
(librdkafka) or share a stream (Registry). The workflow runs six matrix scripts on six machines
and merges what they upload. Two programs talk to the Registry, under subjects of their own.

## 2. Modules

| Module | Models | Used by |
|---|---|---|
| `HandoffQueue` | the promise of the ring: a bounded FIFO | refined by `SpscRing` |
| `SpscRing`, `MCSpscRing` | `SpscPointerRing` at the grain of its atomic accesses | `AsyncPipeline` |
| `AsyncPipeline` | one row: main thread, hot thread, worker, over an instance of the ring | |
| `KafkaProducer` | `run` and the part of librdkafka it relies on | |
| `ConcurrencyBench` | `run` of the contention benchmark | |
| `KafkaMatrix` | invocations of the matrix script over one directory, and the report | |
| `KafkaShards` | the shards and the assembling job; a matrix run is abstracted to the CSV files it leaves | |
| `RegistryBench` | the live paths of the Registry benchmark and the Registry's answers | `MCRegistry` |
| `SchemaEvolution` | the evolution benchmark, its host script and the Registry's compatibility check | `MCRegistry` |
| `MCRegistry` | the two programs that talk to a Registry, one behaviour being one of either | |
| `BenchMessages` | the messages every program builds, field by field | `MeasuredRows` |
| `MeasuredRows` | a run of one of the six sequential programs | |
| `SpscRingProofs`, `AsyncPipelineProofs`, `ConcurrencyProofs`, `KafkaProducerProofs`, `KafkaMatrixProofs`, `KafkaShardsProofs`, `MeasuredRowsProofs` | theorems about the module each is named after | |
| `RegistryProofs` | theorems about `MCRegistry` and both programs in it | |

**SpscRing.** `head` and `tail` count stores; the `size_t` of the code is the count modulo
`WordSize`, and the tests are written on the words, so wrap-around is covered. `try_push` is three
steps (loads and test, slot write, release store), `pop` likewise. An acquire load of the other
thread's counter may return any value between the one last seen and the current one. A slot write
that meets an unreleased pointer is therefore visible as a race (`NoSlotRace`).

**AsyncPipeline.** `ready` is the latch; every atomic access is a step. Event fields,
encodings and elapsed times are left out: an event is its index in the pool, a sample vector its
size. `WorkerSeesNotDone` may fire after the flag was raised (a stale load). The loop limit that
`parse_args` imposes is the constant `MaxIterations`, so that the ring's overflow path can be
exercised too. What the events hold, and the log line made of them, is in `BenchMessages`.

**KafkaProducer.** The hot loop's `produce`, refusal, retry and poll, the flush and the row are
actions. librdkafka is external: a bounded queue, one verdict per accepted message given by its own
thread, delivered in `poll` or `flush`, and ownership of payloads passed with `RD_KAFKA_MSG_F_FREE`.
`stored` is the broker's log; under `acks=0` a good verdict says nothing of it, and a lost
acknowledgement leaves a stored message with a bad one.

**ConcurrencyBench.** The barrier with its completion function, the two mutexes, and the
`checksum +=` as a load and a store. The encode under the mutex is two steps so that two writers
can be seen. A thread that cannot be started (`MainSpawnFails`) ends the process, at once if
another one is joinable.

**KafkaMatrix.** An invocation chooses its options (append or not, limit, repetitions, selection);
it then unlinks the files one at a time (`RemoveFile`, in any order) or counts them; each run may
fail before it opens its file, throw between two repetitions, or be killed, as the cleaning may. A
file is a configuration and a number of rows. As rows stay in the stream's buffer until it is
closed, a kill leaves an empty file and an exception a partial one. Two variables are history:
`torn` (files are left of a cleaning that has begun) and `kept` (how many files the loops found).

**KafkaShards.** Every shard checks out, cleans, measures and uploads; a failure at any of these
points, with an upload (`if: always()`) or without (a lost runner). A CSV file records which
configurations it has, how many rows, where it lies and whether this run of the workflow wrote it.

**RegistryBench.** The paths of `main` in order. A request is sent and answered, fails, or is given
up; the Registry may execute a given-up request later (`orphans`). A worker writes its row in
pieces, under `csv_mutex`. An exception that leaves a thread ends the process at once.

**SchemaEvolution.** `client` walks through the phases of each repetition and logs whatever status
comes. The Registry accepts, refuses against the latest version (409), fails with or without
effect, or executes a given-up request late (`late`). The host script runs the client again; its
trap has emptied the Registry unless it was killed (`emptied`).

**BenchMessages** and **MeasuredRows.** A message is a function from numbered fields to values;
each library, event and representation has the operator that its code amounts to, with decimals as
sequences of digits where they exceed 32 bits. `MeasuredRows` is the control around it: arguments
accepted or refused, a CSV that may not open, the list of paths in the order of `main`, warm-up,
repetitions, one action per kind of loop, the percentiles, the row. Other encoders are library code and
succeed (a proto3 message has no required field; every buffer has the size `ByteSizeLong` gave). A
payload is two bytes, since only its place in a frame matters; elapsed times are left out, but for
the latency samples, which are arbitrary. yyjson is the exception: `make_yyjson` hands it pointers to
the characters of temporary strings as keys, so `YyjsonMessages` is a set, of everything `mut_write`
may read (the keys of each kind intact or not, or bytes it refuses), and the size of each encode is
that of any of them (`EncodeSizes`). `std::nth_element` is any permutation that its contract
allows: a list with as many samples in every set of values as before, split at the n-th.

## 3. Runs

| Run | Question | Bounds |
|---|---|---|
| `spsc_ring` | is the ring race-free and a FIFO, and is the invariant of its proof one? | capacity 2, words of 4 values, 7 pushes of 3 pointers: both counters wrap and the ring fills and empties at every offset |
| `async_pipeline` | does a row, in each mode, keep order, drop nothing, add up and end? | ring of 4, pool of 3, up to 4 iterations |
| `async_overflow` | does the row add up when pushes are refused? | limit above the capacity: ring of 2, 5 iterations |
| `async_drain` (violation) | does the worker drain the queue? | as `async_pipeline` |
| `kafka_producer` | ownership, retries and error counts | 3 iterations, 2 repetitions, queue of 2: the queue fills, and reports of one repetition can meet the next |
| `concurrency` | barrier, locks, checksum, failed starts | up to 4 threads, 6 iterations, 2 repetitions (4 does not divide 6) |
| `kafka_matrix` | does a report cover what was asked for and nothing pieced together, and what can be overwritten? | 2 configurations, 3 invocations, 2 or 3 repetitions, no limit or one of 1 or 2 runs: a failure (or cut cleaning), a resumption and one more |
| `kafka_shards` | do complete shards assemble, and only measurements? | 2 shards of 2 configurations, 2 repetitions, a clean checkout and one with local measurements |
| `kafka_shards_committed` (violation) | and once results are committed, as the README says? | the same, with a committed `results/amd64/` |
| `registry` | rows, statuses and barrier of the live paths; what evolution statuses show; do both programs end? | 2 repetitions each, hence 2 concurrent workers; 2 runs of the host script |
| `measured_rows` | do rows of the sequential programs compare, and measure their own loop? | all paths of all six programs; 1 and 2 repetitions, 5 and 6 iterations (one of each refused), a corpus of 4, with and without warm-up |
| `measured_rows_yyjson` (violation) | does yyjson encode the message of the other libraries? | 1 repetition of 1 iteration |

The bounds are small because each hazard needs few actors: two threads, a queue that is full once,
two repetitions for anything that leaks from one to the next, one failure and one resumption.
`async_overflow` is a state of the code `parse_args` makes unreachable (it refuses more iterations
than the ring holds); it checks the drop branch of the hot loop, which the report documents.

In `measured_rows`, `MinIterations` and `MinRepetitions` stand for the limits of `parse_args`
(1'000'000 and 10) and `CorpusSize` for 1024; six iterations do not fill the corpus of four a second
time, as a million do not fill 1024. Samples are 0 or 1: selection by comparisons places samples
right if it does so for every threshold, so two values are enough. The schema ids are 1, 66051
(`0x010203`: every byte different) and 2^31 - 1, the largest `int` of a Registry and integer of
TLC (`MaxInt`).

### What the runs found

* **The worker does not always drain the queue** (`async_drain`). It pops null, the producer then
  publishes its last events and raises `producer_done`, and the worker, reading the flag only now
  (`async_pipeline_benchmark.cc:364`), leaves. The events are neither completed nor dropped.
  `RowAccounting` says what is true: completed + dropped + unread = iterations.
* **yyjson encodes other bytes than the other libraries** (`measured_rows_yyjson`).
  `yyjson_mut_obj_add_strcpy` and `_add_sint` copy the value and keep the pointer to the key, and
  `make_yyjson` (`encode_benchmark.cc:306-311`) passes `key.c_str()` of strings that die with the
  statement. What is written for the keys is undefined. It shows in the committed
  `results/amd64/REPORT.md`: 215, 419 and 2279 bytes (lines 44, 33 and 56), where all other JSON
  libraries have 210, 364 and 1979; the difference is 5 bytes for each of the 1, 11 and 60 texts.
* **Committed results stop the sharded workflow** (`kafka_shards_committed`). The shards upload the
  committed `results/amd64/kafka_producer_merged.csv` with their own files and the merge, which
  searches recursively, refuses it. The committed artifacts contain those copies.

Some neighbouring facts are not properties of a run.
* With local CSV files under version control, shards that fail before their cleaning upload these,
  and if the other shards are lost the report is assembled from old measurements;
  `AssembledIsMeasured` therefore takes a clean checkout.
* `MAX_RUNS` limits the directory, not the invocation, which does one run even where the files kept
  have used the limit up: `CoversSelection` says what remains.
* A cleaning that is interrupted leaves numbers with gaps, say 2 to 9. An invocation with
  `APPEND_RESULTS=1` counts 8 files and runs into the existing file 9, as does every one after it,
  each losing the run before. Only such leftovers are ever overwritten (`OverwritesOnlyLeftovers`).
* The report's "Configurations" (`kafka_report.py:86`) is the run counter. After a run that failed
  before its first row an appending invocation therefore announces more configurations than it
  lists; `RunsCountFiles` says what the number is.
* A v2 answered 200 shows compatibility only next to a v1 answered 200 in the same repetition of a
  fresh Registry: after a lost or failed v1 it is the first version, and on a kept Registry it is
  found rather than checked. `schema_evolution_report.py` lists the statuses per phase and not per
  repetition, and says (line 58) that the v2 alone demonstrates it. `SuccessShowsUpgrade` states
  the part that holds.

### Fairness

Safety runs use `Spec`. `Termination` and `RunsEnd` use weak fairness of every thread (the
operating system schedules it) and, where a remote party is involved, of what the code bounds by a
timeout: libcurl's `CURLOPT_TIMEOUT_MS` for a request, `message.timeout.ms` for a verdict of
librdkafka, `timeout-minutes` for a job. The Registry itself owes nothing: it may never answer. In
`MCRegistry` the fairness of each program is restricted to the behaviours in which it runs. In the
pipeline, `SF` on the two steps that read the other thread's store (`WorkerPopReserve`,
`WorkerSeesDone`) says that a store becomes visible in finite time; without it a worker could read
stale values for ever.

## 4. Proofs

All for every value of the constants that satisfies the `ASSUME`s (`SchemaEvolution` is
instantiated, so its `Counts` is assumed by `MCRegistry`, of the instance). Each module states an
inductive invariant, proves it of `Init` and of every action, and derives its theorems. On the
instances of section 3 TLC finds every one of these invariants true (with the one quantifier over
`Nat`, in `Numbering`, cut to the numbers of the instance).

The assumptions say what `parse_args` and the scripts accept: counts and limits are natural
numbers, not zero where the code refuses zero. Those that say more: `Capacity` divides `WordSize`
(both are powers of two); there are finitely many shards and at least one (the merge refuses an
empty set of artifacts); a schema id is between 1 and the largest `int`;
zero is among the latencies, since the samples are zeros before they are measured.

| Module | Theorems (property) |
|---|---|
| `SpscRingProofs` | `Invariance` (`Inv`), `RaceFreedom` (`NoSlotRace`), `Refinement` (`ImplementsQueue`) |
| `AsyncPipelineProofs` | `PipelineInvariance`, `PipelineTyping`, `CommonStart`, `Accounting`, `NothingDropped`, `ProductionOrder`, `RowHandoff`, `NoDeadlock`, `BoundedWork` |
| `ConcurrencyProofs` | `Invariance`, `Typing`, `SerialWriters` (`OneWriter`), `ClockStart` (`TimedFromTheStart`), `NothingLost` (`ChecksumExact`), `NoDeadlock`, `BoundedRun` |
| `KafkaProducerProofs` | `Invariance`, `Typing`, `FreedOnce` (`PayloadOwnership`), `OneMessageEach` (`EnqueuedOnce`), `ErrorsExact` (`RowErrorsExact`), `CleanMeansStored` (`CleanRowIsStored`), `BoundedWork`, `RetriesAwaited` |
| `KafkaMatrixProofs` | `NumberedWithoutGaps`, `NothingElseOverwritten` (`OverwritesOnlyLeftovers`), `Invariance`, `Typing`, `SelectionCovered` (`CoversSelection`), `InOneRun` (`ReportedInOneRun`), `ConfigurationsAreFiles` (`RunsCountFiles`) |
| `RegistryProofs` | live paths: `Invariance`, `Together` (`RegistrationsTogether`), `TruthfulRows` (`RowsTellTheRegistry`), `EveryRowOnce` (`RowsComplete`), `NoDeadlock`, `BoundedRun`; evolution: `EvolutionInvariance`; both: `Composition`, `Typing` (`TypesOK`), `UpgradeShown` (`SuccessShowsUpgrade`), `LivePathsKept`, `NobodyWaitsForEver`, `BoundedPrograms` |
| `KafkaShardsProofs` | `Invariance`, `Typing`, `ReportIsMeasured` (`AssembledIsMeasured`), `CompleteMatrix` (`CompleteShardsAssemble`), `BoundedWorkflow` |
| `MeasuredRowsProofs` | `Running`, `Typed` (`TypeOK`), `Identified` (`RowsIdentified`), `InOrder`, `Measured` (`RowsMeasureTheirLoop`), `FramesRead` (`FramesTheMessage`) |

**Ring.** `Inv` is the type invariant, the order `tailSeen =< tail =< headSeen =< head` of the
counters with `head - tailSeen =< Capacity`, and the contents of the published slots. `NoSlotRace`
is not inductive alone: it needs that the stale `tailSeen` is a lower bound of `tail`, so that a
test passed on an old value is passed. Two arithmetic lemmas connect counts and words:
`DistanceExact` (a wrapped difference is the true one while it fits) and `SlotDistinct` (counts
less than `Capacity` apart have different slots). In `Refinement` the queue is the sequence of the
published slots (`Unread`); a publication appends, a read takes the oldest, all else stutters.

**Pipeline.** The row's steps are steps of the ring or leave it alone (by definition; the lemma `RingUse`), so the ring's
theorems hold of the instance (`RingInv`). `PipelineInv` adds `Handshake`, `SyncRow`,
`AsyncCounts`, `CallsNest` and `Contents`. `NothingDropped` and `ProductionOrder` hold under
`MaxIterations =< QueueCapacity`, the check in `parse_args`. `RowHandoff` carries the ring's
refinement over: a row refines `HandoffQueue` with the pool as its values, in every mode and also
where the limit is above the capacity.

**Concurrency.** `Configured` (threads beyond the configuration never exist), `Barrier` (`arrived`
is the number of those that wait, and a phase opens with everybody there), `Locks` (a writer holds
its mutex; who is about to store has loaded what the checksum still is) and `Sums` (the checksum is
a share for each worker that has exited). `ChecksumExact` needs all of them: the sum over the exited
workers is all iterations only because the shares divide them and every worker has exited at
the join.

**Producer.** `Loop` (counters against `pc`), `Numbered` (no message has two verdicts, and none is
in flight with one), `Counted` (in flight and judged messages make up `accepted`; `deliveryErrors`
counts the bad verdicts handed over), `Rows`, `Owned` and `Logged`. `RowErrorsExact` needs
that the queue is empty at the end of a flush that succeeds, so that no verdict meets the next
repetition.

**Matrix.** `Numbering` (unless a cleaning was cut short the files are `1..n`, and `run_index` is `n`
in the loops; there are never more files than runs) gives `OverwritesOnlyLeftovers`: counting files
finds the last number. `Coverage` (rows for every configuration the loops have visited, in a file no
later run takes; `run_index` is the files kept and the visits, and below the limit while the loops
go on after the first run) gives `CoversSelection`. `ReportedInOneRun` follows from the validation alone: the rows of a
configuration, file after file, must read 1, 2, ..., and every file with rows begins at 1, so a
second one would bring a second 1 (`OneSource`). The lemmas before it say what the library's
`SetToSeq` and `FlattenSeq` return.

**Registry.** `Barrier` (`arrived` counts the workers past their handle; none is past the barrier
before it is open) and `Answers` (a 200 on its way is about a registered subject, a 404 belongs to
the cache miss). `registered` only grows, so a row that is true stays true, late executions
included. `RowsComplete` needs `Rowed` besides: while nothing has gone wrong a repetition that is
over has one row and one to come has none, and a worker that writes holds the lock, so that no
other worker's pieces get into its row.

**Evolution.** `Logged` (the rows are those of earlier phases) and `Fresh` (while the client of an
emptied Registry runs, nothing is late, subjects to come are empty and the present one holds what
its answers said). After that a late execution finds both schemas where both succeeded. `Composition`
carries the invariants of both programs over to `MCRegistry`: a step of one leaves the variables of
the other alone. So the properties hold of the specification the run checks.

**Shards.** `Own` (from a clean checkout, a shard's files are complete and of one of its
configurations, or cut short) and `Assembled` (what is merged is complete and in an artifact, and
artifacts are final once the last job has started). For `CompleteShardsAssemble`, `Tidied` says
that cleaning leaves nothing of what a checkout without an assembled report brings, so that the
complete files of a shard are those of the configurations it has visited; a shard that has visited
all has exactly its part, no two files of the artifacts overlap, and the merge accepts them. An
assembled report that is checked out breaks it: see `kafka_shards_committed`.

**Sequential programs.** `RunInv`, and three invariants that are proved with it.
* `RunInv`: `TypeOK`, `Checked` (nothing runs on options `parse_args` refuses, and the first path
  is the first) and `Prepared` (the samples have as many places as the
  options say, and a buffer that a framing path finds fits the frame).
* `Written`: there is a row for each repetition that is over, none besides, and no two are the
  same. That rows of different paths differ is `PathsDistinct`: the lists of all six programs are
  nested loops over values that differ, and the labels of joined lists differ (`LabelledConcat`).
  `Placed` adds the order: the row of repetition r of path k has the place (k - 1) * repetitions
  + r, and the rows written are those of the places before the present one. So whatever stops a
  program, its file is the beginning of the one list of its paths and repetitions (`InOrder`).
* `LoopInv`: `Summed` (the checksum is that of the encodes so far, yyjson's aside), `Allocated` (so are the
  allocations), `Ranked` (every percentile computed still splits the samples, because a reordering
  keeps how many of them are up to a value and below it) and `Averaged` (the bytes are those of
  the whole corpora so far and of the beginning of one more). The mean of the row then differs from
  the corpus by what an unfinished corpus contributes: with r of n messages encoded at most
  r (n - r) times the spread of the sizes, hence a quarter of n squared (`Spread`, `MeanFollows`).
* `Framing`: after an encode the buffer is `Frame(config.id)`, whatever the path before left in it
  (`FrameInPlace`). `FrameRead` reads the id back from the four bytes.

The sums and the reading of bytes are folds of the community modules, whose recursive function is a
`CHOOSE`. `SumsExist` and `ReadingsExist` show by induction over an interval (`CountingUp`, which is
about a set of numbers and so needs no operator parameter) that there is such a function;
`AnyOrder` shows that the order of a sum does not matter.

**The safety in liveness.** `Termination` and `RunsEnd` are about fairness, but most of what could
make them false is not, and is proved, in two parts.
* *Nobody is stuck.* Each module writes down when a thread waits for nobody (`MainCanStep`,
  `WorkerCanStep`, `ProducerCanStep`), and `NoDeadlock` shows that one such thread there always is:
  at the start latch and the flags of the pipeline (where the last thread may be the worker, before
  its last pop: `LastPop`), at the barrier, the mutexes and the joins of the contention benchmark,
  and at the barrier and `csv_mutex` of the live paths, whose requests end by their timeout. It
  needs, besides the invariants above, that a mutex that is taken has a holder in its critical
  section and that a latch that is not open has somebody left to arrive (`Moves`, `Flags`). That a
  thread with such a condition has an action enabled (`MainCanStep => ENABLED MainStep`, and so
  for the others) is about `ENABLED`; TLC finds it true on the instances. The producer has no such
  theorem: one thread, which waits in the retry loop only, and `RetriesAwaited` says that something
  is coming then.
* *Every step counts.* A measure of the work to come is a natural number, and every step lowers it
  (`BoundedRun`, `BoundedPrograms`, `BoundedWorkflow`), the Registry's late executions, the reruns of
  the host script and the failures of a shard included. Two loops of the code are not bounded: the
  worker's poll of a ring that looks empty, and the retry on a full queue. `BoundedWork` shows, of
  the pipeline and of the producer, that these are the only steps that leave the number as it is.

TLC finds these invariants and action properties true on the instances of the runs. What is left to
TLC of the liveness properties is the fairness: that a thread that can go on does, that a store
becomes visible to the polling worker, and that librdkafka settles the messages a full queue holds.

Model-checked only:
* `Termination` and `RunsEnd`, as far as they are about fairness (see above): liveness and `ENABLED`
  are out of the prover's reach.
* `EncodesTheMessage`, but for the frames (`FramesRead`). The rest compares messages, which depend
  on no constant and on no variable but the path: TLC evaluates all of it. For a proof it would
  need the lengths of literal strings and the folds over decimal digits, which the provers do not
  have.

## 5. Not modelled, and why

* **Time.** No property is about a duration. Percentiles are modelled as functions of samples.
* **Encoders, JSON libraries, librdkafka, libcurl, the Registry.** Outside the repository; modelled
  from their use where a property depends on them, and marked external in `PROJECT.json`.
* **Memory orders** are modelled for the pipeline only (acquire/release with stale loads); mutexes,
  barriers and joins elsewhere order everything they guard.
* **TLS and authentication** change the options of a request, not its protocol.
* **The concurrency matrix script and its report.** The loop empties its directory, cannot append
  and ends at its first failure, so nothing accumulates; the report validates nothing.
* **Host scripts.** One container after another. Whether a broker is ready when the Registry
  beside it answers is a fact of the containers. What a killed script leaves behind is in
  `SchemaEvolution`.
* **The pipeline's report and the generators of comparisons.** Medians, layout and prose, without
  state. That the report takes a median of `dropped` where it asks that drops be "investigated
  rather than averaged away" is a hazard without a property.
* **The workflow's core job and `architecture_report.py`.** Sequential steps without shared state.
* **Build, message definitions, committed results.** Configuration and data; what committed results
  do to the workflow is in `KafkaShards`.

What the models of section 2 leave out:

* `KafkaMatrix`: the check of the `iterations` column (`kafka_report.py:37`); a report is refused for
  it in fewer cases than in the code.
* `MeasuredRows`: the separate limit on the live paths' repetitions in the `parse_args` of the framing
  program; the model accepts more options.
* `AsyncPipeline`: a `std::thread` that cannot be constructed (lines 353 and 381), which ends the
  process without a row. `ConcurrencyBench` has this failure.
* `KafkaProducer`: a broker that loses what it has acknowledged with `acks=1` (`Settle`).
  `CleanRowIsStored` is about what was stored when it was acknowledged.
* `AssembledIsMeasured` and `CompleteShardsAssemble` are stated for a clean checkout, so what an
  earlier run left under version control is excluded there.

## 6. Plan

Done: every module of section 2 with its run, and the proofs of section 4: every invariant and
action property of a run, except the one named there, has a theorem, and so has the safety part of
its liveness properties. What could be added:

1. An abstract specification shared by the sequential programs and the live paths (pairs of a path
   and a repetition that are worked off), with `MeasuredRows` and `RegistryBench` shown to implement
   it; `Written` and `Placed` are most of the proof of the first, `Rowed` of the second.
2. The hazards without a property, should the code they are about (a report's median, the message of
   a failed flush, the readiness loop) grow state of its own.
