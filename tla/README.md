# A TLA+ development of tonggeret

tonggeret is an embedded metrics library: an application calls `record_*()` on
its hot path; the sample updates a Prometheus registry at once and travels
through a bounded channel to a writer thread that keeps it in an embedded
key-value store (Fjall, the *hot* tier), from which a background task moves
expired rows into Parquet files (the *cold* tier).  This directory models that
machinery, checks it with TLC on small instances, and proves the parts that
matter most with TLAPS.

Paths below are relative to the repository (`src/...` of the crate).

## 1. Inventory

### Components, their state and their operations

| component | code | state | operations |
|---|---|---|---|
| hot path and lifecycle | `src/engine.rs` | statics `GLOBAL` (once), `SHUTDOWN`, `WRITER_JOIN`, `COMPACTION_TASK`; `dropped_total` of the handle | `global_record()`/`record()`, `init()`, `try_spawn_compaction()`/`spawn_compaction_task()`, `shutdown()` |
| channel and writer thread | `src/engine.rs`, `src/storage/fjall_engine.rs` | the bounded `mpsc` channel, the writer's batch and sequence number, the Fjall partition | `try_send`, `writer_loop()`, `flush_batch()`, `persist_best_effort()` |
| compaction | `src/storage/parquet_exporter.rs` | the partition, `PendingBatch`, the open `ArrowWriter`, the files of the cold directory | `compaction_loop()`, `run_compaction_once_blocking()`, `PendingBatch::flush()`, `open_export()`, `finalize_export()` |
| Prometheus registry | `src/prometheus.rs` | three maps of collectors, each behind an `RwLock`; the registry of the `prometheus` crate | `update()`, `ensure_*()`, `observe_*()`, text encoding |
| visitor tracker | `src/visitors.rs` | a HyperLogLog sketch per region behind a mutex; the counter and gauge it exports | `observe()`, `snapshot()`, `spawn_snapshot_task()`, `Hll::add_hash()`, `estimate()`, `parse_region()`, `visitor_key()` |
| key and value codec | `src/storage/fjall_engine.rs`, `src/storage/parquet_exporter.rs` | none (the sequence number is the writer's) | `encode_key()`, `decode_key()`, `cutoff_prefix()`, `entry_micros()`, `encode_value()`, `decode_value()`, `PendingBatch::push()` |
| metric types and sanitizing | `src/types.rs` | none | `MetricEntry::new()`, `sanitize_metric_name()`, `sanitize_labels()` |
| configuration | `src/config.rs`, used in `src/engine.rs` and `src/storage/` | none | presets, builders, `validate()`, the memory budgets, the cutoff of a retention |
| HTTP middleware | `src/middleware/` | none of its own: a future per request | `track()`/`TonggeretService::call()`, `track_visitors()`/`TrackVisitorsService::call()`, `serve_latest()`, the `/metrics` handlers |
| macros, crate root, errors | `src/lib.rs`, `src/error.rs` | none | re-exports |

### How they interact

* Any application thread calls `record()`: it reads `GLOBAL` and `SHUTDOWN`,
  calls `PromRegistry::update()` (which may panic, before the channel is
  reached), then `try_send`s the sample and never waits.  A full or a closed
  channel costs the sample, and two counters say so.
* `init()` opens the keyspace, races for `GLOBAL`, then spawns the writer and a
  compaction task, storing their handles one static at a time.
* The writer blocks on the channel, drains a burst into a batch, inserts the
  batch row by row, and leaves its loop on the sentinel `PipelineMsg::Shutdown`.
* `shutdown()` swaps `SHUTDOWN`, tries to send the sentinel, joins the writer,
  aborts the compaction task and persists the keyspace.
* The compaction task shares only the keyspace with the writer.  Its passes run
  in `spawn_blocking`, which `abort()` cannot reach.
* Visitor calls and the snapshot task share the tracker's mutex, taken only by
  `try_lock()`; the snapshot records its gauges through `record()` while holding
  it.
* A request passes the visitor layer, which counts its visit and offers it to
  the sketch, then the inner service, at whose `await` it can be dropped, then
  the tracking layer's two `record_*()` calls.  A `shutdown()` in between
  silences the rest.
* The writer fills the partition the compaction loops empty; a loop publishes
  files the download route resolves by name and opens later.
* `shutdown()` is awaited in `main()`, so the process ends behind one of its
  callers, whatever still runs.

### What is hard here

Senders, the sentinel and the end of the writer meet in one queue; a lifecycle
of five statics is changed one access at a time by racing `init()` and
`shutdown()` calls; compaction removes rows in small steps around one rename and
can be cut short, or doubled, at each; collectors are created lazily under three
locks over one shared registry; gauges are set from sketches that move on;
requests are dropped half-way; the process ends over a queue, a partition, a
pass and a file at once; a client polls for files that are replaced.  The
list of hazards, each at its line with the properties that watch it, is
`hazards` in `PROJECT.json`.

### What makes each component correct

* *engine*: an accepted sample is in one place once; nothing accepted before
  `shutdown()` is lost by it; drops are counted; afterwards the store is quiet;
  no leaked keyspace or task.
* *compaction*: only expired rows move; a row is in one tier; published files
  are complete; nothing vanishes.
* *registry*: what a map holds is what a scrape shows; a race loses no sample;
  label keys and values belong together.
* *both tiers together*: an exit behind `shutdown()` costs what a pass has in
  hand and nothing else that was accepted before it; a client that is answered
  often enough reads every exported row.
* *visitors*: a sketch depends on the set of visitors alone; the number of
  regions is bounded; no gauge gives way to one of an older sketch, and none
  stays behind.
* *middleware*: the visit, the request and its duration agree with each other;
  every visit is counted once, under the country its headers name.
* *codec*: keys decode, sort by time and are cut off exactly; an exported row
  says what was observed.
* *sanitizing*: what leaves it is valid and short enough, whatever came in.
* *configuration*: `init()` accepts what the documentation allows; no retention
  makes a pass take a row too early.

## 2. Modules

| module | models | extends |
|---|---|---|
| `SamplePipe` | abstract: a bounded FIFO from the hot path to the store with a sentinel | |
| `Engine` | `engine.rs` with the writer thread of `fjall_engine.rs` | |
| `EngineProperties` | its properties, the refinement of `SamplePipe`, the inductive invariants | `Engine` |
| `EngineProofs` | TLAPS proofs: types, what `shutdown()` flushes, stragglers; keyspaces, the last barrier, compaction loops; the way of a sample, the refinement and the drop counters | `EngineProperties` |
| `Tiering` | abstract: rows in one of two tiers, moved once | |
| `Compaction` | `parquet_exporter.rs` over the partition and the directory | |
| `CompactionProperties` | its properties, the refinement of `Tiering` | `Compaction` |
| `CompactionProofs` | TLAPS proofs: what leaves the partition, what the exports hold, the refinement of `Tiering` | `CompactionProperties` |
| `ColdReader` | the download route and a client that polls it, around `Compaction` | `CompactionProperties` |
| `Storage` | the composition: `SamplePipe` delivers into the partition of `Compaction`, under `shutdown()` and the end of the process | `CompactionProperties` |
| `StorageProofs` | TLAPS proofs: the exit of the process, the polling client | `Storage`, `ColdReader`, `CompactionProofs` |
| `Registry` | `prometheus.rs` | |
| `RegistryProperties` | its properties and inductive invariant | `Registry` |
| `RegistryProofs` | TLAPS proofs | `RegistryProperties` |
| `Powers` | operator: the powers of a base, as a recursive function | |
| `PowersProofs` | TLAPS proofs: induction and recursion, division, powers | `Powers` |
| `Hll` | the sketch of `visitors.rs` and a reference definition from the bits of the hashes | `Powers` |
| `Visitors` | the tracker and its snapshot tasks | `Hll` |
| `Requests` | the middleware of both frameworks around one tracker | `Visitors` |
| `RequestsProperties`, `RequestsProofs` | properties of the tracker and of the middleware; TLAPS proofs | `Requests` |
| `Sanitize` | operators: the sanitizers | |
| `KeyCodec` | operators: the keys of the hot store | `Powers` |
| `Rows`, `RowsProperties` | an observation from `MetricEntry::new()` through the store to a row of an export; its properties | `Sanitize`, `KeyCodec` |
| `RowsProofs` | TLAPS proofs: sanitizers, keys, rows | `RowsProperties`, `PowersProofs` |
| `Config`, `ConfigProofs` | the configuration, its validation and its retention; TLAPS proofs | |
| `MC*` | constants and symmetries of the instances TLC checks | |

`Engine` implements `SamplePipe` (`PipeSpec`), and `Storage` composes the
abstract pipe, not the engine, with the compaction loops: the two modules
together describe the way of a sample from `record()` to a Parquet file.
`Compaction` in turn implements `Tiering` (`TieringSpec`).

Definitions keep the names of the code where they can.  `PROJECT.json` maps each
of them to its lines.  A definition introduced by a comment "Mutant:" is a
plausible bug of the definition that follows it; nothing uses it except the
comparison that shows that a property would notice.

### State and actions of the engine

`global`, `stop`, `joinSlot` and `slot` are `GLOBAL`, `SHUTDOWN`, `WRITER_JOIN`
and `COMPACTION_TASK`.  `chan`/`rxOpen` are the channel and whether its receiver
lives; `lost` is what was dropped with the receiver.  `writer` is the program
counter of `writer_loop()`: `recv` (`blocking_recv`), `drain` (the burst of
`try_recv`), `flush` (the inserts), `flushLast`/`persist`/`return` (after the
sentinel), `exited`.  Every call of `record()`, `init()`,
`spawn_compaction_task()` and `shutdown()` is a member of a constant set with a
program counter; an action is one access to shared state.  `before` and
`graceful` are history variables that record, at the swap of `SHUTDOWN`, which
samples had been accepted and whether an `init()` was half-way.

The relaxed load of `SHUTDOWN` is modelled as sequentially consistent; a stale
read only lets a `record()` pass as one that read a moment earlier does, which
the model has.  The model keeps one channel: two handles never take samples,
because `GLOBAL` is set once.

### State and actions of compaction

Rows are numbered in insertion order and stamped in ticks; names of files carry
the second (`TicksPerSecond`).  A pass is `PassBegin` (cutoff and range),
`PassRow` (one row of the scan, opening the export with the first),
`PassFlush`/`PassRemove` (a chunk is handed to the writer, its keys removed one
by one), `PassClose`, `PassRename`; `PassError` is any `?` on the way, and
`Crash` the end of the process.  What was handed to the operating system
survives a crash of the process, so `persist()` has no effect in this model.
A crash may come at any time, between passes too; a loop then sleeps an interval
before its next pass, as a fresh one does.
Passes without an expired row are left out: they change nothing but the time of
the next pass, and `PassBegin` may start whenever the interval is over.  A row
that another loop has removed may or may not be yielded by a scan.  Rows inserted after a pass began
are younger than its cutoff (`Lag <= Retention`: the time between a sample's
stamp and its insert is shorter than the retention).  A key that does not decode
cannot come out of `encode_key()`, so the branch that skips it is left out.

### State and actions of the registry

An observation is a kind, a name and its label keys.  `registered` is the shared
registry, `map` the three maps, `readers`/`writer` their locks.  `ReadLock` and
`Lookup` are the fast path, `WriteLock` (with the second lookup), `Register` and
`Insert` the slow one, `Observe` the call of `with_label_values()`, which files
by position and panics on a wrong number.  Nothing panics while a lock of the
registry is held, so these locks are never poisoned.

### State and actions of the readers and of the composition

`ColdReader` adds a client.  `Resolve` is `latest_cold_file()`, which puts the
name it found, and what the answer will be worth, into `asked`.  A full listing
finds the newest name; one that breaks off (`.ok()?` and `.flatten()` drop every
error) finds any name, or none.  `Serve` is the open and read of `ServeFile`,
which is not part of the crate, `Fail` a download that breaks off.  Compaction
steps and errors come between them, and `Crash` takes a request in flight with
the process.  `polled` is the time up to which the client knows of exports; only
a download that ends, or a 404, behind a full listing moves it on, to the time
of that listing.  `Due` assumes of the client that this happens at least once in
every `Period` ticks; how much else it asks in vain is left open.

In `Storage` a sample is accepted (`Accept`), delivered by the writer
(`Deliver`: stored, which is an `Insert` of `Compaction`, or refused), and its
row moved by the loops.  `halt` is the place of each `shutdown()`: swap, send,
join, done, or `already` for a caller that found `SHUTDOWN` set.  Whether the
last two accesses of `shutdown()`, the abort and the persist, happen at once
makes no difference to what a process that ends leaves behind: a started pass is
not stopped, and a row in the partition is with the operating system.  `Exit`
ends everything behind a caller that has returned.  `collided` records that two
passes met in one file name, which the code does not prevent.

### Visitors and requests

`ObserveCount`, `ObserveLock`, `ObserveFold` are `observe()`;
`SnapshotLock`, `SnapshotEstimate`, `SnapshotRecord`, `SnapshotEnd` are
`snapshot()`, region by region.  A gauge is modelled by the sketch it was
computed from: sketches are ordered by what was folded into them, estimates are
not (section 3).
`clash`, chosen in the initial state, says what else the application uses the
gauge's name for.  With `"labels"`, a gauge with another number of label keys,
`record_gauge()` panics with the mutex held and poisons it (the profile of the
crate unwinds); with `"kind"`, a counter or a histogram, the registry drops the
sample.  The clamp of `rho` to 255 never applies
(`rho <= 64 - P + 1`, or 65 for a zero remainder), so it is left out.

A request has a shape (its headers and its connection), from which
`ParseRegion` and `VisitorKey` compute its visit; the hash of a key is any
function (`Digest`).  The Axum layer falls back to the peer with its port, the
Actix-web layer to `realip_remote_addr()`, which reads the proxies' headers
(`real`) before the peer.  `stage` is where its future stands: in the inner service,
before the counter, before the histogram, done, or dropped.  The Actix-web layer
has a path of its own for an `Err` of the service (`Err`), which records like
the other.  The engine is initialised before the first request and may be shut
down at any step.

### Rows, keys, sanitizers

`Rows` lets one input grow, to check the operators of `Sanitize` on every short
one, and inserts observations, to check `KeyCodec` and the payload on every
short sequence.  The JSON payload is the record it stands for: labels become a
map, in which the last of equal keys wins, and a number that JSON does not have
becomes null.  A number is read back as `Parsed` says: `serde_json` without
`float_roundtrip` (`Cargo.toml:23`) gives short decimals back as they are
(`Short`) and may be off in the last place of a long one.

Keys are sequences of bytes in any base; `Half` is the number of digits that
sort before `:`.  The comment at `src/storage/fjall_engine.rs:98-99`, that `:`
sorts below every hexadecimal digit, is wrong for 0–9 but harmless: `CutoffExact`
and `ScanInOrder` rest on the fixed widths.

Strings of the sanitizers are sequences of character classes; `wide` takes
`Width` bytes, which is what byte limits are sensitive to.

### Configuration

`Config` starts from a preset (`DefaultLight`, `DefaultFull`, and the derived
`Default`), applies overrides, calls `init()`, and then lets time pass, rows
come and passes run under the retention it was given.  `Verdict` is `validate()`
with its order: the first limit that is not met gives the error its name.  A
pass takes any part of what is due, since an error may end it and a removal that
fails is only logged.  `MaxSpan` and
`BeforeEpoch` are the limits of `chrono`, where `from_std()` fails and the
subtraction panics; the compaction loop survives both.

## 3. Runs

### Passing

| run | instance | shows |
|---|---|---|
| `engine_pipeline` | 4 `record()`, 1 `init()`, 1 `shutdown()`, capacity 2, bursts of 2, 2 tries for the sentinel | types; where every sample goes (`SampleOnce`), the books of drops (`DropAccounting`), what `shutdown()` guarantees (`ShutdownFlushes`, `ShutdownDurable`, `OnlyStragglersLost`, `QuietAfterShutdown`), and that the engine implements `SamplePipe` (`PipeSpec`) |
| `engine_lifecycle` | 1 `record()`, 2 `init()` (one without Fjall), 1 `spawn_compaction_task()`, 2 `shutdown()`, capacity 1, bursts of 2; fair | with racing lifecycles, no leaked keyspace (`KeyspaceOwner`), no compaction loop of `init()` left running (`InitTaskStops`); `ShutdownReturns` once the sentinel is queued, and `SamplesDrain` |
| `compaction_faults` | 1 loop, 3 rows, chunks of 2, a client answered at least once a tick while the interval is two; crashes at any time, errors, failing removals, listings and downloads | `AtMostOnce`, `WholeFiles`, that compaction implements `Tiering`, faults included (`TieringSpec`), and that the client has the rows of every export that was overtaken (`PollerMissesNothing`) |
| `storage_exit` | 2 samples through a pipe of 2, 2 loops with chunks of 1, 2 racing `shutdown()` calls, an exit behind either | types, `ExpiredOnly` with two loops, and what the exit costs (`ExitCost`) |
| `registry_update` | 3 calls over 2 names, 3 lists of label keys, 3 kinds; fair | types, lock discipline and inductive invariant; `OnlyConflictsDropped`, `StableKeysSafe`, `CallsReturn`; no deadlock |
| `requests_tracked` | 1 Axum and 1 Actix-web request, each of 2 shapes, 1 direct visit, 2 snapshot tasks, a `shutdown()`, cap 1, 3 hashes of 4 bits; fair | types and the lock, `SketchesExact`, `RegionsCapped`, `GaugeNeverStale`, `GaugesCatchUp`; `VisitsByCountry` and `SeriesAgree` of the middleware |
| `rows` | every name of up to 4 characters, up to 3 labels out of 24; 3 observations over 7 timestamps, with colons in names, labels that become equal, one restart, sequence numbers that turn over | `NamesValid`, `KeysValid`, `CapCountsUsable`; `ScanInOrder`, `CutoffExact`, `OverwriteNeedsRestart`, `RowFaithful` |
| `config_start` | 3 presets with any overrides at both sides of each limit, with and without the backend; 3 ticks | `AcceptedAsDocumented`, `RetentionKept` |

### Violations: where the code and its documentation differ

Each run checks one statement of the repository and finds a behaviour of the
code that breaks it; `findings` in `PROJECT.json` quotes the statement.

| run | statement | what happens |
|---|---|---|
| `engine_hang` | `NeverBlocksForever` | the channel stays full for every try, and `shutdown()` joins a writer nobody told to stop |
| `compaction_crash` | `AtLeastOnce` | keys are removed before the file that holds their rows is readable |
| `registry_mismatch` | `MismatchRejected` | other label keys are filed by position, or panic |
| `sanitize_value_cut` | `ValuesTruncated` | a byte limit inside a character panics |

The modules show further behaviours that the properties above are worded
around; they have no run of their own.

* Two `init()` calls can both have the keyspace open before one of them loses
  `GLOBAL.set` (`src/engine.rs:175`), although `src/storage/mod.rs:9-12` says
  that it is opened once.  `KeyspaceOwner` says what holds: the loser closes it.
* An `init()` whose writer cannot be spawned leaves its handle in `GLOBAL`
  (`src/engine.rs:198`).  `OnlyStragglersLost` excepts it.
* `abort()` does not reach a pass that runs in `spawn_blocking`
  (`src/engine.rs:259`); `InitTaskStops` speaks of the loop, not of the pass.
* A `shutdown()` that overlaps the winning `init()` may find no handle to join
  (`src/engine.rs:199`); `graceful` excludes it.
* Two exports published in one second have one name, and the second replaces
  the first (`src/storage/parquet_exporter.rs:228`).  One loop does that only
  with an interval below a second: `compaction_faults` uses one second.
* Two loops whose passes open their exports in one second share the temporary
  file (`src/storage/parquet_exporter.rs:214`).  `WholeFiles` and `AtMostOnce`
  are therefore checked for one loop.
* A snapshot that panics in `record_gauge()` poisons the tracker's mutex
  (`src/visitors.rs:282`), after which every `try_lock()` fails.
  `GaugesCatchUp` excepts it.
* A digit-leading name loses its digit to the underscore
  (`src/types.rs:113`), where the comment at `src/types.rs:102-103` speaks of a
  prefix.
* A second `shutdown()` returns `Ok` while the first one still flushes
  (`src/engine.rs:236`); a process that exits behind it also loses what the
  writer had not stored.  And a pass that runs on when `shutdown()` returns
  loses the rows in its hand, although the doc of `shutdown()` says "stop
  compaction" (`src/engine.rs:229`).  `ExitCost` names both prices.  The second
  is paid by a process that ends without waiting for its blocking threads; a
  `main()` that drops its Tokio runtime waits for a pass that runs, which the
  model does not rely on.
* Without `X-Forwarded-For` a visitor is known to the Axum layer by the peer's
  address and port, to the Actix-web layer by `realip_remote_addr()`, which is
  the address in a `Forwarded` header or else the peer's, without a port: a
  visitor who reconnects is new to the first and the same to the second, although
  `src/middleware/actix.rs:124-126` promises the "same series and header
  contract".  `AxumVisit` and `ActixVisit` differ in that.
* `estimate()` may fall when a visitor is added, where it goes over from linear
  counting to the raw estimate (`src/visitors.rs:172-183`): 4095 registers of
  rank 1 and an empty one give about 34069, and a first visitor in the empty one
  about 5907.  So a gauge may go back although its sketch moves on;
  `GaugeNeverStale` speaks of the sketches.
* When a counter or a histogram has the gauge's name, every export is dropped
  with a warning (`src/prometheus.rs:200-203`).  `GaugesCatchUp` excepts it.
* A request whose client goes away, or whose handler panics, has its visit
  counted and is never in `http_requests_total` (`src/middleware/axum.rs:36`).
  `SeriesAgree` says what holds.
* NaN and infinity are null in the payload and zero in the export
  (`src/storage/fjall_engine.rs:125`).
* A value of 16 or 17 digits, as durations have, may differ in its last place
  between the registry and the export
  (`src/storage/parquet_exporter.rs:239-245`).  `RowFaithful` promises the values
  of `Short` only.
* The sequence number that "disambiguates" equal timestamps and names
  (`src/storage/fjall_engine.rs:12-13`, `README.md:149`) does so within a run and
  short of a full turn.  It starts at zero with each process, so that a row may
  replace one of an earlier run after the clock went back;
  `OverwriteNeedsRestart` says when.
* A removal that fails is only logged (`src/storage/parquet_exporter.rs:195-199`):
  a pass returns `Ok` although rows older than the retention stay, which are
  exported again.  `RetentionKept` says only what a pass may not take.
* Labels whose keys become equal keep one value in the payload
  (`src/storage/fjall_engine.rs:119`).
* `Config::default()` has a capacity of 0, which `init()` rejects, although the
  field's doc gives `16_384` as the default (`src/config.rs:132`).
* The cache and the write buffer of two memtables that `open_handles()` asks for
  are 12 MiB with the defaults; `src/config.rs:23-26` says less than 10.
* A retention that `chrono` cannot represent, or that goes back beyond its
  dates, makes every pass end in an error or a panic: rows only stay.
* Each range request of a download resolves the newest export again
  (`src/middleware/axum.rs:163`), so ranges of one download may come from two
  files.

### Bounds, and why they are enough

* *Engine*: a capacity of 2 with bursts of 2 and four samples gives a full and an
  overfull channel, a burst that ends by size, by emptiness and by the sentinel,
  and samples on both sides of the sentinel.  All the safety properties,
  the refinement included, are proved for all bounds (section 5).  Retries are
  bounded by the code itself (`Attempts`, 100 there); `tries` counts them.
* *Compaction*: three rows with chunks of two give a full chunk and a rest, so a
  pass can be cut between chunks; six ticks at two ticks a second and an
  interval of two give consecutive passes in different seconds, the second of
  which replaces the first as the newest while a poll is under way, and a crash
  before, between and after them.  `MaxRows`,
  `MaxNow` and `MaxFiles` bound inserts, the clock and file creations.  Every
  property is proved for all bounds, with one loop where the run has one.
* *Both tiers*: with two loops, an interval of one tick and two ticks a second,
  passes overlap and their exports meet in one second; two samples give one in
  hand and one queued at the exit.  Proved for every number of loops, callers and
  samples.
* *Registry*: three calls give a winner, a racer that finds the collector under
  the write lock, and a third of another kind or other keys.  The lists of
  label keys are one of length zero, one of length one and an invalid one;
  `registry_mismatch` adds a second list of length one.  All of it but
  `CallsReturn` is proved for every value.
* *Visitors*: three hashes of four bits with one index bit give two registers,
  equal and different ranks in one register, and the hash whose remaining bits
  are all zero.  With a cap of one and a country, an unknown region and "other"
  the cap is met by whichever comes first.
* *Requests*: two requests and a direct visit compete for the lock with two
  tasks; the two shapes have a junk header before and after a valid one, none at
  all, and a forwarded address or a blank one with a real address that is not
  the peer's.  All the safety properties of
  visitors and requests are proved for every value.
* *Rows*: one digit on either side of `:` in base 2 and three digits give every
  order of digit and colon, and a timestamp past the last value of the column;
  two sequence numbers turn over in three rows; the values are a short one, a
  long one that JSON gives back as its neighbour, and NaN.  Proved for every base, width and
  history.
* *Sanitizers*: limits of two to three bytes with characters of one and two
  bytes put the limit before, at, inside and after a character.  What holds is proved for
  names and label lists of every length, and for every limit.
* *Configuration*: every override is at, just below or above its limit, and the
  retentions lie on both sides of the epoch and
  of both limits of `chrono`.  Proved for every value.

Deadlock checking is off where the system may legitimately stop: the engine
after a shutdown or without further calls, compaction when its clock reaches
`MaxNow`, `Storage` when the process has exited, requests that are all answered
with a poisoned tracker, a rejected configuration, and the bounded inputs of
`Rows`.  It is on for the registry, whose only resting state
is that every call returned.

## 4. Fairness

* `Engine!Fairness`: weak fairness for a thread that is *inside* one of the
  functions and for the writer.  They are ordinary threads, `try_send` does not
  wait, and the only waits (`blocking_recv`, the join, the sleep between tries)
  are guards.  That an application calls `init()`, `record()` or `shutdown()` at
  all is not assumed, nor that a compaction pass ends.
* `Registry!FairSpec`: weak fairness per call.  The locks of `std` are held
  across a few map operations and never across a wait.  Where acquisition could
  starve a call for ever, weak fairness would not be enough; with finitely many
  calls it is.
* `Requests!FairSpec`: weak fairness per visit and for the snapshot tasks
  *together*: one of them that finds the lock taken gives up, but then another
  has it.  Clients and handlers may stop at any await, and no request need be
  made or answered.

`Compaction`, `ColdReader`, `Storage`, `Rows` and `Config` have no fairness:
their properties are about what may have happened, however slow a pass, a client
or the application is.

## 5. Proofs

TLAPS proves the following for every value of the constants, from the
assumptions named in the modules that declare them.

**`EngineProofs`**, from `EngineAssumption`.

* `TypeCorrect`: `Spec => []TypeOK`; the channel never exceeds its capacity nor
  the burst its limit.
* `Invariance`: `Spec => [](TypeOK /\ Inductive)`.
* `ShutdownKeepsSamples`: `Spec => []ShutdownFlushes`.
* `StragglersOnly`: `Spec => []OnlyStragglersLost`.
* `Quiet`: `Spec => QuietAfterShutdown`.

`ShutdownFlushes` is not inductive: it speaks of the end of a chain that starts
at the swap of `SHUTDOWN`.  `Inductive` follows the chain.  One `shutdown()` and
one `init()` win (`OneShutdown`, `OneInit`); the writer's handle stays where
`shutdown()` finds it, unless an `init()` was half-way (`HandleStored`), so it
is joined; what was accepted before the swap stands before the sentinel in the
channel (`SentinelLast`) and is in the channel, the batch or the store all the
while (`NothingForgotten`); so an exited writer has handed all of it to the
store.

Over the same invariant, of the lifecycle:

* `OneOwner`: `Spec => []KeyspaceOwner`.
* `Barrier`: `Spec => []ShutdownDurable`.
* `LoopStops`: `Spec => []InitTaskStops`.

An `init()` that has opened its keyspace holds it until `GLOBAL` decides
(`Holding`).  The joined writer stores nothing after the barrier.  A running loop
belongs to the `init()` that won, which is either about to fill the slot or has
(`Slotted`); a graceful `shutdown()` finds it there, and no `init()` is left to
start another (`Aborted`).

And of the way of a sample:

* `PipeInvariance`: `Spec => [](TypeOK /\ Inductive /\ PipeInv)`.
* `EachSampleOnce`: `Spec => []SampleOnce`.
* `EngineImplementsPipe`: `Spec => PipeSpec`, the refinement.
* `DropsCounted`: `Spec => []DropAccounting`.

`OnePlace` is `SampleOnce` place by place: no two of store, channel, batch,
refused and lost share a sample, and none holds one twice.  It is inductive only
with the state of the receiver (`Receiver`) and with the one sentinel that the
winning `shutdown()` sends (`SentinelOnce`).  The mapping gives the abstract pipe one
queue: the batch, then the sentinel if the writer has received it and has not
yet ended, then the channel.  A receive moves a sample inside that queue and is
a stutter, an insert is the delivery, and the end of the writer closes the pipe
with what is left in it.  `Accounted` ties both counters to where each
`record()` stands, one access at a time; between the two increments they differ,
which is why `DropAccounting` speaks of resting calls.

**`RegistryProofs`**, from `RegistryAssumption`.

* `RegistryInvariance`: `Spec => [](TypeOK /\ Inductive)`; `TypeOK` includes the
  lock discipline.
* `RegistryTypes`: `Spec => []TypeOK`.
* `NoLostFirst`: `Spec => []OnlyConflictsDropped`.
* `StableKeys`: `Spec => []StableKeysSafe`.

Here the invariant ties the two places of a collector together: what a map holds
is registered (`MapsExported`); what is registered is in its map or about to be
inserted by a call that holds the write lock (`NothingStranded`); between the
second lookup and the insert the name is still missing (`Rechecked`); a call
holds the collector of its map (`VecMapped`); and collectors come from
observations (`Provenance`).  A refused registration then has a conflict as its
only explanation: a collector of the caller's own kind would have been found by
the second lookup, and one about to be inserted would mean another holder of the
caller's write lock.

**`CompactionProofs`**, from `CompactionAssumption`.

* `OnlyExpiredLeave`: `Spec => []ExpiredOnly`.

`ExpiredOnly` alone says nothing of a row that is about to be removed.  The
invariant adds `HeldExpired`: the rows a pass has still to scan, has buffered or
is removing are older than the retention, because they were below the cutoff
when the pass began and the clock only moves on.

Of the exports:

* `ExportTypes`: `Spec => []TypeOK`, with any number of loops.
* `PublishedWhole`, with one loop: `Spec => []WholeFiles`.
* `RowsOnce`, with one loop: `Spec => []AtMostOnce`.
* `Tiers`, with one loop and an interval of at least a second:
  `Spec => TieringSpec`, the refinement.

The hypothesis of one loop is what the code needs, not the proof: two loops can
share a temporary file.  The invariants follow the one pass: `OneName` says what
the names in the directory stand for, `Hands` ties the file the pass writes and
the rows it has in hand to its place, `Apart` keeps rows, files and hands
disjoint.  For the refinement `Spaced` adds that the last export is of an
earlier second than the next one can be, since a pass begins an interval after
the last ended; so a rename never replaces a file, and is the one step of
`Tiering` that moves rows.

**`StorageProofs`**, from `StorageAssumption`, `ColdReaderAssumption` and
`CompactionAssumption`.

* `StorageInvariance`: `StorageSpec => [](TypeOK /\ ExpiredOnly)`.
* `ExitLoses`: `StorageSpec => []ExitCost`, with any number of loops and of
  `shutdown()` calls.
* `ReadersHarmless`, with one loop: `ReaderSpec => [](WholeFiles /\ AtMostOnce)`.
* `PollerReadsAll`, with one loop: `ReaderSpec => []PollerMissesNothing`.

The first and third carry what `CompactionProofs` shows over to the
compositions, whose steps are steps of `Compaction`.  `ExitCost` rests on two
invariants that do not know of each other: `PipeHolds`, that the samples
accepted before the swap are queued, stored or discarded, and that the queue is
empty once the writer has been joined; and `Unmet`, that as long as no
step failed and no two passes met in a name each pass writes a file of its own,
so that every stored row is in the partition, in an export or in the hands of a
pass.  For the poller, `Answer` says what the request in flight will be worth
once it is served, and `Polling` that an export the client has not read is the
newest one and was published after the time up to which the client is answered.
A pass begins no sooner than an interval after the last one ended, or died, and
the client is answered more often than that, so the next rename finds the export
read.  Requests that fail or die leave both as they were.

**`RowsProofs`**, from `KeyCodecAssumption` (a base of two or more, one digit or
more for each field), `SanitizeAssumption` (limits are positive, wide characters
take more than a byte) and `RowsAssumption` (short decimals are read back as they
are, finite values as finite ones), over `RowsInv`, and with the lemmas of **`PowersProofs`**.

* `SanitizedNames`: `Spec => []NamesValid`, and `CutKeys`: `Spec => []KeysValid`.
* `CapCounts`: `Spec => []CapCountsUsable`.
* `ScanOrder`: `Spec => []ScanInOrder`, and `CutoffIsExact`:
  `Spec => []CutoffExact`.
* `Overwrites`: `Spec => []OverwriteNeedsRestart`.
* `RowsFaithful`: `Spec => []RowFaithful`.

Most of this is about operators.  Two numbers of one width differ first at some
digit, where the larger has the larger byte, whichever side of `:` the digits
sort on; keys are compared place by place up to the first difference, which lies
in the timestamps unless these are equal.  What was formatted is read back, by
induction over the digits.  For labels, the rank of a label among those with a
key that is not blank decides whether it is kept, and where.  `RowsInv` adds the
history: a row is under the key and with the payload of its observation
(`Encoded`), the sequence numbers count within a run (`Counted`), and a key holds
the row inserted last under it (`Held`); so two rows of one run under one key are
a multiple of the modulus apart.

Recursion is written with recursive functions (`PowersOf`, `Value` of
`KeyCodec`, `Kept` of `Sanitize`).  The induction and recursion theorems of the
library take operators, which the installed provers cannot instantiate:
`PowersProofs` states induction for sets (`Induction`) and recursion for
functions (`Recursion`), both from the well-foundedness of the natural numbers.

**`RequestsProofs`**, from `HllAssumption`, `VisitorsAssumption`,
`RequestsAssumption` and `DigestAssumption` (hashes are in the range of the
sketch's).

* `TrackerTypes`: `Spec => []TypeOK`; `TypeOK` includes that the lock is held
  by exactly the one visit or task that is inside.
* `CapHolds`: `Spec => []RegionsCapped`.
* `GaugesInOrder`: `Spec => GaugeNeverStale`.
* `CountedOnce`: `Spec => []VisitsByCountry`.
* `SeriesTogether`: `Spec => []SeriesAgree`.
* `SketchesStand`: `Spec => []SketchesExact`.

`GaugeNeverStale` needs that a gauge, and the value about to be recorded, lie
below the sketch they came from (`Exporting`), which holds because only the
holder of the lock folds or records and registers only grow.
`CountedOnce` needs that a total holds a visit only behind the step that counts
it, under its own region (`Totals`), and that the region of a request is the
first code of its headers; `SeriesTogether` that a request past the service is
past its visit (`Series`) and that a shut-down engine never comes back on.
`SketchesExact` compares the registers with a reference made from the bits of
the hashes, for every width: the leading zeros of the shifted hash end at its
first one bit (`RhoIsFirstOne`), and one more hash raises one register at most,
to the maximum (`SketchOfMore`).  A visit counts towards "other" when its region
has no sketch, so a sketch made later would have to take it over; `CapMet` says
why none is: the map was full when the visit was folded, and it never shrinks.

**`ConfigProofs`**, from `ConfigAssumption`.

* `Accepts`: `Spec => []AcceptedAsDocumented`.
* `KeepsRetention`: `Spec => RetentionKept`.

`AcceptedAsDocumented` compares the verdict of the checks, made one after the
other, with all the documented limits at once (`Met`), in both directions: none
is broken where `init()` returns `Ok`, and the one that an error names is.
`RetentionKept` follows the retention through `from_std()`, the subtraction and
the clamp at the epoch.

All the safety properties of the runs and both refinements are proved.  Left to
TLC are:

* `ShutdownReturns`, `SamplesDrain`, `CallsReturn` and `GaugesCatchUp`.  They are
  liveness properties: a proof from weak fairness needs `ENABLED` of an action,
  which the provers do not support.
* The four statements of the runs that end in a violation: they are false.
* That the assumptions on the constants can be met: TLC evaluates each of them
  on an instance.

`WholeFiles`, `AtMostOnce`, `TieringSpec` and `PollerMissesNothing` are proved
for one loop, as they are checked: the passes of two can meet in one temporary
file or in one name (section 3).

## 6. What is not modelled

* `estimate()` of the sketch: floating-point arithmetic.  Nothing is assumed of
  it; gauges are compared by the sketches they come from.
* Parsing inside the headers (what is a two-letter code, where the first entry
  of `X-Forwarded-For` ends) and the hash function: shapes and `Digest` stand
  for their results.
* `truncate_path()`, which cuts at a byte as `Truncate` of `Sanitize` does, and the labels
  of a request, which go to the registry as any others do.
* The `/metrics` handlers: they read the registry and keep no state.  The
  registry's text encoder, for the same reason.
* Byte ranges of a download: `ServeFile` is not part of the crate.
* The Arrow schema and the JSON text, beyond what the trip through it does to a
  number: data without control.
* `cold_dir()`, the memory budgets (`memory_budget_bytes()`, the write buffer of
  `open_handles()`) and the values of histogram buckets: arithmetic and data.
* Macros, re-exports, errors, examples, benchmarks and tests.
* Requests before `init()`: the middleware is modelled around an engine that is
  on, since a `record_*()` before that does what one after `shutdown()` does.
* Loss of the machine (power): the model of a crash is the end of the process.

## 7. Plan

Done, in the order of importance: engine and writer with their abstract pipe,
properties and proofs; compaction with its abstract tiers and their refinement
proof; registry with proofs; visitors and the middleware with proofs; the
composition of both tiers with the exit of the process; the download route;
rows, keys and sanitizers with proofs; configuration with proofs.

Left, to model: liveness of compaction (an expired row eventually leaves the hot
tier when passes do not fail), and histogram buckets.
