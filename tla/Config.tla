------------------------------- MODULE Config -------------------------------
(***************************************************************************)
(* The configuration (config.rs) from the presets through the overrides to *)
(* init(), and the passes that the retention of an accepted one allows.    *)
(* Numbers of any width; one row at most carries each timestamp.           *)
(***************************************************************************)
EXTENDS Naturals

CONSTANTS
  MinCapacity, MinCache, MinMemtable,  \* 16, 1 MiB, 256 KiB
  Capacity, Cache, Memtable, Batch, Retention,   \* the defaults
  MaxSpan,        \* the longest chrono::Duration
  BeforeEpoch,    \* how long before the epoch chrono::DateTime begins
  Capacities, Caches, Memtables, Batches, Retentions,   \* overrides tried
  None, MaxNow

ASSUME ConfigAssumption ==
  /\ {MinCapacity, MinCache, MinMemtable} \subseteq Nat \ {0}
  /\ Capacity >= MinCapacity /\ Cache >= MinCache /\ Memtable >= MinMemtable
  /\ Batch \in Nat \ {0}
  /\ {Capacity, Cache, Memtable, Retention} \subseteq Nat
  /\ Capacities \cup Caches \cup Memtables \cup Batches \cup Retentions
       \subseteq Nat
  /\ MaxSpan \in Nat /\ BeforeEpoch \in Nat
  /\ MaxNow \in Nat

VARIABLES
  backend,  \* the fjall-backend feature is compiled in
  config,   \* the Config the application builds
  status,   \* "building", or the verdict of init(): "ok", or the limit
            \* that its error names
  now,      \* the clock
  hot       \* the timestamps of the rows in the partition

vars == <<backend, config, status, now, hot>>

NewFjall ==
  [cache |-> Cache, memtable |-> Memtable, batch |-> Batch,
   retention |-> Retention, compaction |-> TRUE]
DefaultLight == [capacity |-> Capacity, fjall |-> None, buckets |-> TRUE]
DefaultFull == [DefaultLight EXCEPT !.fjall = NewFjall]
(* #[derive(Default)]                                                      *)
Derived == [DefaultLight EXCEPT !.capacity = 0]

(* FjallConfig::validate()                                                 *)
FjallVerdict(f) ==
  IF f.cache < MinCache THEN "cache_size_bytes"
  ELSE IF f.memtable < MinMemtable THEN "memtable_bytes"
  ELSE IF f.batch = 0 THEN "batch_rows" ELSE "ok"

(* Mutant: the limit itself is refused.                                    *)
VerdictAbove(c) ==
  IF c.capacity <= MinCapacity THEN "channel_capacity"
  ELSE IF ~c.buckets THEN "default_histogram_buckets"
  ELSE IF c.fjall = None THEN "ok"
  ELSE IF backend THEN FjallVerdict(c.fjall) ELSE "fjall"

(* Config::validate(): the first limit that is not met decides.            *)
Verdict(c) ==
  IF c.capacity < MinCapacity THEN "channel_capacity"
  ELSE IF ~c.buckets THEN "default_histogram_buckets"
  ELSE IF c.fjall = None THEN "ok"
  ELSE IF backend THEN FjallVerdict(c.fjall) ELSE "fjall"

Init ==
  /\ backend \in BOOLEAN
  /\ config \in {DefaultLight, DefaultFull, Derived}
  /\ status = "building" /\ now = 0 /\ hot = {}

(* with_channel_capacity(), with_fjall(), and fields set by hand.          *)
Override ==
  /\ status = "building"
  /\ \/ \E n \in Capacities : config' = [config EXCEPT !.capacity = n]
     \/ config' = [config EXCEPT !.buckets = FALSE]
     \/ \E cache \in Caches, memtable \in Memtables, batch \in Batches,
           retention \in Retentions, compaction \in BOOLEAN :
          config' = [config EXCEPT !.fjall =
            [cache |-> cache, memtable |-> memtable, batch |-> batch,
             retention |-> retention, compaction |-> compaction]]
  /\ UNCHANGED <<backend, status, now, hot>>

(* init() validates before it does anything else.                          *)
InitCall ==
  /\ status = "building"
  /\ status' = Verdict(config)
  /\ UNCHANGED <<backend, config, now, hot>>

-----------------------------------------------------------------------------
Stores == status = "ok" /\ config.fjall # None

Tick ==
  /\ Stores /\ now < MaxNow
  /\ now' = now + 1
  /\ UNCHANGED <<backend, config, status, hot>>

Record ==
  /\ Stores
  /\ hot' = hot \cup {now}
  /\ UNCHANGED <<backend, config, status, now>>

(* Mutant: instead of a cutoff before the epoch, everything is due.        *)
CutoffNow(retention) == IF now >= retention THEN now - retention ELSE now

(* A cutoff before the epoch is the epoch.                                 *)
Cutoff(retention) == IF now >= retention THEN now - retention ELSE 0

(* What a pass may take.  from_std() refuses what no chrono::Duration can  *)
(* hold, and a date that no DateTime can hold panics in the blocking       *)
(* thread; either ends the pass before its scan.                           *)
Expired(retention) ==
  IF retention > MaxSpan \/ now + BeforeEpoch < retention THEN {}
  ELSE {t \in hot : t < Cutoff(retention)}

(* One pass.  Errors end it early, and removals that fail are only logged. *)
Pass ==
  /\ Stores /\ config.fjall.compaction
  /\ \E taken \in SUBSET Expired(config.fjall.retention) : hot' = hot \ taken
  /\ UNCHANGED <<backend, config, status, now>>

Next == Override \/ InitCall \/ Tick \/ Record \/ Pass

Spec == Init /\ [][Next]_vars

-----------------------------------------------------------------------------
(* The limits that the docs and the error messages name.                   *)
Met(c) ==
  LET stored(limit) == c.fjall # None => limit
  IN [channel_capacity |-> c.capacity >= MinCapacity,
      default_histogram_buckets |-> c.buckets,
      fjall |-> stored(backend),
      cache_size_bytes |-> stored(c.fjall.cache >= MinCache),
      memtable_bytes |-> stored(c.fjall.memtable >= MinMemtable),
      batch_rows |-> stored(c.fjall.batch > 0)]

(* init() accepts a configuration exactly when every limit is met, the     *)
(* limit itself included, and an error names one that is not.  So both     *)
(* presets are accepted, one with storage only where it is compiled in; the*)
(* derived default never is as it stands (validate).                       *)
AcceptedAsDocumented ==
  status # "building" =>
    IF status = "ok" THEN \A limit \in DOMAIN Met(config) : Met(config)[limit]
    ELSE ~Met(config)[status]

(* Whatever retention an accepted configuration has, longer than the epoch *)
(* or than chrono's dates included, a pass takes no row that is younger    *)
(* (run_compaction_once_blocking, compaction_loop).                        *)
RetentionKept ==
  [][\A t \in hot \ hot' : now - t > config.fjall.retention]_vars
=============================================================================
