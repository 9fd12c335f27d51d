---------------------------- MODULE ConfigProofs ----------------------------
(***************************************************************************)
(* Proofs that init() accepts what the documentation says, and that no     *)
(* accepted retention makes a pass take a row too early, for every default *)
(* and every limit.                                                        *)
(***************************************************************************)
EXTENDS Config, TLAPS

Storages == [cache : Nat, memtable : Nat, batch : Nat, retention : Nat,
             compaction : BOOLEAN]
Configs == [capacity : Nat, fjall : Storages \cup {None}, buckets : BOOLEAN]

(* The clock and the rows are numbers, the configuration is typed, and     *)
(* nothing changes it once init() has its verdict.                         *)
Started ==
  /\ now \in Nat /\ hot \subseteq Nat
  /\ backend \in BOOLEAN
  /\ config \in Configs
  /\ status # "building" => status = Verdict(config)

-----------------------------------------------------------------------------
(* The presets are typed, whichever of them the application takes.         *)
LEMMA StartedInit == Init => Started
<1> SUFFICES ASSUME Init PROVE Started
  OBVIOUS
<1> USE ConfigAssumption DEF Init
<1>1. NewFjall \in Storages
  BY DEF NewFjall, Storages
<1>2. Capacity \in Nat
  OBVIOUS
<1>3. CASE config = DefaultLight
  BY <1>2, <1>3 DEF DefaultLight, Configs, Started
<1>4. CASE config = DefaultFull
  BY <1>1, <1>2, <1>4 DEF DefaultFull, DefaultLight, Configs, Started
<1>5. CASE config = Derived
  BY <1>2, <1>5 DEF Derived, DefaultLight, Configs, Started
<1> QED
  BY <1>3, <1>4, <1>5

(* An override keeps the types, and only init() gives a verdict.           *)
LEMMA StartedStep == ASSUME Started, [Next]_vars PROVE Started'
<1> USE ConfigAssumption
<1>1. CASE Override
  <2>1. /\ now' = now /\ hot' = hot /\ backend' = backend
        /\ status' = "building"
    BY <1>1 DEF Override
  <2>2. ASSUME config' \in Configs PROVE Started'
    BY <2>1, <2>2 DEF Started
  <2>3. ASSUME NEW n \in Nat, config' = [config EXCEPT !.capacity = n]
        PROVE  config' \in Configs
    BY <2>3 DEF Started, Configs
  <2>4. ASSUME config' = [config EXCEPT !.buckets = FALSE]
        PROVE  config' \in Configs
    BY <2>4 DEF Started, Configs
  <2>5. ASSUME NEW f \in Storages, config' = [config EXCEPT !.fjall = f]
        PROVE  config' \in Configs
    BY <2>5 DEF Started, Configs
  <2>6. ASSUME NEW cache \in Caches, NEW memtable \in Memtables,
               NEW batch \in Batches, NEW retention \in Retentions,
               NEW compaction \in BOOLEAN
        PROVE  [cache |-> cache, memtable |-> memtable, batch |-> batch,
                retention |-> retention, compaction |-> compaction] \in Storages
    BY DEF Storages
  <2> QED
    BY <1>1, <2>2, <2>3, <2>4, <2>5, <2>6 DEF Override
<1>2. CASE InitCall
  BY <1>2 DEF InitCall, Started, Verdict
<1>3. CASE Tick
  BY <1>3 DEF Tick, Started, Verdict
<1>4. CASE Record
  BY <1>4 DEF Record, Started, Verdict
<1>5. CASE Pass
  <2>1. hot' \subseteq hot
    BY <1>5 DEF Pass
  <2> QED
    BY <1>5, <2>1 DEF Pass, Started, Verdict
<1>6. CASE UNCHANGED vars
  BY <1>6 DEF vars, Started, Verdict
<1> QED
  BY <1>1, <1>2, <1>3, <1>4, <1>5, <1>6 DEF Next

(* Config::validate() refuses a configuration for a limit that is broken,  *)
(* and accepts it only if none is, whatever the defaults, the limits and   *)
(* the overrides.                                                          *)
THEOREM Accepts == Spec => []AcceptedAsDocumented
<1>1. Started => AcceptedAsDocumented
  <2> SUFFICES ASSUME Started, status # "building"
               PROVE  IF status = "ok"
                        THEN \A limit \in DOMAIN Met(config) : Met(config)[limit]
                        ELSE ~Met(config)[status]
    BY DEF AcceptedAsDocumented
  <2> DEFINE met == Met(config)
             f == config.fjall
  <2>1. status = Verdict(config)
    BY DEF Started
  <2>2. /\ config.capacity \in Nat /\ MinCapacity \in Nat
        /\ MinCache \in Nat /\ MinMemtable \in Nat
        /\ f # None => f.cache \in Nat /\ f.memtable \in Nat /\ f.batch \in Nat
    BY ConfigAssumption DEF Started, Configs, Storages
  <2>3. /\ DOMAIN met = {"channel_capacity", "default_histogram_buckets", "fjall",
                         "cache_size_bytes", "memtable_bytes", "batch_rows"}
        /\ met["channel_capacity"] <=> config.capacity >= MinCapacity
        /\ met["default_histogram_buckets"] <=> config.buckets
        /\ met["fjall"] <=> (f # None => backend)
        /\ met["cache_size_bytes"] <=> (f # None => f.cache >= MinCache)
        /\ met["memtable_bytes"] <=> (f # None => f.memtable >= MinMemtable)
        /\ met["batch_rows"] <=> (f # None => f.batch > 0)
    BY DEF Met
  <2> HIDE DEF met
  <2>4. CASE status = "ok"
    <3>1. /\ config.capacity >= MinCapacity /\ config.buckets
          /\ f # None => /\ backend /\ f.cache >= MinCache
                         /\ f.memtable >= MinMemtable /\ f.batch > 0
      BY <2>1, <2>2, <2>4 DEF Verdict, FjallVerdict
    <3>2. \A limit \in DOMAIN met : met[limit]
      BY <2>3, <3>1
    <3> QED
      BY <2>4, <3>2 DEF met
  <2>5. CASE status # "ok"
    <3>1. ~met[status]
      BY <2>1, <2>2, <2>3, <2>5 DEF Verdict, FjallVerdict
    <3> QED
      BY <2>5, <3>1 DEF met
  <2> QED
    BY <2>4, <2>5
<1> QED
  BY StartedInit, StartedStep, <1>1, PTL DEF Spec

(* A pass of run_compaction_once_blocking() under any accepted retention   *)
(* removes no row that is younger.                                         *)
THEOREM KeepsRetention == Spec => RetentionKept
<1> DEFINE Kept == \A t \in hot \ hot' : now - t > config.fjall.retention
<1>1. ASSUME Started, [Next]_vars PROVE [Kept]_vars
  <2>1. CASE Pass
    <3>1. /\ config.fjall.retention \in Nat /\ now \in Nat /\ hot \subseteq Nat
      BY <1>1, <2>1 DEF Started, Configs, Stores, Storages, Pass
    <3>2. hot \ hot' \subseteq {t \in hot : t < Cutoff(config.fjall.retention)}
      BY <2>1 DEF Pass, Expired
    <3>3. \A t \in Nat : t < Cutoff(config.fjall.retention)
                           => now - t > config.fjall.retention
      BY <3>1 DEF Cutoff
    <3> QED
      BY <3>1, <3>2, <3>3
  <2>2. CASE ~Pass
    <3>1. UNCHANGED vars \/ hot \subseteq hot'
      BY <1>1, <2>2
         DEF Next, Override, InitCall, Tick, Record, vars
    <3> QED
      BY <2>2, <3>1
  <2> QED
    BY <2>1, <2>2
<1> QED
  BY StartedInit, StartedStep, <1>1, PTL DEF Spec, RetentionKept
=============================================================================
