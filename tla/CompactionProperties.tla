------------------------ MODULE CompactionProperties ------------------------
(***************************************************************************)
(* What compaction promises about the rows it moves.                       *)
(***************************************************************************)
EXTENDS Compaction

Published == UNION {body[cold[s]] : s \in {s \in Seconds : cold[s] \in whole}}

(* The rows a running pass has handed to its writer.                       *)
Moving == UNION {written[l] : l \in Loops}

(* Every variable holds a value of its kind; a pass in its removal step    *)
(* has keys to remove and an open file, one about to rename has no keys.   *)
TypeOK ==
  /\ now \in 0 .. MaxNow
  /\ ts \in Seq(0 .. MaxNow) /\ Len(ts) <= MaxRows
  /\ hot \subseteq Rows
  /\ pc \in [Loops -> {"sleep", "scan", "remove", "rename"}]
  /\ rest \in [Loops -> 0 .. MaxNow]
  /\ {scan, pend, keys, written} \subseteq [Loops -> SUBSET Rows]
  /\ out \in [Loops -> Files \cup {None}]
  /\ tmpAt \in [Loops -> Seconds \cup {None}]
  /\ {tmp, cold} \subseteq [Seconds -> Files \cup {None}]
  /\ body \in [Files -> SUBSET Rows]
  /\ whole \subseteq Files /\ torn \subseteq Files
  /\ made \in 0 .. MaxFiles
  /\ failed \subseteq Faults
  /\ \A l \in Loops :
       /\ pc[l] = "remove" => keys[l] # {} /\ out[l] # None
       /\ pc[l] = "rename" => out[l] # None /\ written[l] # {}
       /\ Cardinality(pend[l]) <= Chunk

(* cutoff_prefix bounds the scan: however late a row was inserted, only a  *)
(* row older than the retention ever leaves the partition                  *)
(* (run_compaction_once_blocking, PendingBatch::flush).                    *)
ExpiredOnly == \A r \in Rows \ hot : ts[r] + Retention < now

(* A row is never in two published exports, nor both published and still   *)
(* in the partition, whatever crashes and errors cut passes short: a chunk *)
(* is removed before the file that holds it is renamed.  Only a removal    *)
(* that failed, which PendingBatch::flush only logs, exports a row again.  *)
AtMostOnce ==
  "remove" \notin failed =>
    /\ Published \cap hot = {}
    /\ \A s, t \in Seconds :
         s # t /\ cold[s] \in whole /\ cold[t] \in whole =>
           body[cold[s]] \cap body[cold[t]] = {}

(* A file under a published name is complete: finalize_export closes the   *)
(* writer before it renames.                                               *)
WholeFiles == \A s \in Seconds : cold[s] # None => cold[s] \in whole

(* "At-least-once cold delivery" (the module documentation of              *)
(* parquet_exporter.rs): an inserted row is in the partition, in a         *)
(* published export, or in the hands of the pass that moves it.            *)
AtLeastOnce == Rows \subseteq hot \cup Published \cup Moving

(* While no two exports are published in one second, the two tiers         *)
(* implement the specification of Tiering: run_compaction_once_blocking    *)
(* moves a set of rows at once, when its file gets the published name, and *)
(* each fault costs what Tiering says and no more.                         *)
Tier == INSTANCE Tiering
          WITH Row <- 1 .. MaxRows, hot <- hot \cup Moving, cold <- Published
TieringSpec == Tier!Spec
=============================================================================
