----------------------------- MODULE Compaction -----------------------------
(***************************************************************************)
(* Hot-to-cold compaction: the background loops that move expired rows of  *)
(* the Fjall partition into Parquet files (storage/parquet_exporter.rs).   *)
(* A pass scans the rows below its cutoff in key order, hands them in      *)
(* chunks to an ArrowWriter and removes each chunk's keys, then closes the *)
(* temporary file and renames it.  Rows are numbered in insertion order,   *)
(* time passes in ticks, and file names carry the whole second.            *)
(***************************************************************************)
EXTENDS Naturals, Sequences, FiniteSets

CONSTANTS
  Loops,           \* the compaction loops that are running
  Chunk,           \* ROWS_PER_BATCH
  Retention,       \* FjallConfig::retention, in ticks
  Interval,        \* FjallConfig::compaction_interval, in ticks
  TicksPerSecond,
  Lag,             \* most ticks between a sample's timestamp and its insert
  Faults,          \* what may fail: "crash", "io" and "remove"
  None,            \* no file
  MaxRows, MaxNow, MaxFiles   \* bounds on inserts, the clock and file creations

ASSUME CompactionAssumption ==
  /\ Chunk \in Nat \ {0} /\ TicksPerSecond \in Nat \ {0}
  /\ Retention \in Nat /\ Interval \in Nat
  /\ Lag \in 0 .. Retention   \* no sample is due when it is inserted
  /\ Faults \subseteq {"crash", "io", "remove"}
  /\ MaxRows \in Nat /\ MaxNow \in Nat /\ MaxFiles \in Nat
  /\ None \notin Nat

VARIABLES
  now,        \* the clock
  ts,         \* timestamps of the rows inserted so far
  hot,        \* the rows in the partition
  pc,         \* where each loop stands
  rest,       \* when its last pass ended
  scan,       \* the rows its range scan has still to yield
  pend,       \* PendingBatch: the rows buffered, with their keys
  keys,       \* the keys it is removing
  written,    \* the rows handed to its ArrowWriter
  out,        \* the file its ArrowWriter writes, and ...
  tmpAt,      \* ... the second in the temporary name it opened
  tmp, cold,  \* the directory: temporary and published names, by second
  body,       \* the rows a reader of each file finds
  whole,      \* files closed with a footer that matches their bytes
  torn,       \* files truncated under an open writer
  made,       \* file creations so far
  failed      \* history: the faults that have struck so far

store == <<ts, hot>>
directory == <<tmp, cold>>
contents == <<body, whole, torn, made>>
vars == <<now, store, pc, rest, scan, pend, keys, written, out, tmpAt,
          directory, contents, failed>>

Rows == 1 .. Len(ts)
Files == 1 .. MaxFiles
Second(t) == t \div TicksPerSecond
Seconds == 0 .. Second(MaxNow)

Init ==
  /\ now = 0 /\ ts = <<>> /\ hot = {}
  /\ pc = [l \in Loops |-> "sleep"] /\ rest = [l \in Loops |-> 0]
  /\ scan = [l \in Loops |-> {}] /\ pend = [l \in Loops |-> {}]
  /\ keys = [l \in Loops |-> {}] /\ written = [l \in Loops |-> {}]
  /\ out = [l \in Loops |-> None] /\ tmpAt = [l \in Loops |-> None]
  /\ tmp = [s \in Seconds |-> None] /\ cold = [s \in Seconds |-> None]
  /\ body = [f \in Files |-> {}] /\ whole = {} /\ torn = {} /\ made = 0
  /\ failed = {}

Tick ==
  /\ now < MaxNow
  /\ now' = now + 1
  /\ UNCHANGED <<store, pc, rest, scan, pend, keys, written, out, tmpAt,
                 directory, contents, failed>>

(* The writer thread inserts a sample that was stamped a little earlier.   *)
Insert ==
  /\ Len(ts) < MaxRows
  /\ \E t \in 0 .. now :
       /\ t + Lag >= now
       /\ ts' = Append(ts, t)
  /\ hot' = hot \cup {Len(ts) + 1}
  /\ UNCHANGED <<now, pc, rest, scan, pend, keys, written, out, tmpAt,
                 directory, contents, failed>>

(* Keys sort by timestamp, then by the writer's sequence number.           *)
Before(q, r) == ts[q] < ts[r] \/ (ts[q] = ts[r] /\ q <= r)
FirstKeys(S) == {q \in S : \A r \in S : Before(q, r)}

Cutoff == IF now >= Retention THEN now - Retention ELSE 0

(* Mutant: the range includes the cutoff and rows younger by one tick.     *)
ExpiredLate == {r \in hot : ts[r] <= Cutoff + 1}

Expired == {r \in hot : ts[r] < Cutoff}

-----------------------------------------------------------------------------
(* One pass: compaction_loop(), run_compaction_once_blocking().            *)

(* The cutoff is fixed at the start.  A row inserted later is younger, so  *)
(* it waits for a later pass.                                              *)
PassBegin(l) ==
  /\ pc[l] = "sleep"
  /\ now >= rest[l] + Interval
  /\ Expired # {}
  /\ pc' = [pc EXCEPT ![l] = "scan"]
  /\ scan' = [scan EXCEPT ![l] = Expired]
  /\ UNCHANGED <<now, store, rest, pend, keys, written, out, tmpAt, directory,
                 contents, failed>>

(* File::create truncates a file of that name, whoever has it open.        *)
Writers(f) == {l \in Loops : out[l] = f /\ pc[l] # "rename"}

OpenExport(l) ==
  LET s == Second(now)
      f == IF tmp[s] = None THEN made + 1 ELSE tmp[s]
  IN /\ f \in Files
     /\ tmp' = [tmp EXCEPT ![s] = f]
     /\ made' = IF tmp[s] = None THEN made + 1 ELSE made
     /\ body' = [body EXCEPT ![f] = {}]
     /\ whole' = whole \ {f}
     /\ torn' = IF Writers(f) # {} THEN torn \cup {f} ELSE torn \ {f}
     /\ out' = [out EXCEPT ![l] = f]
     /\ tmpAt' = [tmpAt EXCEPT ![l] = s]

(* Mutant: a chunk is full one row late.                                  *)
PassRowLate(l) ==
  /\ pc[l] = "scan" /\ scan[l] # {} /\ Cardinality(pend[l]) <= Chunk
  /\ \E r \in FirstKeys(scan[l]) :
       /\ scan' = [scan EXCEPT ![l] = @ \ {r}]
       /\ \/ /\ pend' = [pend EXCEPT ![l] = @ \cup {r}]
             /\ IF out[l] = None THEN OpenExport(l)
                ELSE UNCHANGED <<tmp, body, whole, torn, made, out, tmpAt>>
          \/ /\ r \notin hot
             /\ UNCHANGED <<pend, tmp, body, whole, torn, made, out, tmpAt>>
  /\ UNCHANGED <<now, store, pc, rest, keys, written, cold, failed>>

(* A row another loop has removed since may or may not be yielded.         *)
PassRow(l) ==
  /\ pc[l] = "scan" /\ scan[l] # {} /\ Cardinality(pend[l]) < Chunk
  /\ \E r \in FirstKeys(scan[l]) :
       /\ scan' = [scan EXCEPT ![l] = @ \ {r}]
       /\ \/ /\ pend' = [pend EXCEPT ![l] = @ \cup {r}]
             /\ IF out[l] = None THEN OpenExport(l)
                ELSE UNCHANGED <<tmp, body, whole, torn, made, out, tmpAt>>
          \/ /\ r \notin hot
             /\ UNCHANGED <<pend, tmp, body, whole, torn, made, out, tmpAt>>
  /\ UNCHANGED <<now, store, pc, rest, keys, written, cold, failed>>

(* Mutant: each chunk starts the export afresh.                           *)
PassFlushPerChunk(l) ==
  /\ pc[l] = "scan" /\ pend[l] # {}
  /\ Cardinality(pend[l]) = Chunk \/ scan[l] = {}
  /\ written' = [written EXCEPT ![l] = pend[l]]
  /\ keys' = [keys EXCEPT ![l] = pend[l]]
  /\ pend' = [pend EXCEPT ![l] = {}]
  /\ pc' = [pc EXCEPT ![l] = "remove"]
  /\ UNCHANGED <<now, store, rest, scan, out, tmpAt, directory, contents, failed>>

(* Mutant: the keys of a chunk are left in the partition.                  *)
PassFlushKeeps(l) ==
  /\ pc[l] = "scan" /\ pend[l] # {}
  /\ Cardinality(pend[l]) = Chunk \/ scan[l] = {}
  /\ written' = [written EXCEPT ![l] = @ \cup pend[l]]
  /\ pend' = [pend EXCEPT ![l] = {}]
  /\ UNCHANGED <<now, store, pc, rest, scan, keys, out, tmpAt, directory,
                 contents, failed>>

(* PendingBatch::flush, for a full chunk or for the rest.                  *)
PassFlush(l) ==
  /\ pc[l] = "scan" /\ pend[l] # {}
  /\ Cardinality(pend[l]) = Chunk \/ scan[l] = {}
  /\ written' = [written EXCEPT ![l] = @ \cup pend[l]]
  /\ keys' = [keys EXCEPT ![l] = pend[l]]
  /\ pend' = [pend EXCEPT ![l] = {}]
  /\ pc' = [pc EXCEPT ![l] = "remove"]
  /\ UNCHANGED <<now, store, rest, scan, out, tmpAt, directory, contents, failed>>

(* A failed removal is only logged.                                        *)
PassRemove(l) ==
  /\ pc[l] = "remove"
  /\ \E r \in FirstKeys(keys[l]) :
       /\ keys' = [keys EXCEPT ![l] = @ \ {r}]
       /\ \/ hot' = hot \ {r} /\ UNCHANGED failed
          \/ /\ "remove" \in Faults
             /\ failed' = failed \cup {"remove"}
             /\ UNCHANGED hot
  /\ pc' = [pc EXCEPT ![l] = IF keys'[l] = {} THEN "scan" ELSE "remove"]
  /\ UNCHANGED <<now, ts, rest, scan, pend, written, out, tmpAt, directory,
                 contents>>

(* The end of a pass, by success or by an early return: what it held in    *)
(* memory is dropped.                                                      *)
EndPass(l) ==
  /\ pc' = [pc EXCEPT ![l] = "sleep"]
  /\ rest' = [rest EXCEPT ![l] = now]
  /\ scan' = [scan EXCEPT ![l] = {}]
  /\ pend' = [pend EXCEPT ![l] = {}]
  /\ keys' = [keys EXCEPT ![l] = {}]
  /\ written' = [written EXCEPT ![l] = {}]
  /\ out' = [out EXCEPT ![l] = None]
  /\ tmpAt' = [tmpAt EXCEPT ![l] = None]

(* Mutant: the file is renamed with its writer still open.                 *)
PassCloseSkipped(l) ==
  /\ pc[l] = "scan" /\ scan[l] = {} /\ pend[l] = {}
  /\ IF out[l] = None
       THEN EndPass(l)
       ELSE /\ pc' = [pc EXCEPT ![l] = "rename"]
            /\ UNCHANGED <<rest, scan, pend, keys, written, out, tmpAt>>
  /\ UNCHANGED <<now, store, directory, contents, failed>>

(* finalize_export: the footer makes the file readable, unless another     *)
(* writer has been at its bytes.                                           *)
PassClose(l) ==
  /\ pc[l] = "scan" /\ scan[l] = {} /\ pend[l] = {}
  /\ IF out[l] = None
       THEN EndPass(l) /\ UNCHANGED <<body, whole>>
       ELSE /\ pc' = [pc EXCEPT ![l] = "rename"]
            /\ body' = [body EXCEPT ![out[l]] = written[l]]
            /\ whole' = IF out[l] \in torn THEN whole \ {out[l]}
                        ELSE whole \cup {out[l]}
            /\ UNCHANGED <<rest, scan, pend, keys, written, out, tmpAt>>
  /\ UNCHANGED <<now, store, directory, torn, made, failed>>

(* The published name has the second of the rename; an export of the same  *)
(* second is replaced.  The rename fails if the temporary name is gone.    *)
PassRename(l) ==
  /\ pc[l] = "rename"
  /\ \/ /\ tmp[tmpAt[l]] # None
        /\ cold' = [cold EXCEPT ![Second(now)] = tmp[tmpAt[l]]]
        /\ tmp' = [tmp EXCEPT ![tmpAt[l]] = None]
     \/ tmp[tmpAt[l]] = None /\ UNCHANGED directory
  /\ EndPass(l)
  /\ UNCHANGED <<now, store, contents, failed>>

(* A failed scan, open, write, close or rename ends the pass with Err.     *)
PassError(l) ==
  /\ "io" \in Faults
  /\ pc[l] \in {"scan", "rename"}
  /\ EndPass(l)
  /\ failed' = failed \cup {"io"}
  /\ UNCHANGED <<now, store, directory, contents>>

(* The process dies and restarts: the partition and the directory keep     *)
(* what was handed to the operating system, every loop starts anew.        *)
Crash ==
  /\ "crash" \in Faults
  /\ pc' = [l \in Loops |-> "sleep"] /\ rest' = [l \in Loops |-> now]
  /\ scan' = [l \in Loops |-> {}] /\ pend' = [l \in Loops |-> {}]
  /\ keys' = [l \in Loops |-> {}] /\ written' = [l \in Loops |-> {}]
  /\ out' = [l \in Loops |-> None] /\ tmpAt' = [l \in Loops |-> None]
  /\ failed' = failed \cup {"crash"}
  /\ UNCHANGED <<now, store, directory, contents>>

PassNext(l) == \/ PassBegin(l) \/ PassRow(l) \/ PassFlush(l) \/ PassRemove(l)
               \/ PassClose(l) \/ PassRename(l) \/ PassError(l)

Next == Tick \/ Insert \/ Crash \/ \E l \in Loops : PassNext(l)

Spec == Init /\ [][Next]_vars
=============================================================================
