------------------------------ MODULE Visitors ------------------------------
(***************************************************************************)
(* The visitor tracker (visitors.rs): handlers fold visitor hashes into a  *)
(* sketch per region, snapshot tasks export the sketches as gauges, and    *)
(* all of them only try the tracker's lock.  A gauge is modelled by the    *)
(* sketch it was computed from.                                            *)
(***************************************************************************)
EXTENDS Hll, FiniteSets

CONSTANTS
  Visits,       \* calls of observe()
  Tasks,        \* callers of snapshot(), the periodic task among them
  Arrivals,     \* the direct calls tried: the hash of the key, the region
  Codes,        \* two-letter country codes
  Unknown, Other,
  Junk,         \* a region that is neither a code nor "other"
  MaxRegions,
  None

Regions == Codes \cup {Unknown, Other}

ASSUME VisitorsAssumption ==
  /\ Arrivals \subseteq [hash : Hash, region : Codes \cup {Unknown, Other, Junk}]
  /\ MaxRegions \in Nat \ {0}
  /\ Junk \notin Regions /\ Other \notin Codes /\ Unknown # Other
  /\ None \notin Visits \cup Tasks \cup Sketch \cup Regions
  /\ Visits \cap Tasks = {}

VARIABLES
  sketches,  \* the tracker's map: the sketch of each region it holds
  lock,      \* who holds its mutex
  poisoned,  \* the mutex is poisoned
  engine,    \* "on", or "down" after shutdown()
  total,     \* visitors_total by region: the visits it counts
  gauge,     \* unique_visitors_estimate by region
  pc,        \* where each visit and each task stands
  visit,     \* the hash and the region of each visit
  clash,     \* what the application uses the gauge's name for: "none", "labels"
             \* for a gauge with more label keys, "kind" for another kind
  todo,      \* the regions a snapshot has still to export
  value      \* the estimate a snapshot is about to record, and its region

vars == <<sketches, lock, poisoned, engine, total, gauge, pc, visit, clash,
          todo, value>>

Held == DOMAIN sketches

Init ==
  /\ sketches = [r \in {} |-> Empty]
  /\ lock = None /\ poisoned = FALSE
  /\ engine = "on"
  /\ total = [r \in Regions |-> {}]
  /\ gauge = [r \in Regions |-> None]
  /\ pc = [x \in Visits \cup Tasks |-> "idle"]
  /\ clash \in {"none", "labels", "kind"}
  /\ todo = [t \in Tasks |-> {}] /\ value = [t \in Tasks |-> None]

Goto(x, place) == pc' = [pc EXCEPT ![x] = place]

(* normalize_region()                                                      *)
Normal(region) == IF region \in Codes \cup {Other} THEN region ELSE Unknown
Region(v) == Normal(visit[v].region)

(* try_lock() fails on a held and on a poisoned mutex.                     *)
Lockable == lock = None /\ ~poisoned

-----------------------------------------------------------------------------
(* observe()                                                               *)

(* The visit is counted first, under its own region; record_counter() does *)
(* nothing unless the engine is on.                                        *)
ObserveCount(v) ==
  /\ pc[v] = "idle"
  /\ total' = IF engine = "on" THEN [total EXCEPT ![Region(v)] = @ \cup {v}]
              ELSE total
  /\ Goto(v, "lock")
  /\ UNCHANGED <<sketches, lock, poisoned, engine, gauge, visit, clash, todo,
                 value>>

ObserveLock(v) ==
  /\ pc[v] = "lock"
  /\ IF Lockable THEN lock' = v /\ Goto(v, "fold")
     ELSE Goto(v, "missed") /\ UNCHANGED lock
  /\ UNCHANGED <<sketches, poisoned, engine, total, gauge, visit, clash, todo,
                 value>>

(* Mutant: one region too many.                                            *)
BucketLate(v) ==
  IF Region(v) \notin Held /\ Cardinality(Held) > MaxRegions
    THEN Other ELSE Region(v)

Bucket(v) ==
  IF Region(v) \notin Held /\ Cardinality(Held) >= MaxRegions
    THEN Other ELSE Region(v)

ObserveFold(v) ==
  /\ pc[v] = "fold"
  /\ LET b == Bucket(v)
         old == IF b \in Held THEN sketches[b] ELSE Empty
     IN sketches' = [r \in Held \cup {b} |->
                       IF r = b THEN Add(old, visit[v].hash) ELSE sketches[r]]
  /\ lock' = None
  /\ Goto(v, "folded")
  /\ UNCHANGED <<poisoned, engine, total, gauge, visit, clash, todo, value>>

-----------------------------------------------------------------------------
(* snapshot(): the lock is held while the gauges are recorded.             *)

(* Mutant: the lock is released once the regions are listed.               *)
SnapshotLockReleased(t) ==
  /\ pc[t] = "idle" /\ Lockable
  /\ todo' = [todo EXCEPT ![t] = Held]
  /\ Goto(t, "export")
  /\ UNCHANGED <<sketches, lock, poisoned, engine, total, gauge, visit, clash,
                 value>>

(* Mutant: a region is exported only until it has a gauge.                 *)
SnapshotLockOnce(t) ==
  /\ pc[t] = "idle" /\ Lockable
  /\ lock' = t
  /\ todo' = [todo EXCEPT ![t] = {r \in Held : gauge[r] = None}]
  /\ Goto(t, "export")
  /\ UNCHANGED <<sketches, poisoned, engine, total, gauge, visit, clash, value>>

(* A snapshot that finds the lock taken does nothing until its next turn.  *)
SnapshotLock(t) ==
  /\ pc[t] = "idle" /\ Lockable
  /\ lock' = t
  /\ todo' = [todo EXCEPT ![t] = Held]
  /\ Goto(t, "export")
  /\ UNCHANGED <<sketches, poisoned, engine, total, gauge, visit, clash, value>>

SnapshotEstimate(t) ==
  /\ pc[t] = "export" /\ value[t] = None
  /\ \E r \in todo[t] :
       /\ value' = [value EXCEPT ![t] = [region |-> r, sketch |-> sketches[r]]]
       /\ todo' = [todo EXCEPT ![t] = @ \ {r}]
  /\ UNCHANGED <<sketches, lock, poisoned, engine, total, gauge, pc, visit, clash>>

(* record_gauge() does nothing unless the engine is on.  It panics when the*)
(* registry holds a gauge of that name with another number of label keys,  *)
(* and drops the sample when it holds another kind of metric.              *)
SnapshotRecord(t) ==
  /\ pc[t] = "export" /\ value[t] # None
  /\ value' = [value EXCEPT ![t] = None]
  /\ IF clash = "labels" /\ engine = "on"
       THEN /\ poisoned' = TRUE /\ lock' = None
            /\ Goto(t, "panicked")
            /\ UNCHANGED gauge
       ELSE /\ gauge' = IF engine = "on" /\ clash # "kind"
                        THEN [gauge EXCEPT ![value[t].region] = value[t].sketch]
                        ELSE gauge
            /\ UNCHANGED <<poisoned, lock, pc>>
  /\ UNCHANGED <<sketches, engine, total, visit, clash, todo>>

SnapshotEnd(t) ==
  /\ pc[t] = "export" /\ value[t] = None /\ todo[t] = {}
  /\ lock' = IF lock = t THEN None ELSE lock
  /\ Goto(t, "idle")
  /\ UNCHANGED <<sketches, poisoned, engine, total, gauge, visit, clash, todo,
                 value>>

(* observe_visitor() and the ticks of spawn_snapshot_task() share the one  *)
(* tracker of global_tracker().                                            *)
Observe(v) == ObserveCount(v) \/ ObserveLock(v) \/ ObserveFold(v)
Snapshot(t) == \/ SnapshotLock(t) \/ SnapshotEstimate(t) \/ SnapshotRecord(t)
               \/ SnapshotEnd(t)
=============================================================================
