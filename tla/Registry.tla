------------------------------ MODULE Registry ------------------------------
(***************************************************************************)
(* The Prometheus registry (prometheus.rs): concurrent observations that   *)
(* create their collector on first use.  Each kind of metric has a map of  *)
(* its collectors behind a lock of its own; the registry of the prometheus *)
(* crate, which all kinds share, refuses a second collector of a name.     *)
(* Values are left out: what matters of an observation is its kind, its    *)
(* name and its label keys.                                                *)
(***************************************************************************)
EXTENDS Naturals, Sequences, FiniteSets

CONSTANTS
  Calls,     \* calls of PromRegistry::update()
  Names,     \* metric names
  Reserved,  \* "tonggeret_dropped_total"
  Keys,      \* the lists of label keys an observation may carry
  Invalid,   \* those the prometheus crate refuses in a definition
  None       \* no collector, no thread

Kinds == {"counter", "gauge", "histogram"}
Entries == [kind : Kinds, name : Names, labels : Keys]
Collectors == [kind : Kinds, labels : Keys]

ASSUME RegistryAssumption ==
  /\ Reserved \in Names
  /\ <<>> \in Keys \ Invalid
  /\ None \notin Calls /\ None \notin Keys /\ None \notin Collectors

VARIABLES
  registered, \* the shared registry: the collector of each name
  map,        \* PromRegistry::{counters, gauges, histograms}: label keys by name
  readers,    \* the calls that hold each map's lock for reading
  writer,     \* the call that holds it for writing
  pc,         \* where each call stands
  entry,      \* what it observes
  vec,        \* the label keys of the collector ensure_*() gave it
  filed       \* the label keys its sample is recorded under

locks == <<readers, writer>>
vars == <<registered, map, locks, pc, entry, vec, filed>>

Init ==
  /\ registered = [n \in Names |-> IF n = Reserved
                     THEN [kind |-> "counter", labels |-> <<>>] ELSE None]
  /\ map = [k \in Kinds |-> [n \in Names |-> None]]
  /\ readers = [k \in Kinds |-> {}] /\ writer = [k \in Kinds |-> None]
  /\ pc = [c \in Calls |-> "idle"]
  /\ entry \in [Calls -> Entries]
  /\ vec = [c \in Calls |-> None] /\ filed = [c \in Calls |-> None]

Goto(c, place) == pc' = [pc EXCEPT ![c] = place]

(* The collector of c's kind and name in the map, if there is one.         *)
Found(c) == map[entry[c].kind][entry[c].name]

(* label_names_match() and its two siblings accept any label keys.         *)
LabelsMatch(keys, labels) == TRUE

(* ensure_*(), fast path: take the read lock, look the name up, and drop   *)
(* the lock.                                                               *)
ReadLock(c) ==
  /\ pc[c] = "idle" /\ writer[entry[c].kind] = None
  /\ readers' = [readers EXCEPT ![entry[c].kind] = @ \cup {c}]
  /\ Goto(c, "read")
  /\ UNCHANGED <<registered, map, writer, entry, vec, filed>>

(* Mutant: the read lock is still held on the way to the slow path.        *)
LookupKeepsLock(c) ==
  /\ pc[c] = "read"
  /\ IF Found(c) = None
       THEN Goto(c, "write") /\ UNCHANGED <<readers, vec>>
       ELSE /\ Goto(c, IF LabelsMatch(Found(c), entry[c].labels)
                         THEN "observe" ELSE "dropped")
            /\ vec' = [vec EXCEPT ![c] = Found(c)]
            /\ readers' = [readers EXCEPT ![entry[c].kind] = @ \ {c}]
  /\ UNCHANGED <<registered, map, writer, entry, filed>>

Lookup(c) ==
  /\ pc[c] = "read"
  /\ readers' = [readers EXCEPT ![entry[c].kind] = @ \ {c}]
  /\ IF Found(c) = None
       THEN Goto(c, "write") /\ UNCHANGED vec
       ELSE /\ Goto(c, IF LabelsMatch(Found(c), entry[c].labels)
                         THEN "observe" ELSE "dropped")
            /\ vec' = [vec EXCEPT ![c] = Found(c)]
  /\ UNCHANGED <<registered, map, writer, entry, filed>>

(* Slow path: under the write lock the name is looked up again, and a new  *)
(* collector is built if it is still missing.                              *)
WriteFree(k) == writer[k] = None /\ readers[k] = {}

(* Mutant: the name is not looked up again.                                *)
WriteLockUnchecked(c) ==
  /\ pc[c] = "write" /\ WriteFree(entry[c].kind)
  /\ IF entry[c].labels \in Invalid
       THEN Goto(c, "dropped") /\ UNCHANGED writer
       ELSE /\ Goto(c, "register")
            /\ writer' = [writer EXCEPT ![entry[c].kind] = c]
  /\ UNCHANGED <<registered, map, readers, entry, vec, filed>>

WriteLock(c) ==
  /\ pc[c] = "write" /\ WriteFree(entry[c].kind)
  /\ IF Found(c) # None
       THEN /\ Goto(c, "observe")
            /\ vec' = [vec EXCEPT ![c] = Found(c)]
            /\ UNCHANGED writer
       ELSE /\ UNCHANGED vec
            /\ IF entry[c].labels \in Invalid
                 THEN Goto(c, "dropped") /\ UNCHANGED writer
                 ELSE /\ Goto(c, "register")
                      /\ writer' = [writer EXCEPT ![entry[c].kind] = c]
  /\ UNCHANGED <<registered, map, readers, entry, filed>>

(* Mutant: a failed registration is only logged.                           *)
RegisterIgnored(c) ==
  /\ pc[c] = "register"
  /\ Goto(c, "insert")
  /\ IF registered[entry[c].name] = None
       THEN registered' = [registered EXCEPT ![entry[c].name] =
                             [kind |-> entry[c].kind, labels |-> entry[c].labels]]
       ELSE UNCHANGED registered
  /\ UNCHANGED <<map, locks, entry, vec, filed>>

(* registry.register(): a name is taken once for all kinds.                *)
Register(c) ==
  /\ pc[c] = "register"
  /\ IF registered[entry[c].name] = None
       THEN /\ registered' = [registered EXCEPT ![entry[c].name] =
                                [kind |-> entry[c].kind, labels |-> entry[c].labels]]
            /\ Goto(c, "insert")
            /\ UNCHANGED writer
       ELSE /\ Goto(c, "dropped")
            /\ writer' = [writer EXCEPT ![entry[c].kind] = None]
            /\ UNCHANGED registered
  /\ UNCHANGED <<map, readers, entry, vec, filed>>

(* Mutant: the collector is defined without labels.                        *)
InsertUnlabelled(c) ==
  /\ pc[c] = "insert"
  /\ map' = [map EXCEPT ![entry[c].kind][entry[c].name] = <<>>]
  /\ vec' = [vec EXCEPT ![c] = <<>>]
  /\ writer' = [writer EXCEPT ![entry[c].kind] = None]
  /\ Goto(c, "observe")
  /\ UNCHANGED <<registered, readers, entry, filed>>

(* The new collector enters its kind's map, and the write lock is dropped. *)
Insert(c) ==
  /\ pc[c] = "insert"
  /\ map' = [map EXCEPT ![entry[c].kind][entry[c].name] = entry[c].labels]
  /\ vec' = [vec EXCEPT ![c] = entry[c].labels]
  /\ writer' = [writer EXCEPT ![entry[c].kind] = None]
  /\ Goto(c, "observe")
  /\ UNCHANGED <<registered, readers, entry, filed>>

(* observe_*(): with_label_values() files the sample by the position of    *)
(* its label values, and panics when their number is not the collector's.  *)
Observe(c) ==
  /\ pc[c] = "observe"
  /\ IF Len(entry[c].labels) = Len(vec[c])
       THEN Goto(c, "observed") /\ filed' = [filed EXCEPT ![c] = vec[c]]
       ELSE Goto(c, "panicked") /\ UNCHANGED filed
  /\ UNCHANGED <<registered, map, locks, entry, vec>>

Update(c) == \/ ReadLock(c) \/ Lookup(c) \/ WriteLock(c) \/ Register(c)
             \/ Insert(c) \/ Observe(c)

Returned(c) == pc[c] \in {"observed", "dropped", "panicked"}
AllReturned == (\A c \in Calls : Returned(c)) /\ UNCHANGED vars

Next == AllReturned \/ \E c \in Calls : Update(c)

Spec == Init /\ [][Next]_vars

(* Every thread runs on, and the locks of std are not held across a wait.  *)
FairSpec == Spec /\ \A c \in Calls : WF_vars(Update(c))
=============================================================================
