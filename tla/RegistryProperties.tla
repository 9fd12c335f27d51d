------------------------ MODULE RegistryProperties --------------------------
(***************************************************************************)
(* What the Prometheus registry promises to concurrent observations.       *)
(***************************************************************************)
EXTENDS Registry

(* A map's lock is held by its writer alone, and only inside ensure_*().   *)
LockDiscipline ==
  \A k \in Kinds :
    /\ writer[k] # None => readers[k] = {}
    /\ readers[k] = {c \in Calls : pc[c] = "read" /\ entry[c].kind = k}
    /\ \A c \in Calls :
         writer[k] = c <=> pc[c] \in {"register", "insert"} /\ entry[c].kind = k

(* Every variable holds a value of its kind, and each map's lock is held   *)
(* by the calls that are where ensure_*() holds it.                        *)
TypeOK ==
  /\ registered \in [Names -> Collectors \cup {None}]
  /\ map \in [Kinds -> [Names -> Keys \cup {None}]]
  /\ readers \in [Kinds -> SUBSET Calls]
  /\ writer \in [Kinds -> Calls \cup {None}]
  /\ pc \in [Calls -> {"idle", "read", "write", "register", "insert",
                       "observe", "observed", "dropped", "panicked"}]
  /\ entry \in [Calls -> Entries]
  /\ vec \in [Calls -> Keys \cup {None}]
  /\ filed \in [Calls -> Keys \cup {None}]
  /\ LockDiscipline

(* A collector in one of the three maps is the collector the registry      *)
(* exports under that name: no two kinds own a name, and no sample goes to *)
(* a collector that a scrape does not show (ensure_counter, ensure_gauge,  *)
(* ensure_histogram).                                                      *)
MapsExported ==
  \A k \in Kinds, n \in Names :
    map[k][n] # None => registered[n] = [kind |-> k, labels |-> map[k][n]]

(* A name the registry exports is in its kind's map, or its creator is     *)
(* about to put it there: no name is taken for good and never usable.      *)
NothingStranded ==
  \A n \in Names \ {Reserved} : registered[n] # None =>
    \/ map[registered[n].kind][n] = registered[n].labels
    \/ \E c \in Calls :
         /\ pc[c] = "insert" /\ entry[c].name = n
         /\ registered[n] = [kind |-> entry[c].kind, labels |-> entry[c].labels]

(* Where a call holds or used a collector, it is the one of the map.       *)
VecMapped ==
  \A c \in Calls :
    /\ vec[c] # None => Found(c) = vec[c]
    /\ pc[c] \in {"observe", "observed", "panicked"} => vec[c] # None
    /\ pc[c] = "observed" => filed[c] = vec[c] /\ Len(entry[c].labels) = Len(vec[c])
    /\ pc[c] = "panicked" => Len(entry[c].labels) # Len(vec[c])
    /\ pc[c] # "observed" => filed[c] = None

(* Between its second lookup and its insert a call is alone with its map:  *)
(* the name is still missing there.                                        *)
Rechecked ==
  /\ \A c \in Calls : pc[c] \in {"register", "insert"} => Found(c) = None
  /\ \A c \in Calls : pc[c] = "insert" =>
       /\ entry[c].name # Reserved
       /\ registered[entry[c].name] =
            [kind |-> entry[c].kind, labels |-> entry[c].labels]

(* A collector has the keys of some call that observed its name, and the   *)
(* reserved name stays the registry's own.                                 *)
Provenance ==
  /\ registered[Reserved] = [kind |-> "counter", labels |-> <<>>]
  /\ \A k \in Kinds : map[k][Reserved] = None
  /\ \A n \in Names \ {Reserved} : registered[n] # None =>
       \E d \in Calls : /\ entry[d].name = n
                       /\ entry[d].labels = registered[n].labels

(* Together with TypeOK, inductive: what every step of ensure_*() and      *)
(* observe_*() preserves.                                                  *)
Inductive == /\ MapsExported /\ NothingStranded /\ VecMapped
             /\ Rechecked /\ Provenance

(* Racing first observations of one metric do not cost a sample: a call is *)
(* turned away only if its label keys are no valid definition, or the name *)
(* is exported for another kind or by the registry itself.                 *)
OnlyConflictsDropped ==
  \A c \in Calls : pc[c] = "dropped" =>
    \/ entry[c].labels \in Invalid
    \/ entry[c].name = Reserved
    \/ /\ registered[entry[c].name] # None
       /\ registered[entry[c].name].kind # entry[c].kind

(* with_label_values() panics in no call of a program that observes each   *)
(* name with one list of label keys, and no such call's sample is filed    *)
(* under other keys.                                                       *)
StableKeysSafe ==
  \A c \in Calls :
    (\A d \in Calls : entry[d].name = entry[c].name =>
       entry[d].labels = entry[c].labels)
    => /\ pc[c] # "panicked"
       /\ pc[c] = "observed" => filed[c] = entry[c].labels

(* No lock is kept from anyone for ever: every call of update() returns.   *)
CallsReturn == \A c \in Calls : <>Returned(c)

-----------------------------------------------------------------------------
(* "Same-name / different-label-keys is rejected with a tracing::warn!":   *)
(* an observation is never filed under other keys than its own, and never  *)
(* panics.                                                                 *)
MismatchRejected ==
  \A c \in Calls :
    /\ pc[c] # "panicked"
    /\ pc[c] = "observed" => filed[c] = entry[c].labels
=============================================================================
