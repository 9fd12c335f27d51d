--------------------------- MODULE RegistryProofs ---------------------------
(***************************************************************************)
(* Proofs that the registry's promises hold for any number of calls, names *)
(* and lists of label keys.                                                *)
(***************************************************************************)
EXTENDS RegistryProperties, TLAPS

(* What a step of update() never does: it leaves the entries alone, and a  *)
(* registered collector stays.                                             *)
LEMMA EntryStep ==
  ASSUME [Next]_vars
  PROVE  entry' = entry
BY DEF Next, AllReturned, Update, ReadLock, Lookup, WriteLock, Register, Insert,
       Observe, vars, locks

(* The initial state has the types and the discipline of the locks.        *)
LEMMA TypeInit == Init => TypeOK /\ Inductive
<1> SUFFICES ASSUME Init PROVE TypeOK /\ Inductive
  OBVIOUS
<1> USE RegistryAssumption
<1>1. Reserved \in Names /\ [kind |-> "counter", labels |-> <<>>] \in Collectors
  BY DEF Collectors, Kinds
<1>2. LockDiscipline
  BY DEF Init, LockDiscipline
<1>3. TypeOK
  BY <1>1, <1>2 DEF Init, TypeOK
<1>4. MapsExported /\ NothingStranded /\ VecMapped /\ Rechecked
  BY DEF Init, MapsExported, NothingStranded, VecMapped, Rechecked
<1>5. Provenance
  BY <1>1 DEF Init, Provenance
<1> QED
  BY <1>3, <1>4, <1>5 DEF Inductive

(* The locks: each step of a call keeps every map's lock with the calls    *)
(* that are where ensure_*() holds it.                                     *)
LEMMA TypeStep ==
  ASSUME TypeOK, Inductive, [Next]_vars
  PROVE  TypeOK'
<1> USE RegistryAssumption
<1>0. ASSUME NEW c \in Calls
      PROVE  /\ entry[c] \in Entries /\ entry[c].kind \in Kinds
             /\ entry[c].name \in Names /\ entry[c].labels \in Keys
  BY DEF TypeOK, Entries
<1>1. CASE UNCHANGED vars
  BY <1>1 DEF TypeOK, LockDiscipline, vars, locks
<1>2. ASSUME NEW c \in Calls, ReadLock(c) PROVE TypeOK'
  BY <1>2, <1>0 DEF TypeOK, LockDiscipline, ReadLock, Goto
<1>3. ASSUME NEW c \in Calls, Lookup(c) PROVE TypeOK'
  <2>1. Found(c) \in Keys \cup {None}
    BY <1>0 DEF TypeOK, Found
  <2>2. LockDiscipline'
    BY <1>3, <1>0 DEF TypeOK, LockDiscipline, Lookup, Goto, LabelsMatch
  <2> QED
    BY <1>3, <1>0, <2>1, <2>2 DEF TypeOK, Lookup, Goto, LabelsMatch
<1>4. ASSUME NEW c \in Calls, WriteLock(c) PROVE TypeOK'
  <2>1. Found(c) \in Keys \cup {None}
    BY <1>0 DEF TypeOK, Found
  <2>2. LockDiscipline'
    BY <1>4, <1>0 DEF TypeOK, LockDiscipline, WriteLock, WriteFree, Goto
  <2>3. vec' \in [Calls -> Keys \cup {None}]
    BY <1>4, <2>1 DEF TypeOK, WriteLock
  <2>4. writer' \in [Kinds -> Calls \cup {None}]
    BY <1>4 DEF TypeOK, WriteLock
  <2>5. pc' \in [Calls -> {"idle", "read", "write", "register", "insert",
                           "observe", "observed", "dropped", "panicked"}]
    <3>1. \E place \in {"observe", "register", "dropped"} :
            pc' = [pc EXCEPT ![c] = place]
      BY <1>4 DEF WriteLock, Goto
    <3> QED
      BY <3>1 DEF TypeOK
  <2> QED
    BY <1>4, <2>2, <2>3, <2>4, <2>5 DEF TypeOK, WriteLock
<1>5. ASSUME NEW c \in Calls, Register(c) PROVE TypeOK'
  <2>1. [kind |-> entry[c].kind, labels |-> entry[c].labels] \in Collectors
    BY <1>0 DEF Collectors
  <2>2. LockDiscipline'
    BY <1>5, <1>0 DEF TypeOK, LockDiscipline, Register, Goto
  <2>3. \E place \in {"insert", "dropped"} : pc' = [pc EXCEPT ![c] = place]
    BY <1>5 DEF Register, Goto
  <2>4. registered' \in [Names -> Collectors \cup {None}]
    BY <1>5, <2>1 DEF TypeOK, Register
  <2>5. writer' \in [Kinds -> Calls \cup {None}]
    BY <1>5 DEF TypeOK, Register
  <2> QED
    BY <1>5, <2>2, <2>3, <2>4, <2>5 DEF TypeOK, Register
<1>6. ASSUME NEW c \in Calls, Insert(c) PROVE TypeOK'
  <2>2. LockDiscipline'
    BY <1>6, <1>0 DEF TypeOK, LockDiscipline, Insert, Goto
  <2> QED
    BY <1>6, <1>0, <2>2 DEF TypeOK, Insert, Goto
<1>7. ASSUME NEW c \in Calls, Observe(c) PROVE TypeOK'
  <2>2. LockDiscipline'
    BY <1>7, <1>0 DEF TypeOK, LockDiscipline, Observe, Goto, locks
  <2> QED
    BY <1>7, <1>0, <2>2 DEF TypeOK, Observe, Goto, locks
<1> QED
  BY <1>1, <1>2, <1>3, <1>4, <1>5, <1>6, <1>7
     DEF Next, AllReturned, Update

-----------------------------------------------------------------------------
(* A lookup only reads: the maps and the registry stay, and the caller     *)
(* leaves with the collector it found.                                     *)
LEMMA LookupStep ==
  ASSUME TypeOK, Inductive, NEW c \in Calls,
         ReadLock(c) \/ Lookup(c) \/ WriteLock(c)
  PROVE  Inductive'
<1> USE RegistryAssumption
<1>0. entry[c] \in Entries /\ entry[c].kind \in Kinds /\ entry[c].name \in Names
  BY DEF TypeOK, Entries
<1>1. registered' = registered /\ map' = map /\ entry' = entry /\ filed' = filed
  BY DEF ReadLock, Lookup, WriteLock
<1>2. \A d \in Calls : Found(d)' = Found(d)
  BY <1>1 DEF Found
<1>3. /\ \A d \in Calls \ {c} : pc'[d] = pc[d] /\ vec'[d] = vec[d]
      /\ pc[c] \in {"idle", "read", "write"}
  BY DEF ReadLock, Lookup, WriteLock, Goto, TypeOK
<1>4. /\ pc'[c] \in {"read", "write", "register", "observe", "dropped"}
      /\ pc'[c] = "observe" => Found(c) # None /\ vec'[c] = Found(c)
      /\ pc'[c] = "register" => Found(c) = None
      /\ vec'[c] = vec[c] \/ vec'[c] = Found(c)
  BY DEF ReadLock, Lookup, WriteLock, Goto, TypeOK, LabelsMatch
<1>5. MapsExported' /\ Provenance'
  BY <1>1 DEF Inductive, MapsExported, Provenance
<1>6. NothingStranded'
  BY <1>1, <1>3 DEF Inductive, NothingStranded
<1>7. VecMapped'
  BY <1>1, <1>2, <1>3, <1>4 DEF Inductive, VecMapped
<1>8. Rechecked'
  BY <1>1, <1>2, <1>3, <1>4 DEF Inductive, Rechecked
<1> QED
  BY <1>5, <1>6, <1>7, <1>8 DEF Inductive

(* A registration takes a free name for a call that is alone with its map, *)
(* and a refused one changes nothing but the caller.                       *)
LEMMA RegisterStep ==
  ASSUME TypeOK, Inductive, NEW c \in Calls, Register(c)
  PROVE  Inductive'
<1> USE RegistryAssumption
<1> DEFINE n == entry[c].name
           mine == [kind |-> entry[c].kind, labels |-> entry[c].labels]
<1>0. /\ entry[c] \in Entries /\ entry[c].kind \in Kinds /\ n \in Names
      /\ mine \in Collectors /\ mine # None
  BY DEF TypeOK, Entries, Collectors
<1>1. /\ map' = map /\ entry' = entry /\ filed' = filed /\ vec' = vec
      /\ \A d \in Calls : Found(d)' = Found(d)
  BY DEF Register, Found
<1>2. /\ \A d \in Calls \ {c} : pc'[d] = pc[d]
      /\ pc[c] = "register" /\ pc'[c] \in {"insert", "dropped"}
      /\ pc'[c] = "insert" => registered[n] = None /\ registered'[n] = mine
  BY <1>0 DEF Register, Goto, TypeOK
<1>3. \A m \in Names : registered[m] # None => registered'[m] = registered[m]
  BY <1>0 DEF Register, TypeOK
<1>4. \A m \in Names : registered'[m] # registered[m] =>
        m = n /\ registered[m] = None /\ registered'[m] = mine /\ pc'[c] = "insert"
  BY <1>0 DEF Register, Goto, TypeOK
<1>5. MapsExported'
  <2> SUFFICES ASSUME NEW k \in Kinds, NEW m \in Names, map[k][m] # None
               PROVE  registered'[m] = [kind |-> k, labels |-> map[k][m]]
    BY <1>1 DEF MapsExported
  <2>1. registered[m] = [kind |-> k, labels |-> map[k][m]]
    BY DEF Inductive, MapsExported
  <2>2. [kind |-> k, labels |-> map[k][m]] \in Collectors
    BY DEF TypeOK, Collectors
  <2> QED
    BY <2>1, <2>2, <1>3
<1>6. NothingStranded'
  <2> SUFFICES ASSUME NEW m \in Names \ {Reserved}, registered'[m] # None
               PROVE  \/ map[registered'[m].kind][m] = registered'[m].labels
                      \/ \E d \in Calls :
                           /\ pc'[d] = "insert" /\ entry[d].name = m
                           /\ registered'[m] = [kind |-> entry[d].kind,
                                                labels |-> entry[d].labels]
    BY <1>1 DEF NothingStranded
  <2>1. CASE registered'[m] = registered[m]
    BY <2>1, <1>2 DEF Inductive, NothingStranded
  <2>2. CASE registered'[m] # registered[m]
    BY <2>2, <1>4
  <2> QED
    BY <2>1, <2>2
<1>7. VecMapped'
  BY <1>1, <1>2 DEF Inductive, VecMapped
<1>8. Rechecked'
  <2>1. \A d \in Calls : pc'[d] \in {"register", "insert"} => Found(d) = None
    BY <1>2 DEF Inductive, Rechecked
  <2>2. ASSUME NEW d \in Calls, pc'[d] = "insert"
        PROVE  /\ entry[d].name # Reserved
               /\ registered'[entry[d].name] =
                    [kind |-> entry[d].kind, labels |-> entry[d].labels]
    <3>1. CASE d = c
      <4>1. registered[Reserved] # None
        BY DEF Inductive, Provenance, Collectors, Kinds
      <4> QED
        BY <4>1, <3>1, <2>2, <1>2
    <3>2. CASE d # c
      <4>1. entry[d].name # Reserved /\ registered[entry[d].name] =
              [kind |-> entry[d].kind, labels |-> entry[d].labels]
        BY <3>2, <2>2, <1>2 DEF Inductive, Rechecked
      <4>2. entry[d].name \in Names /\ [kind |-> entry[d].kind,
                                        labels |-> entry[d].labels] \in Collectors
        BY DEF TypeOK, Entries, Collectors
      <4> QED
        BY <4>1, <4>2, <1>3
    <3> QED
      BY <3>1, <3>2
  <2> QED
    BY <2>1, <2>2, <1>1 DEF Rechecked
<1>9. Provenance'
  <2>1. registered'[Reserved] = registered[Reserved] /\ registered[Reserved] # None
    BY <1>3 DEF Inductive, Provenance, Collectors, Kinds
  <2>2. ASSUME NEW m \in Names \ {Reserved}, registered'[m] # None
        PROVE  \E d \in Calls : /\ entry[d].name = m
                               /\ entry[d].labels = registered'[m].labels
    <3>1. CASE registered'[m] = registered[m]
      BY <3>1, <2>2 DEF Inductive, Provenance
    <3>2. CASE registered'[m] # registered[m]
      BY <3>2, <1>4
    <3> QED
      BY <3>1, <3>2
  <2> QED
    BY <2>1, <2>2, <1>1 DEF Inductive, Provenance
<1> QED
  BY <1>5, <1>6, <1>7, <1>8, <1>9 DEF Inductive

(* An insert puts the collector its call has just registered where the     *)
(* second lookup found none.                                               *)
LEMMA InsertStep ==
  ASSUME TypeOK, Inductive, NEW c \in Calls, Insert(c)
  PROVE  Inductive'
<1> USE RegistryAssumption
<1> DEFINE j == entry[c].kind
           n == entry[c].name
<1>0. entry[c] \in Entries /\ j \in Kinds /\ n \in Names /\ entry[c].labels \in Keys
  BY DEF TypeOK, Entries
<1>1. registered' = registered /\ entry' = entry /\ filed' = filed
  BY DEF Insert
<1>2. /\ \A d \in Calls \ {c} : pc'[d] = pc[d] /\ vec'[d] = vec[d]
      /\ pc[c] = "insert" /\ pc'[c] = "observe" /\ vec'[c] = entry[c].labels
      /\ Found(c) = None /\ n # Reserved
      /\ registered[n] = [kind |-> j, labels |-> entry[c].labels]
  BY DEF Insert, Goto, TypeOK, Inductive, Rechecked
<1>3. /\ map'[j][n] = entry[c].labels
      /\ \A k \in Kinds, m \in Names : k # j \/ m # n => map'[k][m] = map[k][m]
  BY <1>0 DEF Insert, TypeOK
<1>4. MapsExported'
  BY <1>1, <1>2, <1>3 DEF Inductive, MapsExported
<1>5. \A d \in Calls : Found(d) # None => Found(d)' = Found(d)
  BY <1>1, <1>2, <1>3 DEF TypeOK, Entries, Found
<1>6. NothingStranded'
  <2> SUFFICES ASSUME NEW m \in Names \ {Reserved}, registered[m] # None
               PROVE  \/ map'[registered[m].kind][m] = registered[m].labels
                      \/ \E d \in Calls :
                           /\ pc'[d] = "insert" /\ entry[d].name = m
                           /\ registered[m] = [kind |-> entry[d].kind,
                                               labels |-> entry[d].labels]
    BY <1>1 DEF NothingStranded
  <2>1. CASE m = n
    BY <2>1, <1>2, <1>3
  <2>2. CASE m # n
    <3>1. registered[m].kind \in Kinds
      BY DEF TypeOK, Collectors
    <3> QED
      BY <2>2, <3>1, <1>2, <1>3 DEF Inductive, NothingStranded
  <2> QED
    BY <2>1, <2>2
<1>7. VecMapped'
  <2>1. Found(c)' = entry[c].labels
    BY <1>1, <1>3 DEF Found
  <2>2. ASSUME NEW d \in Calls, d # c, vec[d] # None PROVE Found(d)' = vec[d]
    <3>1. Found(d) = vec[d] /\ Found(d) # None
      BY <2>2 DEF Inductive, VecMapped
    <3>2. Found(d)' = Found(d)
      BY <3>1, <1>5
    <3> QED
      BY <3>1, <3>2
  <2>3. vec'[c] = Found(c)' /\ vec'[c] # None /\ filed'[c] = None
    BY <2>1, <1>0, <1>1, <1>2 DEF Inductive, VecMapped
  <2> QED
    BY <2>2, <2>3, <1>1, <1>2 DEF Inductive, VecMapped
<1>8. Rechecked'
  <2>1. ASSUME NEW d \in Calls, pc'[d] \in {"register", "insert"}
        PROVE  Found(d)' = None
    <3>1. d # c /\ pc[d] = pc'[d] /\ Found(d) = None
      BY <2>1, <1>2 DEF Inductive, Rechecked
    <3>2. entry[d].kind # j
      BY <3>1, <2>1, <1>0, <1>2 DEF TypeOK, LockDiscipline
    <3>3. Found(d)' = map'[entry[d].kind][entry[d].name]
      BY <1>1 DEF Found
    <3>4. map'[entry[d].kind][entry[d].name] = map[entry[d].kind][entry[d].name]
      BY <3>2, <1>3 DEF TypeOK, Entries
    <3> QED
      BY <3>1, <3>3, <3>4 DEF Found
  <2> QED
    BY <2>1, <1>1, <1>2 DEF Inductive, Rechecked
<1>9. Provenance'
  BY <1>1, <1>2, <1>3 DEF Inductive, Provenance
<1> QED
  BY <1>4, <1>6, <1>7, <1>8, <1>9 DEF Inductive

(* An observation is filed, or panics, on the collector its call was given. *)
LEMMA ObserveStep ==
  ASSUME TypeOK, Inductive, NEW c \in Calls, Observe(c)
  PROVE  Inductive'
<1>1. /\ registered' = registered /\ map' = map /\ entry' = entry /\ vec' = vec
      /\ \A d \in Calls : Found(d)' = Found(d)
  BY DEF Observe, Found
<1>2. /\ \A d \in Calls \ {c} : pc'[d] = pc[d] /\ filed'[d] = filed[d]
      /\ pc[c] = "observe" /\ pc'[c] \in {"observed", "panicked"}
  BY DEF Observe, Goto, TypeOK
<1>3. /\ pc'[c] = "observed" => /\ filed'[c] = vec[c]
                                /\ Len(entry[c].labels) = Len(vec[c])
      /\ pc'[c] = "panicked" => /\ filed'[c] = filed[c]
                                /\ Len(entry[c].labels) # Len(vec[c])
  BY DEF Observe, Goto, TypeOK
<1>4. MapsExported' /\ Provenance'
  BY <1>1 DEF Inductive, MapsExported, Provenance
<1>5. NothingStranded'
  BY <1>1, <1>2 DEF Inductive, NothingStranded
<1>6. VecMapped'
  BY <1>1, <1>2, <1>3 DEF Inductive, VecMapped
<1>7. Rechecked'
  BY <1>1, <1>2 DEF Inductive, Rechecked
<1> QED
  BY <1>4, <1>5, <1>6, <1>7 DEF Inductive

(* Every step preserves the invariant.                                     *)
LEMMA InductiveStep ==
  ASSUME TypeOK, Inductive, [Next]_vars
  PROVE  TypeOK' /\ Inductive'
<1>1. TypeOK'
  BY TypeStep
<1>2. ASSUME UNCHANGED vars PROVE Inductive'
  <2>1. \A c \in Calls : Found(c)' = Found(c)
    BY <1>2 DEF Found, vars, locks
  <2> QED
    BY <1>2, <2>1 DEF Inductive, MapsExported, NothingStranded, VecMapped, Rechecked,
                      Provenance, vars, locks
<1>3. ASSUME NEW c \in Calls, Update(c) PROVE Inductive'
  BY <1>3, LookupStep, RegisterStep, InsertStep, ObserveStep DEF Update
<1> QED
  BY <1>1, <1>2, <1>3 DEF Next, AllReturned

(* In every reachable state the maps and the registry agree, and each      *)
(* map's lock is held just where ensure_counter() and its siblings hold it. *)
THEOREM RegistryInvariance == Spec => [](TypeOK /\ Inductive)
<1>1. Init => TypeOK /\ Inductive
  BY TypeInit
<1>2. (TypeOK /\ Inductive) /\ [Next]_vars => (TypeOK /\ Inductive)'
  BY InductiveStep
<1> QED
  BY <1>1, <1>2, PTL DEF Spec

(* A lock of the three maps is held by the calls that are inside           *)
(* ensure_counter(), ensure_gauge() or ensure_histogram(), a writer alone. *)
THEOREM RegistryTypes == Spec => []TypeOK
BY RegistryInvariance, PTL

-----------------------------------------------------------------------------
(* A refused registration names its reason: had the name been exported for *)
(* the caller's own kind, the second lookup would have found it, or its    *)
(* creator would still hold the write lock.                                *)
LEMMA RefusedIsConflict ==
  ASSUME TypeOK, Inductive, NEW c \in Calls, pc[c] = "register",
         registered[entry[c].name] # None, entry[c].name # Reserved
  PROVE  registered[entry[c].name].kind # entry[c].kind
<1> USE RegistryAssumption
<1> DEFINE n == entry[c].name
<1>0. /\ n \in Names /\ entry[c].kind \in Kinds
      /\ registered[n].labels # None
  BY DEF TypeOK, Entries, Collectors
<1>1. SUFFICES ASSUME registered[n].kind = entry[c].kind PROVE FALSE
  OBVIOUS
<1>2. Found(c) = None
  BY DEF Inductive, Rechecked
<1>3. CASE map[registered[n].kind][n] = registered[n].labels
  BY <1>0, <1>1, <1>2, <1>3 DEF Found
<1>4. ASSUME NEW d \in Calls, pc[d] = "insert",
             registered[n] = [kind |-> entry[d].kind, labels |-> entry[d].labels]
      PROVE  FALSE
  <2>1. writer[entry[c].kind] = c /\ writer[entry[c].kind] = d
    BY <1>0, <1>1, <1>4 DEF TypeOK, LockDiscipline
  <2> QED
    BY <2>1, <1>4
<1> QED
  BY <1>0, <1>3, <1>4 DEF Inductive, NothingStranded

(* What a refusal rests on outlives every later step.                      *)
LEMMA ConflictStep ==
  ASSUME TypeOK, Inductive, OnlyConflictsDropped, [Next]_vars
  PROVE  OnlyConflictsDropped'
<1> USE RegistryAssumption
<1> DEFINE Conflict(c) == \/ entry[c].labels \in Invalid
                          \/ entry[c].name = Reserved
                          \/ /\ registered[entry[c].name] # None
                             /\ registered[entry[c].name].kind # entry[c].kind
<1>0. entry' = entry /\ \A c \in Calls : entry[c].name \in Names
  BY EntryStep DEF TypeOK, Entries
<1>1. \A n \in Names : registered[n] # None => registered'[n] = registered[n]
  <2>1. CASE registered' = registered
    BY <2>1
  <2>2. ASSUME NEW d \in Calls, Register(d)
        PROVE  \A n \in Names : registered[n] # None => registered'[n] = registered[n]
    BY <2>2, <1>0 DEF Register, TypeOK
  <2> QED
    BY <2>1, <2>2 DEF Next, AllReturned, Update, ReadLock, Lookup, WriteLock, Insert,
                      Observe, vars
<1>2. ASSUME NEW c \in Calls, pc'[c] = "dropped" PROVE pc[c] = "dropped" \/ Conflict(c)
  <2>1. CASE UNCHANGED vars
    BY <2>1, <1>2 DEF vars
  <2>2. ASSUME NEW d \in Calls, Update(d), d # c PROVE pc[c] = "dropped"
    BY <2>2, <1>2 DEF Update, ReadLock, Lookup, WriteLock, Register, Insert, Observe,
                      Goto, TypeOK
  <2>3. CASE Update(c)
    <3>1. \/ entry[c].labels \in Invalid
          \/ pc[c] = "register" /\ registered[entry[c].name] # None
      BY <2>3, <1>2 DEF Update, ReadLock, Lookup, WriteLock, Register, Insert, Observe,
                        Goto, TypeOK, LabelsMatch
    <3> QED
      BY <3>1, RefusedIsConflict
  <2> QED
    BY <2>1, <2>2, <2>3 DEF Next, AllReturned
<1>3. ASSUME NEW c \in Calls, pc'[c] = "dropped" PROVE Conflict(c)
  BY <1>3, <1>2 DEF OnlyConflictsDropped
<1>4. ASSUME NEW c \in Calls, Conflict(c) PROVE Conflict(c)'
  BY <1>4, <1>0, <1>1
<1> QED
  BY <1>3, <1>4 DEF OnlyConflictsDropped

(* Whatever the number of racing first observations, update() turns a call *)
(* away only for a conflict of kinds, a reserved name or invalid label     *)
(* keys.                                                                   *)
THEOREM NoLostFirst == Spec => []OnlyConflictsDropped
<1>1. Init => OnlyConflictsDropped
  BY DEF Init, OnlyConflictsDropped
<1>2. TypeOK /\ Inductive /\ OnlyConflictsDropped /\ [Next]_vars
        => OnlyConflictsDropped'
  BY ConflictStep
<1> QED
  BY <1>1, <1>2, RegistryInvariance, PTL DEF Spec

-----------------------------------------------------------------------------
(* A call's collector was built for some call that observed its name.      *)
LEMMA StableFromInvariant == TypeOK /\ Inductive => StableKeysSafe
<1> SUFFICES ASSUME TypeOK, Inductive, NEW c \in Calls,
                    \A d \in Calls : entry[d].name = entry[c].name =>
                      entry[d].labels = entry[c].labels
             PROVE  /\ pc[c] # "panicked"
                    /\ pc[c] = "observed" => filed[c] = entry[c].labels
  BY DEF StableKeysSafe
<1> USE RegistryAssumption
<1>1. SUFFICES ASSUME pc[c] \in {"observed", "panicked"}
               PROVE  vec[c] = entry[c].labels
  BY <1>1 DEF Inductive, VecMapped
<1>2. vec[c] # None /\ Found(c) = vec[c]
  BY <1>1 DEF Inductive, VecMapped
<1>3. /\ entry[c].kind \in Kinds /\ entry[c].name \in Names \ {Reserved}
  BY <1>2 DEF TypeOK, Entries, Inductive, Provenance, Found
<1>4. registered[entry[c].name] = [kind |-> entry[c].kind, labels |-> vec[c]]
  BY <1>2, <1>3 DEF Inductive, MapsExported, Found
<1>5. [kind |-> entry[c].kind, labels |-> vec[c]] # None
  BY <1>2, <1>3 DEF TypeOK, Collectors
<1>6. PICK d \in Calls : /\ entry[d].name = entry[c].name
                        /\ entry[d].labels = registered[entry[c].name].labels
  BY <1>3, <1>4, <1>5 DEF Inductive, Provenance
<1> QED
  BY <1>4, <1>6

(* In a program that observes each name with one list of label keys, no    *)
(* call of observe_counter(), observe_gauge() or observe_histogram()       *)
(* panics or files its sample elsewhere.                                   *)
THEOREM StableKeys == Spec => []StableKeysSafe
BY RegistryInvariance, StableFromInvariant, PTL
=============================================================================
