-------------------------- MODULE CompactionProofs --------------------------
(***************************************************************************)
(* Proofs about compaction.  For any number of loops: the types, and that  *)
(* only expired rows leave the partition.  For the one loop that init()    *)
(* spawns: that published files are complete, that no row is in two places,*)
(* and that the two tiers implement Tiering, whatever crashes and errors   *)
(* come in between.                                                        *)
(***************************************************************************)
EXTENDS CompactionProperties, FiniteSetTheorems, TLAPS

(* Expired rows.                                                           *)

(* The part of the state the argument is about.                            *)
RowTypes ==
  /\ now \in Nat
  /\ ts \in Seq(Nat)
  /\ hot \subseteq Rows
  /\ scan \in [Loops -> SUBSET Rows]
  /\ pend \in [Loops -> SUBSET Rows]
  /\ keys \in [Loops -> SUBSET Rows]

(* What a pass has in hand: rows to scan, rows buffered, keys to remove.   *)
Held(l) == scan[l] \cup pend[l] \cup keys[l]

(* Every row in the hands of a pass is older than the retention: it was at *)
(* the start of the pass, and the clock only moves on.                     *)
HeldExpired == \A l \in Loops : \A r \in Held(l) : ts[r] + Retention < now

Inductive == RowTypes /\ HeldExpired /\ ExpiredOnly

-----------------------------------------------------------------------------
(* The empty store has no rows.                                            *)
LEMMA InductiveInit == Init => Inductive
BY DEF Init, Inductive, RowTypes, HeldExpired, Held, ExpiredOnly, Rows

(* A row stays as old as it is when time passes.                           *)
LEMMA TickStep == ASSUME Inductive, Tick PROVE Inductive'
<1> USE CompactionAssumption
<1>1. /\ ts' = ts /\ hot' = hot /\ scan' = scan /\ pend' = pend /\ keys' = keys
      /\ now' = now + 1 /\ Rows' = Rows
  BY DEF Tick, store, Rows
<1>2. RowTypes'
  BY <1>1 DEF Inductive, RowTypes
<1>3. ASSUME NEW r \in Rows, ts[r] + Retention < now
      PROVE  ts'[r] + Retention < now'
  BY <1>1, <1>3 DEF Inductive, RowTypes, Rows
<1>4. HeldExpired'
  BY <1>1, <1>3 DEF Inductive, RowTypes, HeldExpired, Held
<1>5. ExpiredOnly'
  BY <1>1, <1>3 DEF Inductive, ExpiredOnly
<1> QED
  BY <1>2, <1>4, <1>5 DEF Inductive

(* A new row is in the partition, and no row changes its timestamp.        *)
LEMMA InsertStep == ASSUME Inductive, Insert PROVE Inductive'
<1> USE CompactionAssumption
<1> DEFINE new == Len(ts) + 1
<1>1. PICK t \in 0 .. now : ts' = Append(ts, t)
  BY DEF Insert
<1>2. /\ now' = now /\ hot' = hot \cup {new}
      /\ scan' = scan /\ pend' = pend /\ keys' = keys
  BY DEF Insert
<1>3. ts \in Seq(Nat) /\ now \in Nat /\ t \in Nat
  BY DEF Inductive, RowTypes
<1>4. ts' \in Seq(Nat) /\ Len(ts') = new /\ \A r \in Rows : ts'[r] = ts[r]
  BY <1>1, <1>3 DEF Rows
<1>5. Rows' = Rows \cup {new}
  BY <1>3, <1>4 DEF Rows
<1>6. RowTypes'
  BY <1>2, <1>3, <1>4, <1>5 DEF Inductive, RowTypes
<1>7. HeldExpired'
  BY <1>2, <1>4 DEF Inductive, RowTypes, HeldExpired, Held
<1>8. ExpiredOnly'
  BY <1>2, <1>4, <1>5 DEF Inductive, ExpiredOnly
<1> QED
  BY <1>6, <1>7, <1>8 DEF Inductive

(* A pass starts with expired rows only: the cutoff is the retention ago,  *)
(* and no row is older than the clock.                                     *)
LEMMA ScanExpired ==
  ASSUME Inductive, NEW r \in Expired
  PROVE  r \in Rows /\ ts[r] + Retention < now
<1> USE CompactionAssumption
<1>1. r \in Rows /\ ts[r] \in Nat /\ now \in Nat /\ ts[r] < Cutoff
  BY DEF Inductive, RowTypes, Expired, Rows
<1> QED
  BY <1>1 DEF Cutoff

(* A step that takes nothing into hand but what it held, and removes only  *)
(* what it held.                                                           *)
LEMMA HandsStep ==
  ASSUME Inductive, now' = now, ts' = ts,
         scan' \in [Loops -> SUBSET Rows], pend' \in [Loops -> SUBSET Rows],
         keys' \in [Loops -> SUBSET Rows],
         \A l \in Loops : \A r \in Held(l)' : ts[r] + Retention < now,
         hot' \subseteq hot,
         \A r \in hot \ hot' : ts[r] + Retention < now
  PROVE  Inductive'
<1>1. Rows' = Rows
  BY DEF Rows
<1>2. RowTypes'
  BY <1>1 DEF Inductive, RowTypes
<1>3. HeldExpired'
  BY DEF HeldExpired
<1>4. ExpiredOnly'
  BY <1>1 DEF Inductive, ExpiredOnly
<1> QED
  BY <1>2, <1>3, <1>4 DEF Inductive

(* Each step of a pass.                                                    *)
LEMMA PassStep == ASSUME Inductive, NEW l \in Loops, PassNext(l) PROVE Inductive'
<1> USE CompactionAssumption
<1>0. /\ scan \in [Loops -> SUBSET Rows] /\ pend \in [Loops -> SUBSET Rows]
      /\ keys \in [Loops -> SUBSET Rows] /\ hot \subseteq Rows
      /\ \A m \in Loops : \A r \in Held(m) : ts[r] + Retention < now
  BY DEF Inductive, RowTypes, HeldExpired
<1>1. ASSUME PassBegin(l) PROVE Inductive'
  <2>1. /\ now' = now /\ ts' = ts /\ hot' = hot /\ pend' = pend /\ keys' = keys
        /\ scan' = [scan EXCEPT ![l] = Expired]
    BY <1>1 DEF PassBegin, store
  <2>2. scan' \in [Loops -> SUBSET Rows]
    BY <2>1, <1>0, ScanExpired
  <2>3. \A m \in Loops : \A r \in Held(m)' : ts[r] + Retention < now
    BY <2>1, <1>0, ScanExpired DEF Held
  <2> QED
    BY <2>1, <2>2, <2>3, <1>0, HandsStep
<1>2. ASSUME PassRow(l) PROVE Inductive'
  <2>1. PICK r \in scan[l] :
          /\ scan' = [scan EXCEPT ![l] = @ \ {r}]
          /\ pend' = pend \/ pend' = [pend EXCEPT ![l] = @ \cup {r}]
    BY <1>2 DEF PassRow, FirstKeys
  <2>2. now' = now /\ ts' = ts /\ hot' = hot /\ keys' = keys
    BY <1>2 DEF PassRow, store
  <2>3. scan' \in [Loops -> SUBSET Rows] /\ pend' \in [Loops -> SUBSET Rows]
    BY <2>1, <1>0
  <2>4. \A m \in Loops : Held(m)' \subseteq Held(m)
    BY <2>1, <2>2, <1>0 DEF Held
  <2> QED
    BY <2>2, <2>3, <2>4, <1>0, HandsStep
<1>3. ASSUME PassFlush(l) PROVE Inductive'
  <2>1. /\ keys' = [keys EXCEPT ![l] = pend[l]] /\ pend' = [pend EXCEPT ![l] = {}]
        /\ now' = now /\ ts' = ts /\ hot' = hot /\ scan' = scan
    BY <1>3 DEF PassFlush, store
  <2>2. keys' \in [Loops -> SUBSET Rows] /\ pend' \in [Loops -> SUBSET Rows]
    BY <2>1, <1>0
  <2>3. \A m \in Loops : Held(m)' \subseteq Held(m)
    BY <2>1, <1>0 DEF Held
  <2> QED
    BY <2>1, <2>2, <2>3, <1>0, HandsStep
<1>4. ASSUME PassRemove(l) PROVE Inductive'
  <2>1. PICK r \in keys[l] : /\ keys' = [keys EXCEPT ![l] = @ \ {r}]
                             /\ hot' = hot \/ hot' = hot \ {r}
    BY <1>4 DEF PassRemove, FirstKeys
  <2>2. now' = now /\ ts' = ts /\ scan' = scan /\ pend' = pend
    BY <1>4 DEF PassRemove
  <2>3. keys' \in [Loops -> SUBSET Rows]
    BY <2>1, <1>0
  <2>4. \A m \in Loops : Held(m)' \subseteq Held(m)
    BY <2>1, <2>2, <1>0 DEF Held
  <2>5. hot' \subseteq hot /\ \A q \in hot \ hot' : ts[q] + Retention < now
    BY <2>1, <1>0 DEF Held
  <2> QED
    BY <2>2, <2>3, <2>4, <2>5, <1>0, HandsStep
<1>5. ASSUME EndPass(l), now' = now, ts' = ts, hot' = hot PROVE Inductive'
  <2>1. /\ scan' \in [Loops -> SUBSET Rows] /\ pend' \in [Loops -> SUBSET Rows]
        /\ keys' \in [Loops -> SUBSET Rows]
    BY <1>5, <1>0 DEF EndPass
  <2>2. \A m \in Loops : Held(m)' \subseteq Held(m)
    BY <1>5, <1>0 DEF EndPass, Held
  <2> QED
    BY <1>5, <2>1, <2>2, <1>0, HandsStep
<1>6. ASSUME PassClose(l) PROVE Inductive'
  <2>1. now' = now /\ ts' = ts /\ hot' = hot
    BY <1>6 DEF PassClose, store
  <2>2. CASE UNCHANGED <<scan, pend, keys>>
    <3>1. \A m \in Loops : Held(m)' = Held(m)
      BY <2>2 DEF Held
    <3> QED
      BY <2>1, <2>2, <3>1, <1>0, HandsStep
  <2> QED
    BY <1>6, <2>1, <2>2, <1>5 DEF PassClose
<1>7. ASSUME PassRename(l) \/ PassError(l) PROVE Inductive'
  BY <1>7, <1>5 DEF PassRename, PassError, store
<1> QED
  BY <1>1, <1>2, <1>3, <1>4, <1>6, <1>7 DEF PassNext

(* A crash empties the hands of every pass.                                *)
LEMMA CrashStep == ASSUME Inductive, Crash PROVE Inductive'
<1>1. /\ now' = now /\ ts' = ts /\ hot' = hot
      /\ scan' = [l \in Loops |-> {}] /\ pend' = [l \in Loops |-> {}]
      /\ keys' = [l \in Loops |-> {}]
  BY DEF Crash, store
<1>2. \A l \in Loops : Held(l)' = {}
  BY <1>1 DEF Held
<1> QED
  BY <1>1, <1>2, HandsStep

(* A step that touches nothing.                                            *)
LEMMA StutterStep == ASSUME Inductive, UNCHANGED vars PROVE Inductive'
<1>1. Rows' = Rows /\ \A l \in Loops : Held(l)' = Held(l)
  BY DEF Rows, Held, vars, store
<1> QED
  BY <1>1 DEF Inductive, RowTypes, HeldExpired, ExpiredOnly, vars, store

(* Whatever loops, crashes and failures there are, and however late a row  *)
(* was inserted, run_compaction_once_blocking() removes no row from the    *)
(* partition that is not older than the retention.                         *)
THEOREM OnlyExpiredLeave == Spec => []ExpiredOnly
<1>1. Inductive /\ [Next]_vars => Inductive'
  BY TickStep, InsertStep, CrashStep, PassStep, StutterStep DEF Next
<1>2. Inductive => ExpiredOnly
  BY DEF Inductive
<1> QED
  BY InductiveInit, <1>1, <1>2, PTL DEF Spec

-----------------------------------------------------------------------------
(* Files.                                                                  *)

(* A row in hand has a file to go to, and an open file has rows.           *)
FiledAt(l) ==
  /\ pend[l] # {} => out[l] # None
  /\ out[l] # None => tmpAt[l] # None
  /\ pc[l] = "scan" /\ out[l] # None => pend[l] \cup written[l] # {}
  /\ pc[l] = "remove" => written[l] # {}
  /\ pc[l] = "sleep" => out[l] = None

Filed == \A l \in Loops : FiledAt(l)
Typed == TypeOK /\ Filed

(* What TypeOK says of each loop besides its types.                        *)
PlacedAt(l) ==
  /\ pc[l] = "remove" => keys[l] # {} /\ out[l] # None
  /\ pc[l] = "rename" => out[l] # None /\ written[l] # {}
  /\ Cardinality(pend[l]) <= Chunk

(* A step of another loop.                                                 *)
Kept(l) ==
  /\ pc'[l] = pc[l] /\ keys'[l] = keys[l] /\ out'[l] = out[l]
  /\ tmpAt'[l] = tmpAt[l] /\ written'[l] = written[l] /\ pend'[l] = pend[l]

-----------------------------------------------------------------------------
(* Whole seconds of the clock, and their order.                            *)
LEMMA SecondOf ==
  ASSUME NEW n \in Nat
  PROVE  /\ Second(n) \in Nat
         /\ Second(n) * TicksPerSecond <= n
         /\ n < Second(n) * TicksPerSecond + TicksPerSecond
BY CompactionAssumption DEF Second

(* The seconds of the clock name exports.                                  *)
LEMMA SecondInRange == ASSUME NEW n \in 0 .. MaxNow PROVE Second(n) \in Seconds
<1>1. Second(n) \in Nat /\ Second(MaxNow) \in Nat /\ Second(n) <= Second(MaxNow)
  BY CompactionAssumption DEF Second
<1> QED
  BY <1>1 DEF Seconds

(* A chunk is finite, and one row makes it one larger.                     *)
LEMMA ChunkGrows ==
  ASSUME NEW S \in SUBSET Rows, NEW r, Len(ts) \in Nat, Cardinality(S) < Chunk
  PROVE  Cardinality(S \cup {r}) <= Chunk
<1>0. IsFiniteSet(1 .. Len(ts))
  BY FS_Interval
<1>1. IsFiniteSet(S)
  BY <1>0, FS_Subset DEF Rows
<1>2. Cardinality(S) \in Nat
  BY <1>1, FS_CardinalityType
<1>3. Cardinality(S \cup {r}) <= Cardinality(S) + 1
  BY <1>1, <1>2, FS_AddElement
<1>4. Cardinality(S \cup {r}) \in Nat
  BY <1>1, FS_AddElement, FS_CardinalityType
<1> QED
  BY <1>2, <1>3, <1>4, CompactionAssumption

(* A step of one loop leaves the others where they are.                    *)
LEMMA OthersKept ==
  ASSUME Typed, NEW l \in Loops, FiledAt(l)', PlacedAt(l)',
         \A m \in Loops \ {l} : Kept(m)
  PROVE  Filed' /\ \A m \in Loops : PlacedAt(m)'
<1> SUFFICES ASSUME NEW m \in Loops PROVE FiledAt(m)' /\ PlacedAt(m)'
  BY DEF Filed
<1>1. CASE m = l
  BY <1>1
<1>2. CASE m # l
  <2>1. FiledAt(m) /\ PlacedAt(m)
    BY DEF Typed, Filed, TypeOK, PlacedAt
  <2>2. Kept(m)
    BY <1>2
  <2>3. pend'[m] = pend[m]
    BY <2>2 DEF Kept
  <2>4. Cardinality(pend'[m]) <= Chunk
    BY <2>1, <2>3 DEF PlacedAt
  <2> QED
    BY <2>1, <2>2, <2>4 DEF Kept, FiledAt, PlacedAt
<1> QED
  BY <1>1, <1>2

(* The empty store and directory.                                          *)
LEMMA TypedInit == Init => Typed
<1> SUFFICES ASSUME Init PROVE Typed
  OBVIOUS
<1> USE CompactionAssumption DEF Init
<1>1. Rows = {} /\ 0 \in 0 .. MaxNow /\ 0 \in 0 .. MaxFiles
  BY DEF Rows
<1>2. Cardinality({}) = 0
  BY FS_EmptySet
<1>3. {scan, pend, keys, written} \subseteq [Loops -> SUBSET Rows]
  BY <1>1
<1> QED
  BY <1>1, <1>2, <1>3 DEF Typed, TypeOK, Filed, FiledAt

(* Opening an export: a fresh file, or the one that an earlier pass left   *)
(* under the temporary name of this second.                                *)
LEMMA OpenTypes ==
  ASSUME TypeOK, NEW l \in Loops, OpenExport(l)
  PROVE  /\ tmp' \in [Seconds -> Files \cup {None}]
         /\ made' \in 0 .. MaxFiles
         /\ body' \in [Files -> SUBSET Rows]
         /\ whole' \subseteq Files /\ torn' \subseteq Files
         /\ out' \in [Loops -> Files \cup {None}] /\ out'[l] # None
         /\ tmpAt' \in [Loops -> Seconds \cup {None}] /\ tmpAt'[l] # None
         /\ \A m \in Loops \ {l} : out'[m] = out[m] /\ tmpAt'[m] = tmpAt[m]
<1> USE CompactionAssumption
<1> DEFINE s == Second(now)
           f == IF tmp[s] = None THEN made + 1 ELSE tmp[s]
<1>1. /\ f \in Files /\ tmp' = [tmp EXCEPT ![s] = f]
      /\ made' = IF tmp[s] = None THEN made + 1 ELSE made
      /\ body' = [body EXCEPT ![f] = {}] /\ whole' = whole \ {f}
      /\ torn' = torn \cup {f} \/ torn' = torn \ {f}
      /\ out' = [out EXCEPT ![l] = f] /\ tmpAt' = [tmpAt EXCEPT ![l] = s]
  BY DEF OpenExport
<1>2. s \in Seconds /\ s # None /\ f # None
  BY <1>1, SecondInRange DEF TypeOK, Seconds, Files
<1>3. made' \in 0 .. MaxFiles
  BY <1>1 DEF TypeOK, Files
<1> HIDE DEF s, f
<1> QED
  BY <1>1, <1>2, <1>3 DEF TypeOK

(* The end of a pass empties its hands.                                    *)
LEMMA EndTypes ==
  ASSUME Typed, NEW l \in Loops, EndPass(l), UNCHANGED <<now, store>>,
         tmp' \in [Seconds -> Files \cup {None}],
         cold' \in [Seconds -> Files \cup {None}],
         UNCHANGED contents, failed' \subseteq Faults
  PROVE  Typed'
<1> USE CompactionAssumption
<1>1. Rows' = Rows /\ ts' = ts /\ hot' = hot
  BY DEF Rows, store
<1>2. {} \in SUBSET Rows /\ Cardinality({}) = 0
  BY FS_EmptySet
<1>3. {scan', pend', keys', written'} \subseteq [Loops -> SUBSET Rows]
  BY <1>2 DEF EndPass, Typed, TypeOK
<1>4. /\ pc' \in [Loops -> {"sleep", "scan", "remove", "rename"}]
      /\ rest' \in [Loops -> 0 .. MaxNow]
      /\ out' \in [Loops -> Files \cup {None}]
      /\ tmpAt' \in [Loops -> Seconds \cup {None}]
  BY DEF EndPass, Typed, TypeOK
<1>5. \A m \in Loops \ {l} : Kept(m)
  BY DEF EndPass, Kept, Typed, TypeOK
<1>6. pc'[l] = "sleep" /\ pend'[l] = {} /\ out'[l] = None
  BY DEF EndPass, Typed, TypeOK
<1>7. Cardinality(pend'[l]) <= Chunk
  BY <1>2, <1>6
<1>8. FiledAt(l)' /\ PlacedAt(l)'
  BY <1>6, <1>7 DEF FiledAt, PlacedAt
<1>9. Filed' /\ \A m \in Loops : PlacedAt(m)'
  BY <1>5, <1>8, OthersKept
<1> QED
  BY <1>1, <1>3, <1>4, <1>9 DEF Typed, TypeOK, PlacedAt, contents

(* A new row widens the types of all sets of rows.                         *)
LEMMA StoreTypes == ASSUME Typed, Tick \/ Insert PROVE Typed'
<1> USE CompactionAssumption
<1>1. /\ UNCHANGED <<pc, rest, scan, pend, keys, written, out, tmpAt, tmp, cold,
                     body, whole, torn, made, failed>>
      /\ now' \in 0 .. MaxNow
  BY DEF Tick, Insert, directory, contents, Typed, TypeOK
<1>2. Filed'
  BY <1>1 DEF Typed, Filed, FiledAt
<1>3. ts' \in Seq(0 .. MaxNow) /\ Len(ts') <= MaxRows /\ hot' \subseteq Rows'
      /\ Rows \subseteq Rows'
  <2>1. CASE Tick
    BY <2>1 DEF Tick, store, Typed, TypeOK, Rows
  <2>2. CASE Insert
    <3>1. PICK t \in 0 .. now : ts' = Append(ts, t)
      BY <2>2 DEF Insert
    <3>2. t \in 0 .. MaxNow /\ ts \in Seq(0 .. MaxNow) /\ Len(ts) < MaxRows
      BY <2>2 DEF Insert, Typed, TypeOK
    <3>3. ts' \in Seq(0 .. MaxNow) /\ Len(ts') = Len(ts) + 1
      BY <3>1, <3>2
    <3>4. Rows' = Rows \cup {Len(ts) + 1}
      BY <3>2, <3>3 DEF Rows
    <3>5. hot' = hot \cup {Len(ts) + 1} /\ hot \subseteq Rows
      BY <2>2 DEF Insert, Typed, TypeOK
    <3>6. Len(ts) \in Nat /\ Len(ts') <= MaxRows
      BY <3>2, <3>3
    <3> QED
      BY <3>3, <3>4, <3>5, <3>6
  <2> QED
    BY <2>1, <2>2
<1>4. /\ {scan, pend, keys, written} \subseteq [Loops -> SUBSET Rows']
      /\ body \in [Files -> SUBSET Rows']
  BY <1>3 DEF Typed, TypeOK
<1>5. \A l \in Loops : Cardinality(pend'[l]) <= Chunk
  <2>1. \A l \in Loops : pend'[l] = pend[l] /\ Cardinality(pend[l]) <= Chunk
    BY <1>1 DEF Typed, TypeOK
  <2> QED
    BY <1>1 DEF Typed, TypeOK
<1> QED
  BY <1>1, <1>2, <1>3, <1>4, <1>5 DEF Typed, TypeOK

(* Each step of a pass.                                                    *)
LEMMA PassTypes == ASSUME Typed, NEW l \in Loops, PassNext(l) PROVE Typed'
<1> USE CompactionAssumption
<1>0. /\ {scan, pend, keys, written} \subseteq [Loops -> SUBSET Rows]
      /\ out \in [Loops -> Files \cup {None}]
      /\ tmpAt \in [Loops -> Seconds \cup {None}]
      /\ pc \in [Loops -> {"sleep", "scan", "remove", "rename"}]
      /\ hot \subseteq Rows /\ Len(ts) \in Nat /\ Cardinality(pend[l]) <= Chunk
      /\ ts \in Seq(0 .. MaxNow) /\ FiledAt(l) /\ PlacedAt(l)
  BY DEF Typed, TypeOK, Filed, PlacedAt
<1>1. CASE PassBegin(l)
  <2>1. /\ pc[l] = "sleep" /\ pc' = [pc EXCEPT ![l] = "scan"]
        /\ scan' = [scan EXCEPT ![l] = Expired]
        /\ UNCHANGED <<now, ts, hot, rest, pend, keys, written, out, tmpAt, tmp,
                       cold, body, whole, torn, made, failed>>
    BY <1>1 DEF PassBegin, store, directory, contents
  <2>2. Rows' = Rows /\ scan' \in [Loops -> SUBSET Rows]
    BY <2>1, <1>0 DEF Rows, Expired
  <2>3. FiledAt(l)' /\ PlacedAt(l)'
    BY <2>1, <1>0 DEF FiledAt, PlacedAt
  <2>4. \A m \in Loops \ {l} : Kept(m)
    BY <2>1, <1>0 DEF Kept
  <2>5. Filed' /\ \A m \in Loops : PlacedAt(m)'
    BY <2>3, <2>4, OthersKept
  <2> QED
    BY <2>1, <2>2, <2>5, <1>0 DEF Typed, TypeOK, PlacedAt
<1>2. CASE PassRow(l)
  <2>1. PICK r \in scan[l] :
          /\ scan' = [scan EXCEPT ![l] = @ \ {r}]
          /\ \/ /\ pend' = [pend EXCEPT ![l] = @ \cup {r}]
                /\ IF out[l] = None THEN OpenExport(l)
                   ELSE UNCHANGED <<tmp, body, whole, torn, made, out, tmpAt>>
             \/ UNCHANGED <<pend, tmp, body, whole, torn, made, out, tmpAt>>
    BY <1>2 DEF PassRow, FirstKeys
  <2>2. /\ pc[l] = "scan" /\ Cardinality(pend[l]) < Chunk
        /\ UNCHANGED <<now, ts, hot, pc, rest, keys, written, cold, failed>>
    BY <1>2 DEF PassRow, store
  <2>3. Rows' = Rows /\ r \in Rows
    BY <2>1, <2>2, <1>0 DEF Rows
  <2>4. pend' = pend \/ pend' = [pend EXCEPT ![l] = @ \cup {r}]
    BY <2>1
  <2>5. /\ {scan', pend', keys', written'} \subseteq [Loops -> SUBSET Rows]
        /\ pend'[l] = pend[l] \/ pend'[l] = pend[l] \cup {r}
        /\ \A m \in Loops \ {l} : pend'[m] = pend[m]
    <3>1. scan' \in [Loops -> SUBSET Rows] /\ keys' = keys /\ written' = written
      BY <2>1, <2>2, <1>0
    <3>2. pend' \in [Loops -> SUBSET Rows]
      BY <2>3, <2>4, <1>0
    <3>3. /\ pend'[l] = pend[l] \/ pend'[l] = pend[l] \cup {r}
          /\ \A m \in Loops \ {l} : pend'[m] = pend[m]
      BY <2>4, <1>0
    <3> QED
      BY <3>1, <3>2, <3>3, <1>0
  <2>6. Cardinality(pend[l] \cup {r}) <= Chunk
    BY <2>2, <1>0, ChunkGrows
  <2>7. Cardinality(pend'[l]) <= Chunk
    BY <2>5, <2>6, <1>0
  <2>8. PlacedAt(l)'
    BY <2>2, <2>7 DEF PlacedAt
  <2>9. CASE OpenExport(l) /\ pend' = [pend EXCEPT ![l] = @ \cup {r}]
    <3>1. \A m \in Loops \ {l} : Kept(m)
      BY <2>2, <2>5, <2>9, OpenTypes DEF Typed, Kept
    <3>2. out'[l] # None /\ tmpAt'[l] # None
      BY <2>9, OpenTypes DEF Typed
    <3>3. FiledAt(l)'
      BY <2>2, <2>9, <3>2, <1>0 DEF FiledAt
    <3>4. Filed' /\ \A m \in Loops : PlacedAt(m)'
      BY <2>8, <3>1, <3>3, OthersKept
    <3>5. /\ tmp' \in [Seconds -> Files \cup {None}]
          /\ made' \in 0 .. MaxFiles /\ body' \in [Files -> SUBSET Rows']
          /\ whole' \subseteq Files /\ torn' \subseteq Files
          /\ out' \in [Loops -> Files \cup {None}]
          /\ tmpAt' \in [Loops -> Seconds \cup {None}]
      BY <2>3, <2>9, OpenTypes DEF Typed
    <3> QED
      BY <2>2, <2>3, <2>5, <3>4, <3>5 DEF Typed, TypeOK, PlacedAt
  <2>10. CASE UNCHANGED <<tmp, body, whole, torn, made, out, tmpAt>>
              /\ (pend' = pend \/ out[l] # None)
    <3>1. FiledAt(l)'
      BY <2>2, <2>5, <2>10, <1>0 DEF FiledAt
    <3>2. \A m \in Loops \ {l} : Kept(m)
      BY <2>2, <2>5, <2>10 DEF Kept
    <3>3. Filed' /\ \A m \in Loops : PlacedAt(m)'
      BY <2>8, <3>1, <3>2, OthersKept
    <3> QED
      BY <2>2, <2>3, <2>5, <2>10, <3>3 DEF Typed, TypeOK, PlacedAt
  <2> QED
    BY <2>1, <2>9, <2>10
<1>3. CASE PassFlush(l)
  <2>1. /\ pend[l] # {} /\ pc[l] = "scan" /\ pc' = [pc EXCEPT ![l] = "remove"]
        /\ written' = [written EXCEPT ![l] = @ \cup pend[l]]
        /\ keys' = [keys EXCEPT ![l] = pend[l]]
        /\ pend' = [pend EXCEPT ![l] = {}]
        /\ UNCHANGED <<now, ts, hot, rest, scan, out, tmpAt, tmp, cold, body,
                       whole, torn, made, failed>>
    BY <1>3 DEF PassFlush, store, directory, contents
  <2>2. /\ Rows' = Rows
        /\ {scan', pend', keys', written'} \subseteq [Loops -> SUBSET Rows]
    BY <2>1, <1>0 DEF Rows
  <2>3. /\ pend'[l] = {} /\ keys'[l] # {} /\ written'[l] # {} /\ out'[l] # None
        /\ tmpAt'[l] # None /\ pc'[l] = "remove"
    BY <2>1, <1>0 DEF FiledAt
  <2>4. Cardinality(pend'[l]) <= Chunk
    BY <2>3, FS_EmptySet
  <2>5. FiledAt(l)' /\ PlacedAt(l)'
    BY <2>3, <2>4 DEF FiledAt, PlacedAt
  <2>6. \A m \in Loops \ {l} : Kept(m)
    BY <2>1, <1>0 DEF Kept
  <2>7. Filed' /\ \A m \in Loops : PlacedAt(m)'
    BY <2>5, <2>6, OthersKept
  <2>8. pc' \in [Loops -> {"sleep", "scan", "remove", "rename"}]
    BY <2>1, <1>0
  <2> QED
    BY <2>1, <2>2, <2>7, <2>8 DEF Typed, TypeOK, PlacedAt
<1>4. CASE PassRemove(l)
  <2>1. PICK r \in keys[l] : /\ keys' = [keys EXCEPT ![l] = @ \ {r}]
                             /\ hot' = hot \/ hot' = hot \ {r}
                             /\ failed' \subseteq Faults
    BY <1>4 DEF PassRemove, FirstKeys, Typed, TypeOK
  <2>2. /\ pc[l] = "remove"
        /\ pc' = [pc EXCEPT ![l] = IF keys'[l] = {} THEN "scan" ELSE "remove"]
        /\ UNCHANGED <<now, ts, rest, scan, pend, written, out, tmpAt, tmp, cold,
                       body, whole, torn, made>>
    BY <1>4 DEF PassRemove, directory, contents
  <2>3. Rows' = Rows /\ hot' \subseteq Rows
    BY <2>1, <2>2, <1>0 DEF Rows
  <2>4. {scan', pend', keys', written'} \subseteq [Loops -> SUBSET Rows]
    BY <2>1, <2>2, <2>3, <1>0
  <2>5. /\ pc'[l] \in {"scan", "remove"} /\ (pc'[l] = "remove" => keys'[l] # {})
        /\ written'[l] # {} /\ out'[l] # None /\ tmpAt'[l] # None
        /\ pend'[l] = pend[l]
    BY <2>1, <2>2, <1>0 DEF FiledAt, PlacedAt
  <2>6. Cardinality(pend'[l]) <= Chunk
    BY <2>5, <1>0
  <2>7. FiledAt(l)' /\ PlacedAt(l)'
    BY <2>5, <2>6 DEF FiledAt, PlacedAt
  <2>8. \A m \in Loops \ {l} : Kept(m)
    BY <2>1, <2>2, <1>0 DEF Kept
  <2>9. Filed' /\ \A m \in Loops : PlacedAt(m)'
    BY <2>7, <2>8, OthersKept
  <2>10. pc' \in [Loops -> {"sleep", "scan", "remove", "rename"}]
    BY <2>2, <1>0
  <2> QED
    BY <2>1, <2>2, <2>3, <2>4, <2>9, <2>10 DEF Typed, TypeOK, PlacedAt
<1>5. CASE PassClose(l)
  <2>1. UNCHANGED <<now, store, tmp, cold, torn, made, failed>>
    BY <1>5 DEF PassClose, directory
  <2>2. CASE EndPass(l) /\ UNCHANGED <<body, whole>>
    BY <2>1, <2>2, EndTypes DEF contents, Typed, TypeOK
  <2>3. CASE ~(EndPass(l) /\ UNCHANGED <<body, whole>>)
    <3>1. /\ out[l] # None /\ pc[l] = "scan" /\ pend[l] = {}
          /\ pc' = [pc EXCEPT ![l] = "rename"]
          /\ body' = [body EXCEPT ![out[l]] = written[l]]
          /\ whole' = whole \ {out[l]} \/ whole' = whole \cup {out[l]}
          /\ UNCHANGED <<rest, scan, pend, keys, written, out, tmpAt>>
      BY <1>5, <2>3 DEF PassClose
    <3>2. /\ Rows' = Rows /\ out[l] \in Files
          /\ body' \in [Files -> SUBSET Rows] /\ whole' \subseteq Files
          /\ pc' \in [Loops -> {"sleep", "scan", "remove", "rename"}]
      BY <2>1, <3>1, <1>0 DEF Rows, store, Typed, TypeOK
    <3>3. written[l] # {} /\ pend'[l] = {} /\ pc'[l] = "rename"
      BY <3>1, <1>0 DEF FiledAt
    <3>4. Cardinality(pend'[l]) <= Chunk
      BY <3>3, FS_EmptySet
    <3>5. FiledAt(l)' /\ PlacedAt(l)'
      BY <3>1, <3>3, <3>4, <1>0 DEF FiledAt, PlacedAt
    <3>6. \A m \in Loops \ {l} : Kept(m)
      BY <3>1, <1>0 DEF Kept
    <3>7. Filed' /\ \A m \in Loops : PlacedAt(m)'
      BY <3>5, <3>6, OthersKept
    <3> QED
      BY <2>1, <3>1, <3>2, <3>7 DEF store, Typed, TypeOK, PlacedAt
  <2> QED
    BY <2>2, <2>3
<1>6. CASE PassRename(l)
  <2>1. /\ EndPass(l) /\ pc[l] = "rename" /\ UNCHANGED <<now, store, contents, failed>>
        /\ \/ /\ cold' = [cold EXCEPT ![Second(now)] = tmp[tmpAt[l]]]
              /\ tmp' = [tmp EXCEPT ![tmpAt[l]] = None]
           \/ UNCHANGED <<tmp, cold>>
    BY <1>6 DEF PassRename, directory
  <2>2. tmpAt[l] \in Seconds
    BY <2>1, <1>0 DEF FiledAt, PlacedAt
  <2>3. /\ tmp' \in [Seconds -> Files \cup {None}]
        /\ cold' \in [Seconds -> Files \cup {None}]
    BY <2>1, <2>2 DEF Typed, TypeOK
  <2> QED
    BY <2>1, <2>3, EndTypes DEF Typed, TypeOK
<1>7. CASE PassError(l)
  BY <1>7, EndTypes DEF PassError, directory, contents, Typed, TypeOK
<1> QED
  BY <1>1, <1>2, <1>3, <1>4, <1>5, <1>6, <1>7 DEF PassNext

(* A crash empties the hands of every pass.                                *)
LEMMA CrashTypes == ASSUME Typed, Crash PROVE Typed'
<1> USE CompactionAssumption
<1>1. /\ pc' = [l \in Loops |-> "sleep"] /\ rest' = [l \in Loops |-> now]
      /\ scan' = [l \in Loops |-> {}] /\ pend' = [l \in Loops |-> {}]
      /\ keys' = [l \in Loops |-> {}] /\ written' = [l \in Loops |-> {}]
      /\ out' = [l \in Loops |-> None] /\ tmpAt' = [l \in Loops |-> None]
      /\ failed' \subseteq Faults
      /\ UNCHANGED <<now, ts, hot, tmp, cold, body, whole, torn, made>>
  BY DEF Crash, store, directory, contents, Typed, TypeOK
<1>2. Rows' = Rows
  BY <1>1 DEF Rows
<1>3. {scan', pend', keys', written'} \subseteq [Loops -> SUBSET Rows]
  BY <1>1
<1>4. \A l \in Loops : pend'[l] = {} /\ Cardinality({}) <= Chunk
  BY <1>1, FS_EmptySet
<1>5. \A l \in Loops : FiledAt(l)' /\ PlacedAt(l)'
  <2> SUFFICES ASSUME NEW l \in Loops PROVE FiledAt(l)' /\ PlacedAt(l)'
    OBVIOUS
  <2>1. Cardinality(pend'[l]) <= Chunk
    BY <1>4
  <2> QED
    BY <1>1, <2>1 DEF FiledAt, PlacedAt
<1> QED
  BY <1>1, <1>2, <1>3, <1>5 DEF Typed, TypeOK, Filed, PlacedAt

(* Every step keeps the types.                                             *)
LEMMA TypedStep == ASSUME Typed, [Next]_vars PROVE Typed'
<1>1. CASE UNCHANGED vars
  <2>1. \A l \in Loops : Cardinality(pend[l]) <= Chunk => Cardinality(pend'[l]) <= Chunk
    BY <1>1 DEF vars
  <2>2. TypeOK'
    BY <1>1, <2>1 DEF vars, store, directory, contents, Typed, TypeOK, Rows
  <2>3. Filed'
    BY <1>1 DEF vars, Typed, Filed, FiledAt
  <2> QED
    BY <2>2, <2>3 DEF Typed
<1> QED
  BY <1>1, StoreTypes, PassTypes, CrashTypes DEF Next

(* Every variable keeps its type, and a pass has what its place needs,     *)
(* with any number of compaction loops.                                    *)
THEOREM ExportTypes == Spec => []TypeOK
<1>1. Typed => TypeOK
  BY DEF Typed
<1> QED
  BY TypedInit, TypedStep, <1>1, PTL DEF Spec

-----------------------------------------------------------------------------
(* A whole export is a file.                                               *)
LEMMA WholeAreFiles == ASSUME TypeOK PROVE whole \subseteq Files /\ None \notin whole
<1>1. \A f \in Files : f \in Nat
  BY CompactionAssumption DEF Files
<1>2. None \notin Nat
  BY CompactionAssumption
<1> QED
  BY <1>1, <1>2 DEF TypeOK

(* One loop, as init() spawns it.                                          *)

(* No file has two names.                                                  *)
OneName ==
  /\ \A s, t \in Seconds : tmp[s] # None => tmp[s] # cold[t]
  /\ \A s, t \in Seconds : tmp[s] # None /\ tmp[s] = tmp[t] => s = t
  /\ \A s, t \in Seconds : cold[s] # None /\ cold[s] = cold[t] => s = t
  /\ \A s \in Seconds : /\ tmp[s] # None => tmp[s] <= made
                        /\ cold[s] # None => cold[s] <= made

(* What the pass has in hand.                                              *)
Hands(l) ==
  /\ scan[l] \cup pend[l] \subseteq hot
  /\ scan[l] \cap pend[l] = {} /\ written[l] \cap (scan[l] \cup pend[l]) = {}
  /\ keys[l] \subseteq written[l] /\ (pc[l] # "remove" => keys[l] = {})
  /\ pc[l] \in {"remove", "rename", "sleep"} => pend[l] = {}
  /\ pc[l] \in {"rename", "sleep"} => scan[l] = {}
  /\ out[l] = None => written[l] = {}
  /\ out[l] # None => tmp[tmpAt[l]] = out[l]
  /\ pc[l] = "rename" => out[l] \in whole /\ body[out[l]] = written[l]
  /\ torn = {}

(* Unless a removal failed, a row that was written is not in the partition,*)
(* and no two files have it.                                               *)
Apart(l) ==
  "remove" \notin failed =>
    /\ written[l] \cap hot \subseteq keys[l]
    /\ \A f \in Files : body[f] \cap hot = {}
    /\ \A f, g \in Files : f # g => body[f] \cap body[g] = {}
    /\ \A f \in Files : body[f] \cap written[l] # {} =>
                          pc[l] = "rename" /\ f = out[l]

Solo(l) == Typed /\ OneName /\ Hands(l) /\ Apart(l) /\ WholeFiles

(* A fresh process satisfies the invariant of one loop.                    *)
LEMMA SoloInit == ASSUME NEW l, Loops = {l}, Init PROVE Solo(l)
<1>1. Typed
  BY TypedInit
<1> QED
  BY <1>1 DEF Init, Solo, OneName, Hands, Apart, WholeFiles

(* Time and new rows.                                                      *)
LEMMA SoloStore ==
  ASSUME NEW l, Loops = {l}, Solo(l), Typed', Tick \/ Insert
  PROVE  Solo(l)'
<1>1. /\ UNCHANGED <<pc, scan, pend, keys, written, out, tmpAt, tmp, cold, body,
                     whole, torn, made, failed>>
      /\ hot' = hot \/ hot' = hot \cup {Len(ts) + 1}
  BY DEF Tick, Insert, store, directory, contents
<1>2. OneName' /\ WholeFiles'
  BY <1>1 DEF Solo, OneName, WholeFiles
<1>3. Hands(l)'
  BY <1>1 DEF Solo, Hands
<1>4. Len(ts) + 1 \notin Rows
  BY DEF Solo, Typed, TypeOK, Rows
<1>5. written[l] \subseteq Rows /\ \A f \in Files : body[f] \subseteq Rows
  BY DEF Solo, Typed, TypeOK
<1>6. Apart(l)'
  BY <1>1, <1>4, <1>5 DEF Solo, Apart
<1> QED
  BY <1>2, <1>3, <1>6 DEF Solo

(* A new export takes a file that has no published name, and nobody else   *)
(* writes to it.                                                           *)
LEMMA SoloOpen ==
  ASSUME NEW l, Loops = {l}, Solo(l), OpenExport(l), out[l] = None, cold' = cold
  PROVE  \E f \in Files :
           /\ out'[l] = f /\ tmp'[tmpAt'[l]] = f /\ torn' = {}
           /\ body' = [body EXCEPT ![f] = {}] /\ whole' = whole \ {f}
           /\ \A s \in Seconds : cold[s] # f
           /\ OneName'
<1> USE CompactionAssumption
<1> DEFINE s == Second(now)
           f == IF tmp[s] = None THEN made + 1 ELSE tmp[s]
<1>1. /\ f \in Files /\ tmp' = [tmp EXCEPT ![s] = f]
      /\ made' = IF tmp[s] = None THEN made + 1 ELSE made
      /\ body' = [body EXCEPT ![f] = {}] /\ whole' = whole \ {f}
      /\ torn' = IF Writers(f) # {} THEN torn \cup {f} ELSE torn \ {f}
      /\ out' = [out EXCEPT ![l] = f] /\ tmpAt' = [tmpAt EXCEPT ![l] = s]
  BY DEF OpenExport
<1>2. /\ tmp \in [Seconds -> Files \cup {None}] /\ made \in Nat
      /\ cold \in [Seconds -> Files \cup {None}]
      /\ out \in [Loops -> Files \cup {None}]
      /\ tmpAt \in [Loops -> Seconds \cup {None}]
      /\ s \in Seconds /\ Files \subseteq Nat /\ None \notin Files
  BY SecondInRange DEF Solo, Typed, TypeOK, Files
<1>3. f # None /\ f \in Nat
  BY <1>1, <1>2
<1>4. Writers(f) = {}
  BY <1>3 DEF Writers
<1>5. torn' = {}
  BY <1>1, <1>4 DEF Solo, Hands
<1>6. \A t \in Seconds : /\ tmp[t] # None => tmp[t] \in Nat /\ tmp[t] <= made
                         /\ cold[t] # None => cold[t] \in Nat /\ cold[t] <= made
  <2>1. \A t \in Seconds : /\ tmp[t] # None => tmp[t] \in Nat
                           /\ cold[t] # None => cold[t] \in Nat
    BY <1>2
  <2> QED
    BY <2>1 DEF Solo, OneName
<1>7. \A t \in Seconds : cold[t] # f /\ (t # s => tmp[t] # f)
  <2>1. CASE tmp[s] = None
    BY <2>1, <1>2, <1>3, <1>6
  <2>2. CASE tmp[s] # None
    BY <2>2, <1>2 DEF Solo, OneName
  <2> QED
    BY <2>1, <2>2
<1>8. f <= made' /\ made <= made' /\ made' \in Nat
  BY <1>1, <1>2, <1>6
<1> HIDE DEF f, s
<1>9. tmp'[s] = f /\ \A t \in Seconds : t # s => tmp'[t] = tmp[t]
  BY <1>1, <1>2
<1>10. OneName'
  <2>1. \A t, u \in Seconds : tmp'[t] # None => tmp'[t] # cold[u]
    BY <1>7, <1>9 DEF Solo, OneName
  <2>2. \A t, u \in Seconds : tmp'[t] # None /\ tmp'[t] = tmp'[u] => t = u
    BY <1>7, <1>9 DEF Solo, OneName
  <2>3. \A t \in Seconds : /\ tmp'[t] # None => tmp'[t] <= made'
                           /\ cold[t] # None => cold[t] <= made'
    BY <1>2, <1>6, <1>8, <1>9
  <2> QED
    BY <2>1, <2>2, <2>3 DEF Solo, OneName
<1>11. out'[l] = f /\ tmpAt'[l] = s
  BY <1>1, <1>2
<1> QED
  BY <1>1, <1>5, <1>7, <1>9, <1>10, <1>11

(* The scan yields a row of the partition once.                            *)
LEMMA SoloRow ==
  ASSUME NEW l, Loops = {l}, Solo(l), Typed', PassRow(l)
  PROVE  Solo(l)'
<1>1. PICK r \in scan[l] :
        /\ scan' = [scan EXCEPT ![l] = @ \ {r}]
        /\ \/ /\ pend' = [pend EXCEPT ![l] = @ \cup {r}]
              /\ IF out[l] = None THEN OpenExport(l)
                 ELSE UNCHANGED <<tmp, body, whole, torn, made, out, tmpAt>>
           \/ UNCHANGED <<pend, tmp, body, whole, torn, made, out, tmpAt>>
  BY DEF PassRow, FirstKeys
<1>2. /\ pc[l] = "scan"
      /\ UNCHANGED <<ts, hot, pc, keys, written, cold, failed>>
  BY DEF PassRow, store
<1>3. /\ scan'[l] = scan[l] \ {r}
      /\ pend'[l] = pend[l] \/ pend'[l] = pend[l] \cup {r}
  BY <1>1 DEF Solo, Typed, TypeOK
<1>4. CASE UNCHANGED <<tmp, body, whole, torn, made, out, tmpAt>>
  <2>1. OneName' /\ WholeFiles' /\ Apart(l)'
    BY <1>2, <1>4 DEF Solo, OneName, WholeFiles, Apart
  <2>2. Hands(l)'
    BY <1>2, <1>3, <1>4 DEF Solo, Hands
  <2> QED
    BY <2>1, <2>2 DEF Solo
<1>5. CASE out[l] = None /\ OpenExport(l)
  <2>1. PICK f \in Files :
          /\ out'[l] = f /\ tmp'[tmpAt'[l]] = f /\ torn' = {}
          /\ body' = [body EXCEPT ![f] = {}] /\ whole' = whole \ {f}
          /\ \A s \in Seconds : cold[s] # f
          /\ OneName'
    BY <1>2, <1>5, SoloOpen
  <2>2. WholeFiles'
    BY <1>2, <2>1 DEF Solo, WholeFiles
  <2>3. written[l] = {} /\ written'[l] = {}
    BY <1>2, <1>5 DEF Solo, Hands
  <2>4. Hands(l)'
    BY <1>2, <1>3, <2>1, <2>3 DEF Solo, Hands
  <2>5. \A g \in Files : body'[g] \subseteq body[g]
    BY <2>1 DEF Solo, Typed, TypeOK
  <2>6. Apart(l)'
    BY <1>2, <2>3, <2>5 DEF Solo, Apart
  <2> QED
    BY <2>1, <2>2, <2>4, <2>6 DEF Solo
<1> QED
  BY <1>1, <1>4, <1>5

(* A pass begins with rows of the partition and empty hands.               *)
LEMMA SoloBegin ==
  ASSUME NEW l, Loops = {l}, Solo(l), Typed', PassBegin(l)
  PROVE  Solo(l)'
<1>1. /\ pc[l] = "sleep" /\ pc'[l] = "scan" /\ scan'[l] = Expired
      /\ UNCHANGED <<ts, hot, pend, keys, written, out, tmpAt, tmp, cold, body,
                     whole, torn, made, failed>>
  BY DEF PassBegin, store, directory, contents, Solo, Typed, TypeOK
<1>2. OneName' /\ WholeFiles'
  BY <1>1 DEF Solo, OneName, WholeFiles
<1>3. out[l] = None
  BY <1>1 DEF Solo, Typed, Filed, FiledAt
<1>4. Hands(l)'
  BY <1>1, <1>3 DEF Solo, Hands, Expired
<1>5. Apart(l)'
  BY <1>1 DEF Solo, Apart
<1> QED
  BY <1>2, <1>4, <1>5 DEF Solo

(* A chunk is handed over before its keys are removed.                     *)
LEMMA SoloFlush ==
  ASSUME NEW l, Loops = {l}, Solo(l), Typed', PassFlush(l)
  PROVE  Solo(l)'
<1>1. /\ pc[l] = "scan" /\ pc'[l] = "remove" /\ pend'[l] = {} /\ keys'[l] = pend[l]
      /\ written'[l] = written[l] \cup pend[l] /\ pend[l] # {}
      /\ UNCHANGED <<ts, hot, scan, out, tmpAt, tmp, cold, body, whole, torn,
                     made, failed>>
  BY DEF PassFlush, store, directory, contents, Solo, Typed, TypeOK
<1>2. OneName' /\ WholeFiles'
  BY <1>1 DEF Solo, OneName, WholeFiles
<1>3. out[l] # None
  BY <1>1 DEF Solo, Typed, Filed, FiledAt
<1>4. Hands(l)'
  BY <1>1, <1>3 DEF Solo, Hands
<1>5. Apart(l)'
  <2>1. pend[l] \subseteq hot /\ keys[l] = {}
    BY <1>1 DEF Solo, Hands
  <2> QED
    BY <1>1, <2>1 DEF Solo, Apart
<1> QED
  BY <1>2, <1>4, <1>5 DEF Solo

(* A key is removed, or its removal fails.                                 *)
LEMMA SoloRemove ==
  ASSUME NEW l, Loops = {l}, Solo(l), Typed', PassRemove(l)
  PROVE  Solo(l)'
<1>1. PICK r \in keys[l] :
        /\ keys'[l] = keys[l] \ {r}
        /\ \/ hot' = hot \ {r} /\ failed' = failed
           \/ hot' = hot /\ failed' = failed \cup {"remove"}
  BY DEF PassRemove, FirstKeys, Solo, Typed, TypeOK
<1>2. /\ pc[l] = "remove" /\ pc'[l] = IF keys'[l] = {} THEN "scan" ELSE "remove"
      /\ UNCHANGED <<ts, scan, pend, written, out, tmpAt, tmp, cold, body, whole,
                     torn, made>>
  BY DEF PassRemove, directory, contents, Solo, Typed, TypeOK
<1>3. OneName' /\ WholeFiles'
  BY <1>2 DEF Solo, OneName, WholeFiles
<1>4. Hands(l)'
  BY <1>1, <1>2 DEF Solo, Hands
<1>5. Apart(l)'
  BY <1>1, <1>2 DEF Solo, Apart
<1> QED
  BY <1>3, <1>4, <1>5 DEF Solo

(* The end of a pass, with or without a rename behind it.                  *)
LEMMA SoloEnd ==
  ASSUME NEW l, Loops = {l}, Solo(l), Typed', OneName', WholeFiles',
         pc'[l] = "sleep", scan'[l] = {}, pend'[l] = {}, keys'[l] = {},
         written'[l] = {}, out'[l] = None, hot' = hot, body' = body, torn' = torn,
         "remove" \in failed => "remove" \in failed'
  PROVE  Solo(l)'
<1>1. Hands(l)'
  BY DEF Solo, Hands
<1>2. Apart(l)'
  BY DEF Solo, Apart
<1> QED
  BY <1>1, <1>2 DEF Solo

(* The footer makes the file whole: nobody else writes to it.              *)
LEMMA SoloClose ==
  ASSUME NEW l, Loops = {l}, Solo(l), Typed', PassClose(l)
  PROVE  Solo(l)'
<1>1. UNCHANGED <<ts, hot, tmp, cold, torn, made, failed>>
  BY DEF PassClose, store, directory
<1>2. OneName'
  BY <1>1 DEF Solo, OneName
<1>3. CASE EndPass(l) /\ UNCHANGED <<body, whole>>
  <2>1. /\ pc'[l] = "sleep" /\ scan'[l] = {} /\ pend'[l] = {} /\ keys'[l] = {}
        /\ written'[l] = {} /\ out'[l] = None
    BY <1>3 DEF EndPass, Solo, Typed, TypeOK
  <2>2. WholeFiles'
    BY <1>1, <1>3 DEF Solo, WholeFiles
  <2> QED
    BY <1>1, <1>2, <1>3, <2>1, <2>2, SoloEnd
<1>4. CASE ~(EndPass(l) /\ UNCHANGED <<body, whole>>)
  <2>1. /\ pc[l] = "scan" /\ scan[l] = {} /\ pend[l] = {} /\ pc'[l] = "rename"
        /\ out[l] # None /\ body' = [body EXCEPT ![out[l]] = written[l]]
        /\ whole' = IF out[l] \in torn THEN whole \ {out[l]}
                    ELSE whole \cup {out[l]}
        /\ UNCHANGED <<scan, pend, keys, written, out, tmpAt>>
    BY <1>4 DEF PassClose, Solo, Typed, TypeOK
  <2>2. /\ out[l] \in Files /\ torn = {} /\ whole' = whole \cup {out[l]}
        /\ body'[out[l]] = written[l]
        /\ \A f \in Files : f # out[l] => body'[f] = body[f]
    BY <2>1 DEF Solo, Hands, Typed, TypeOK
  <2>3. WholeFiles'
    BY <1>1, <2>2 DEF Solo, WholeFiles
  <2>4. Hands(l)'
    BY <1>1, <2>1, <2>2 DEF Solo, Hands
  <2>5. Apart(l)'
    <3>1. keys[l] = {}
      BY <2>1 DEF Solo, Hands
    <3> QED
      BY <1>1, <2>1, <2>2, <3>1 DEF Solo, Apart
  <2> QED
    BY <1>2, <2>3, <2>4, <2>5 DEF Solo
<1> QED
  BY <1>3, <1>4

(* The file that is published is the one that was closed.                  *)
LEMMA SoloRename ==
  ASSUME NEW l, Loops = {l}, Solo(l), Typed', PassRename(l)
  PROVE  /\ Solo(l)'
         /\ cold' = [cold EXCEPT ![Second(now)] = out[l]]
<1>1. /\ EndPass(l) /\ pc[l] = "rename"
      /\ UNCHANGED <<now, ts, hot, body, whole, torn, made, failed>>
  BY DEF PassRename, store, contents
<1>2. /\ out[l] # None /\ out[l] \in whole /\ tmp[tmpAt[l]] = out[l]
      /\ tmpAt[l] \in Seconds
  BY <1>1 DEF Solo, Hands, Typed, TypeOK, Filed, FiledAt
<1>3. /\ cold' = [cold EXCEPT ![Second(now)] = out[l]]
      /\ tmp' = [tmp EXCEPT ![tmpAt[l]] = None]
  BY <1>2 DEF PassRename, directory
<1>4. /\ tmp \in [Seconds -> Files \cup {None}]
      /\ cold \in [Seconds -> Files \cup {None}] /\ Second(now) \in Seconds
  BY SecondInRange DEF Solo, Typed, TypeOK
<1>5. /\ \A s \in Seconds : cold'[s] = IF s = Second(now) THEN out[l] ELSE cold[s]
      /\ \A s \in Seconds : tmp'[s] = IF s = tmpAt[l] THEN None ELSE tmp[s]
  BY <1>3, <1>4
<1>6. OneName'
  <2>1. \A s, t \in Seconds : tmp'[s] # None => tmp'[s] # cold'[t]
    BY <1>2, <1>5 DEF Solo, OneName
  <2>2. \A s, t \in Seconds : tmp'[s] # None /\ tmp'[s] = tmp'[t] => s = t
    BY <1>5 DEF Solo, OneName
  <2>3. \A s, t \in Seconds : cold'[s] # None /\ cold'[s] = cold'[t] => s = t
    BY <1>2, <1>5 DEF Solo, OneName
  <2>4. \A s \in Seconds : /\ tmp'[s] # None => tmp'[s] <= made
                           /\ cold'[s] # None => cold'[s] <= made
    BY <1>2, <1>5 DEF Solo, OneName
  <2> QED
    BY <1>1, <2>1, <2>2, <2>3, <2>4 DEF OneName
<1>7. WholeFiles'
  BY <1>1, <1>2, <1>5 DEF Solo, WholeFiles
<1>8. /\ pc'[l] = "sleep" /\ scan'[l] = {} /\ pend'[l] = {} /\ keys'[l] = {}
      /\ written'[l] = {} /\ out'[l] = None
  BY <1>1 DEF EndPass, Solo, Typed, TypeOK
<1> QED
  BY <1>1, <1>3, <1>6, <1>7, <1>8, SoloEnd

(* An error or a crash drops what the pass had in hand.                    *)
LEMMA SoloFail ==
  ASSUME NEW l, Loops = {l}, Solo(l), Typed', PassError(l) \/ Crash
  PROVE  Solo(l)'
<1>1. /\ pc'[l] = "sleep" /\ scan'[l] = {} /\ pend'[l] = {} /\ keys'[l] = {}
      /\ written'[l] = {} /\ out'[l] = None
      /\ UNCHANGED <<hot, tmp, cold, body, whole, torn, made>>
      /\ failed \subseteq failed'
  BY DEF PassError, Crash, EndPass, store, directory, contents, Solo, Typed, TypeOK
<1>2. OneName' /\ WholeFiles'
  BY <1>1 DEF Solo, OneName, WholeFiles
<1> QED
  BY <1>1, <1>2, SoloEnd

(* Every step keeps it.                                                    *)
LEMMA SoloStep ==
  ASSUME NEW l, Loops = {l}, Solo(l), [Next]_vars
  PROVE  Solo(l)'
<1>1. Typed'
  BY TypedStep DEF Solo
<1>2. CASE UNCHANGED vars
  BY <1>1, <1>2
     DEF vars, store, directory, contents, Solo, OneName, Hands, Apart, WholeFiles
<1> QED
  BY <1>1, <1>2, SoloStore, SoloFail, SoloBegin, SoloRow, SoloFlush, SoloRemove,
     SoloClose, SoloRename DEF Next, PassNext

(* finalize_export() closes the writer before it renames: with one loop, a *)
(* published file is complete after any crash or error.                    *)
THEOREM PublishedWhole ==
  ASSUME NEW l, Loops = {l}
  PROVE  Spec => []WholeFiles
<1>1. Solo(l) => WholeFiles
  BY DEF Solo
<1> QED
  BY SoloInit, SoloStep, <1>1, PTL DEF Spec

(* PendingBatch::flush() removes a chunk before its file is renamed: with  *)
(* one loop and removals that succeed, no crash or error leaves a row in   *)
(* two exports, or in an export and the partition.                         *)
THEOREM RowsOnce ==
  ASSUME NEW l, Loops = {l}
  PROVE  Spec => []AtMostOnce
<1>1. Solo(l) => AtMostOnce
  <2> SUFFICES ASSUME Solo(l), "remove" \notin failed
               PROVE  /\ Published \cap hot = {}
                      /\ \A s, t \in Seconds :
                           s # t /\ cold[s] \in whole /\ cold[t] \in whole =>
                             body[cold[s]] \cap body[cold[t]] = {}
    BY DEF AtMostOnce
  <2>1. whole \subseteq Files /\ None \notin whole
    BY WholeAreFiles DEF Solo, Typed
  <2>2. Published \cap hot = {}
    BY <2>1 DEF Published, Solo, Apart
  <2>3. ASSUME NEW s \in Seconds, NEW t \in Seconds, s # t, cold[s] \in whole,
               cold[t] \in whole
        PROVE  body[cold[s]] \cap body[cold[t]] = {}
    <3>1. cold[s] # cold[t]
      BY <2>1, <2>3 DEF Solo, OneName
    <3> QED
      BY <2>1, <2>3, <3>1 DEF Solo, Apart
  <2> QED
    BY <2>2, <2>3
<1> QED
  BY SoloInit, SoloStep, <1>1, PTL DEF Spec

-----------------------------------------------------------------------------
(* The two tiers, when passes of one loop are a second or more apart.      *)

(* Every published name is of a second before the end of the last pass,    *)
(* and a pass that runs began an interval after that.                      *)
Spaced(l) ==
  /\ rest[l] <= now
  /\ pc[l] # "sleep" => rest[l] + Interval <= now
  /\ \A s \in Seconds : cold[s] # None => s * TicksPerSecond <= rest[l]

(* No export has been named yet.                                           *)
LEMMA SpacedInit == ASSUME NEW l, Loops = {l}, Init PROVE Spaced(l)
BY CompactionAssumption DEF Init, Spaced

(* The rest after a pass outlasts the second its export was named by.      *)
LEMMA SpacedStep ==
  ASSUME NEW l, Loops = {l}, Solo(l), Spaced(l), [Next]_vars
  PROVE  Spaced(l)'
<1> USE CompactionAssumption
<1>1. /\ now \in Nat /\ rest \in [Loops -> Nat] /\ Seconds \subseteq Nat
      /\ pc \in [Loops -> {"sleep", "scan", "remove", "rename"}]
  BY DEF Solo, Typed, TypeOK, Seconds
<1>2. CASE UNCHANGED vars
  BY <1>2 DEF vars, directory, Spaced
<1>3. CASE Tick \/ Insert
  <2>1. /\ now' = now \/ now' = now + 1
        /\ UNCHANGED <<rest, pc, cold>>
    BY <1>3 DEF Tick, Insert, directory
  <2> QED
    BY <1>1, <2>1 DEF Spaced
<1>4. CASE PassBegin(l)
  <2>1. UNCHANGED <<now, rest, cold>> /\ now >= rest[l] + Interval
    BY <1>4 DEF PassBegin, directory
  <2> QED
    BY <1>1, <2>1 DEF Spaced
<1>5. CASE PassRow(l) \/ PassFlush(l) \/ PassRemove(l)
  <2>1. UNCHANGED <<now, rest, cold>> /\ pc[l] # "sleep"
    BY <1>5 DEF PassRow, PassFlush, PassRemove, directory
  <2> QED
    BY <1>1, <2>1 DEF Spaced
<1>6. ASSUME rest'[l] = now, now' = now, pc'[l] = "sleep", cold' = cold
      PROVE  Spaced(l)'
  <2>1. \A s \in Seconds : cold[s] # None => s * TicksPerSecond <= now
    <3> SUFFICES ASSUME NEW s \in Seconds, cold[s] # None
                 PROVE  s * TicksPerSecond <= now
      OBVIOUS
    <3> DEFINE start == s * TicksPerSecond
    <3>1. start \in Nat /\ start <= rest[l] /\ rest[l] <= now /\ rest[l] \in Nat
      BY <1>1 DEF Spaced
    <3> HIDE DEF start
    <3>2. start <= now
      BY <1>1, <3>1
    <3> QED
      BY <3>2 DEF start
  <2> QED
    BY <1>1, <1>6, <2>1 DEF Spaced
<1>7. CASE PassClose(l)
  <2>1. UNCHANGED <<now, cold>> /\ pc[l] # "sleep"
    BY <1>7 DEF PassClose, directory
  <2>2. CASE EndPass(l)
    BY <1>1, <1>6, <2>1, <2>2 DEF EndPass
  <2>3. CASE rest' = rest
    BY <1>1, <2>1, <2>3 DEF Spaced
  <2> QED
    BY <1>7, <2>2, <2>3 DEF PassClose
<1>8. CASE PassError(l) \/ Crash
  <2>1. rest'[l] = now /\ now' = now /\ pc'[l] = "sleep" /\ cold' = cold
    BY <1>1, <1>8 DEF PassError, Crash, EndPass, directory
  <2> QED
    BY <1>6, <2>1
<1>9. CASE PassRename(l)
  <2>1. cold' = [cold EXCEPT ![Second(now)] = out[l]]
    BY <1>9, TypedStep, SoloRename DEF Solo, Next, PassNext
  <2>2. now' = now /\ rest'[l] = now /\ pc'[l] = "sleep"
    BY <1>1, <1>9 DEF PassRename, EndPass
  <2>3. Second(now) * TicksPerSecond <= now
    BY <1>1, SecondOf
  <2>4. ASSUME NEW s \in Seconds, cold'[s] # None
        PROVE  s * TicksPerSecond <= now
    <3>1. CASE s = Second(now)
      BY <2>3, <3>1
    <3>2. CASE s # Second(now)
      <4>1. cold[s] # None
        BY <2>1, <2>4, <3>2 DEF Solo, Typed, TypeOK
      <4> DEFINE start == s * TicksPerSecond
      <4>2. start \in Nat /\ start <= rest[l] /\ rest[l] <= now /\ rest[l] \in Nat
        BY <1>1, <4>1 DEF Spaced
      <4> HIDE DEF start
      <4>3. start <= now
        BY <1>1, <4>2
      <4> QED
        BY <4>3 DEF start
    <3> QED
      BY <3>1, <3>2
  <2> QED
    BY <1>1, <2>2, <2>4 DEF Spaced
<1> QED
  BY <1>2, <1>3, <1>4, <1>5, <1>7, <1>8, <1>9 DEF Next, PassNext

(* So the name of an export is still free when it is renamed.              *)
LEMMA NameFree ==
  ASSUME NEW l, Loops = {l}, Interval >= TicksPerSecond, Solo(l), Spaced(l),
         pc[l] = "rename"
  PROVE  cold[Second(now)] = None
<1> DEFINE start == Second(now) * TicksPerSecond
<1>1. now \in Nat /\ rest[l] \in Nat /\ Second(now) \in Seconds
  BY SecondInRange DEF Solo, Typed, TypeOK
<1>2. start \in Nat /\ now < start + TicksPerSecond
  BY <1>1, SecondOf, CompactionAssumption
<1>3. rest[l] + Interval <= now
  BY DEF Spaced
<1> HIDE DEF start
<1>4. ~(start <= rest[l])
  BY <1>1, <1>2, <1>3, CompactionAssumption
<1> QED
  BY <1>1, <1>4 DEF Spaced, start

(* A step that leaves the names, and the files that have one, leaves what  *)
(* is published.                                                           *)
LEMMA PublishedKept ==
  ASSUME cold' = cold,
         \A s \in Seconds : /\ cold[s] \in whole <=> cold[s] \in whole'
                            /\ cold[s] \in whole => body'[cold[s]] = body[cold[s]]
  PROVE  Published' = Published
<1>1. Published \subseteq Published'
  BY DEF Published
<1>2. Published' \subseteq Published
  BY DEF Published
<1> QED
  BY <1>1, <1>2

(* With one loop the rows on their way are those it has written.           *)
LEMMA MovingIs ==
  ASSUME NEW l, Loops = {l}
  PROVE  Moving = written[l] /\ Moving' = written'[l]
BY DEF Moving

(* The steps that neither tier notices.                                    *)
LEMMA TierStutter ==
  ASSUME NEW l, Loops = {l}, Solo(l),
         \/ Tick \/ PassBegin(l) \/ PassRow(l) \/ PassFlush(l) \/ PassClose(l)
         \/ UNCHANGED vars
  PROVE  UNCHANGED <<hot \cup Moving, Published, failed>>
<1>2. CASE Tick \/ PassBegin(l) \/ UNCHANGED vars
  <2>1. UNCHANGED <<hot, written, cold, whole, body, failed>>
    BY <1>2 DEF Tick, PassBegin, vars, store, directory, contents
  <2> QED
    BY <2>1, MovingIs DEF Published
<1>3. CASE PassRow(l)
  <2>1. UNCHANGED <<hot, written, cold, failed>>
    BY <1>3 DEF PassRow, store
  <2>2. CASE UNCHANGED <<whole, body>>
    BY <2>1, <2>2, MovingIs DEF Published
  <2>3. CASE out[l] = None /\ OpenExport(l)
    <3>1. PICK f \in Files :
            /\ body' = [body EXCEPT ![f] = {}] /\ whole' = whole \ {f}
            /\ \A s \in Seconds : cold[s] # f
      BY <2>1, <2>3, SoloOpen
    <3>2. \A g \in Files : g # f => body'[g] = body[g]
      BY <3>1 DEF Solo, Typed, TypeOK
    <3>3. whole \subseteq Files
      BY DEF Solo, Typed, TypeOK
    <3>4. Published' = Published
      BY <2>1, <3>1, <3>2, <3>3, PublishedKept
    <3> QED
      BY <2>1, <3>4, MovingIs
  <2> QED
    BY <1>3, <2>2, <2>3 DEF PassRow
<1>4. CASE PassFlush(l)
  <2>1. /\ UNCHANGED <<hot, cold, whole, body, failed>>
        /\ written'[l] = written[l] \cup pend[l]
    BY <1>4 DEF PassFlush, store, directory, contents, Solo, Typed, TypeOK
  <2>2. pend[l] \subseteq hot
    BY DEF Solo, Hands
  <2> QED
    BY <2>1, <2>2, MovingIs DEF Published
<1>5. CASE PassClose(l)
  <2>1. UNCHANGED <<hot, cold, failed>>
    BY <1>5 DEF PassClose, store, directory
  <2>2. CASE out[l] = None
    <3>1. UNCHANGED <<whole, body>> /\ written'[l] = {} /\ written[l] = {}
      BY <1>5, <2>2 DEF PassClose, EndPass, Solo, Hands, Typed, TypeOK
    <3> QED
      BY <2>1, <3>1, MovingIs DEF Published
  <2>3. CASE out[l] # None
    <3>1. /\ written' = written /\ body' = [body EXCEPT ![out[l]] = written[l]]
          /\ whole' = whole \ {out[l]} \/ whole' = whole \cup {out[l]}
      BY <1>5, <2>3 DEF PassClose
    <3>2. /\ out[l] \in Files /\ tmpAt[l] \in Seconds /\ tmp[tmpAt[l]] = out[l]
      BY <2>3 DEF Solo, Hands, Typed, TypeOK, Filed, FiledAt
    <3>3. \A s \in Seconds : cold[s] # out[l]
      BY <2>3, <3>2 DEF Solo, OneName
    <3>4. \A g \in Files : g # out[l] => body'[g] = body[g]
      BY <3>1, <3>2 DEF Solo, Typed, TypeOK
    <3>5. whole \subseteq Files
      BY DEF Solo, Typed, TypeOK
    <3>6. Published' = Published
      BY <2>1, <3>1, <3>3, <3>4, <3>5, PublishedKept
    <3> QED
      BY <2>1, <3>1, <3>6, MovingIs
  <2> QED
    BY <2>2, <2>3
<1> QED
  BY <1>2, <1>3, <1>4, <1>5

(* Every step of the loop is a step of the tiers.                          *)
LEMMA TierStep ==
  ASSUME NEW l, Loops = {l}, Interval >= TicksPerSecond, Solo(l), Spaced(l),
         [Next]_vars
  PROVE  [Tier!Next]_<<hot \cup Moving, Published, failed>>
<1>1. CASE \/ Tick \/ PassBegin(l) \/ PassRow(l) \/ PassFlush(l) \/ PassClose(l)
           \/ UNCHANGED vars
  BY <1>1, TierStutter
<1>2. whole \subseteq Files /\ None \notin whole
  BY WholeAreFiles DEF Solo, Typed
<1>3. CASE Insert
  <2> DEFINE r == Len(ts) + 1
  <2>1. /\ hot' = hot \cup {r} /\ Len(ts) < MaxRows
        /\ UNCHANGED <<written, cold, whole, body, failed>>
    BY <1>3 DEF Insert, directory, contents
  <2>2. r \in 1 .. MaxRows /\ r \notin Rows
    BY <2>1, CompactionAssumption DEF Solo, Typed, TypeOK, Rows
  <2>3. Published \subseteq Rows
    BY <1>2 DEF Published, Solo, Typed, TypeOK
  <2>4. hot \cup Moving \subseteq Rows
    BY MovingIs DEF Solo, Typed, TypeOK
  <2>5. (hot \cup Moving)' = hot \cup Moving \cup {r} /\ Published' = Published
    BY <2>1, MovingIs DEF Published
  <2> HIDE DEF r
  <2>6. Tier!Insert(r)
    BY <2>1, <2>2, <2>3, <2>4, <2>5 DEF Tier!Insert
  <2> QED
    BY <2>2, <2>6 DEF Tier!Next
<1>4. CASE PassRemove(l)
  <2>1. PICK r \in keys[l] :
          \/ hot' = hot \ {r} /\ failed' = failed
          \/ /\ hot' = hot /\ failed' = failed \cup {"remove"}
             /\ "remove" \in Faults
    BY <1>4 DEF PassRemove, FirstKeys
  <2>2. UNCHANGED <<written, cold, whole, body>>
    BY <1>4 DEF PassRemove, directory, contents
  <2>3. r \in written[l]
    BY DEF Solo, Hands
  <2>4. (hot \cup Moving)' = hot \cup Moving /\ Published' = Published
    BY <2>1, <2>2, <2>3, MovingIs DEF Published
  <2>5. CASE failed' = failed
    BY <2>4, <2>5
  <2>6. CASE failed' = failed \cup {"remove"} /\ "remove" \in Faults
    <3>1. Tier!Fail("remove")
      BY <2>4, <2>6 DEF Tier!Fail
    <3> QED
      BY <2>6, <3>1 DEF Tier!Next
  <2> QED
    BY <2>1, <2>5, <2>6
<1>5. CASE PassRename(l)
  <2> DEFINE S == written[l]
  <2>1. cold' = [cold EXCEPT ![Second(now)] = out[l]]
    BY <1>5, TypedStep, SoloRename DEF Solo, Next, PassNext
  <2>2. /\ UNCHANGED <<hot, body, whole, failed>> /\ written'[l] = {}
        /\ pc[l] = "rename"
    BY <1>5 DEF PassRename, EndPass, store, contents, Solo, Typed, TypeOK
  <2>3. cold[Second(now)] = None
    BY <2>2, NameFree
  <2>4. /\ out[l] \in whole /\ body[out[l]] = S /\ S # {}
    BY <2>2 DEF Solo, Hands, Typed, TypeOK
  <2>5. /\ Second(now) \in Seconds
        /\ \A s \in Seconds :
             cold'[s] = IF s = Second(now) THEN out[l] ELSE cold[s]
    BY <2>1, SecondInRange DEF Solo, Typed, TypeOK
  <2>6. Published' = Published \cup S
    <3>1. Published' \subseteq Published \cup S
      BY <2>2, <2>4, <2>5 DEF Published
    <3>2. S \subseteq Published'
      BY <2>2, <2>4, <2>5 DEF Published
    <3>3. ASSUME NEW s \in Seconds, cold[s] \in whole
          PROVE  body[cold[s]] \subseteq Published'
      <4>1. cold'[s] = cold[s]
        BY <1>2, <2>3, <2>5, <3>3
      <4> QED
        BY <2>2, <3>3, <4>1 DEF Published
    <3>4. Published \subseteq Published'
      BY <3>3 DEF Published
    <3> QED
      BY <3>1, <3>2, <3>4
  <2>7. hot \cup Moving = hot \cup S /\ (hot \cup Moving)' = hot
    BY <2>2, MovingIs
  <2>8. "remove" \notin failed => S \cap hot = {}
    BY <2>2 DEF Solo, Hands, Apart
  <2> HIDE DEF S
  <2>9. Tier!Export(S)
    BY <2>2, <2>4, <2>6, <2>7, <2>8 DEF Tier!Export
  <2>10. S \in SUBSET (hot \cup Moving)
    BY <2>7
  <2> QED
    BY <2>9, <2>10 DEF Tier!Next
<1>6. ASSUME NEW fault \in {"io", "crash"}, fault \in Faults,
             failed' = failed \cup {fault}, written'[l] = {},
             UNCHANGED <<hot, cold, whole, body>>
      PROVE  Tier!Next
  <2>1. (hot \cup Moving)' = hot /\ Published' = Published
    BY <1>6, MovingIs DEF Published
  <2>2. Tier!Fail(fault)
    BY <1>6, <2>1 DEF Tier!Fail
  <2> QED
    BY <1>6, <2>2 DEF Tier!Next
<1>7. CASE PassError(l)
  <2>1. /\ "io" \in Faults /\ failed' = failed \cup {"io"} /\ written'[l] = {}
        /\ UNCHANGED <<hot, cold, whole, body>>
    BY <1>7 DEF PassError, EndPass, store, directory, contents, Solo, Typed, TypeOK
  <2> QED
    BY <1>6, <2>1
<1>8. CASE Crash
  <2>1. /\ "crash" \in Faults /\ failed' = failed \cup {"crash"}
        /\ written'[l] = {} /\ UNCHANGED <<hot, cold, whole, body>>
    BY <1>8 DEF Crash, store, directory, contents
  <2> QED
    BY <1>6, <2>1
<1> QED
  BY <1>1, <1>3, <1>4, <1>5, <1>7, <1>8 DEF Next, PassNext

(* The tiers start empty.                                                  *)
LEMMA TierInit == Init => Tier!Init
BY DEF Init, Tier!Init, Published, Moving

(* run_compaction_once_blocking() moves a set of rows between the tiers at *)
(* once, and each crash or error costs what Tiering says: for one loop with*)
(* a compaction_interval of a second or more, which no two exports share.  *)
THEOREM Tiers ==
  ASSUME NEW l, Loops = {l}, Interval >= TicksPerSecond
  PROVE  Spec => TieringSpec
<1>1. Init => Solo(l) /\ Spaced(l)
  BY SoloInit, SpacedInit
<1>2. Solo(l) /\ Spaced(l) /\ [Next]_vars => (Solo(l) /\ Spaced(l))'
  BY SoloStep, SpacedStep
<1>3. Solo(l) /\ Spaced(l) /\ [Next]_vars
        => [Tier!Next]_<<hot \cup Moving, Published, failed>>
  BY TierStep
<1> QED
  BY <1>1, <1>2, <1>3, TierInit, PTL DEF Spec, TieringSpec, Tier!Spec
=============================================================================
