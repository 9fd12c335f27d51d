-------------------------- MODULE RowsProperties ----------------------------
(***************************************************************************)
(* What the sanitizers return, what the keys of the hot store let its      *)
(* readers rely on, and what an exported row still says.                   *)
(***************************************************************************)
EXTENDS Rows

IsName(s) == Len(s) > 0 /\ s[1] \in First /\ \A i \in DOMAIN s : s[i] \in Later

(* Whatever string an application uses, the name given to the registry     *)
(* matches [a-zA-Z_:][a-zA-Z0-9_:]*, and a valid name is left alone        *)
(* (sanitize_metric_name).                                                 *)
NamesValid ==
  /\ IsName(SanitizeName(name))
  /\ IsName(name) => SanitizeName(name) = name

(* Every label key that is kept is a valid name of at most MAX_KEY bytes:  *)
(* the cut never falls inside a character, because it is made after the    *)
(* sanitizing (sanitize_labels).                                           *)
KeysValid ==
  \A i \in DOMAIN SanitizeLabels(labels) :
    LET k == SanitizeLabels(labels)[i].key
    IN k # Panic /\ IsName(k) /\ Bytes(k) <= MaxKey

(* The labels that count: the first MAX_PAIRS with a key that is not blank.*)
Counting(pairs) ==
  LET usable == {i \in DOMAIN pairs : \E j \in DOMAIN pairs[i].key :
                                        pairs[i].key[j] # "space"}
  IN {i \in usable : Cardinality({j \in usable : j <= i}) <= MaxPairs}

(* Blank keys cost no other label its place: with enough usable labels     *)
(* exactly MAX_PAIRS are kept, the first ones, in their order              *)
(* (sanitize_labels).                                                      *)
CapCountsUsable ==
  LET rank(i) == Cardinality({j \in Counting(labels) : j <= i})
  IN /\ Len(SanitizeLabels(labels)) = Cardinality(Counting(labels))
     /\ \A i \in Counting(labels) :
          SanitizeLabels(labels)[rank(i)].value = LabelValue(labels[i].value)

-----------------------------------------------------------------------------
(* A scan meets the rows in the order of their timestamps, and those of    *)
(* one microsecond in the order of their sequence numbers, although ':'    *)
(* sorts in the middle of the digits; and the ts column of the export,     *)
(* narrower than the key's, never falls (encode_key, PendingBatch::push).  *)
ScanInOrder ==
  \A i, j \in DOMAIN rows :
    LET ti == EntryMicros(rows[i].time)
        tj == EntryMicros(rows[j].time)
    IN ti < tj \/ (ti = tj /\ rows[i].seq < rows[j].seq)
         => /\ Precedes(rows[i].key, rows[j].key)
            /\ Exported(rows[i]).ts <= Exported(rows[j]).ts

(* The range below cutoff_prefix() holds exactly the rows that are older   *)
(* than the cutoff.                                                        *)
CutoffExact ==
  \A i \in DOMAIN rows, t \in Times :
    LET cutoff == EntryMicros(t)
    IN Precedes(rows[i].key, CutoffPrefix(cutoff)) <=>
         EntryMicros(rows[i].time) < cutoff

(* A row replaces another one only across a restart of the process or a    *)
(* full turn of the sequence numbers (flush_batch).                        *)
OverwriteNeedsRestart ==
  \A i \in DOMAIN rows :
    store[rows[i].key] # i =>
      \E j \in i + 1 .. Len(rows) :
        /\ rows[j].key = rows[i].key
        /\ rows[j].run # rows[i].run \/ j - i >= Power[SeqDigits]

(* An exported row still is the observation: its time, its name, whatever  *)
(* colons that has, its kind, its value if that has few digits, and all the*)
(* labels that count, although both sanitizing and cutting can make two    *)
(* keys equal; then the later label stands.  Of a longer value only a      *)
(* finite one is promised, of NaN and infinities 0 (MetricEntry::new,      *)
(* decode_key, encode_value, decode_value, PendingBatch::push).            *)
RowFaithful ==
  \A i \in DOMAIN rows :
    LET s == rows[i].sample
        row == Exported(rows[i])
        key(j) == LabelKey(s.labels[j].key)
    IN /\ row.ts = Column(EntryMicros(rows[i].time))
       /\ row.name = NameBytes(SanitizeName(s.name))
       /\ row.payload.metric_type = s.kind
       /\ row.payload.value \in Finite
       /\ s.value \in Short => row.payload.value = s.value
       /\ s.value \notin Finite => row.payload.value = Zero
       /\ \A j \in Counting(s.labels) :
            \/ row.payload.labels[key(j)] = LabelValue(s.labels[j].value)
            \/ \E k \in Counting(s.labels) : k > j /\ key(k) = key(j)
       /\ \A k \in DOMAIN row.payload.labels :
            \E j \in Counting(s.labels) : key(j) = k

-----------------------------------------------------------------------------
(* "truncate [...] values to 256 chars": a long value is shortened.        *)
ValuesTruncated ==
  \A i \in DOMAIN SanitizeLabels(labels) : SanitizeLabels(labels)[i].value # Panic
=============================================================================
