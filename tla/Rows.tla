-------------------------------- MODULE Rows --------------------------------
(***************************************************************************)
(* What becomes of one observation: sanitized into a MetricEntry, stored   *)
(* by the writer under its key with a JSON payload, and decoded into a row *)
(* of an export.  The state is the store a writer thread fills, across     *)
(* restarts, and the input a caller of the sanitizers builds up, so that   *)
(* every short one is checked.                                             *)
(***************************************************************************)
EXTENDS Sanitize, KeyCodec

CONSTANTS
  Times,       \* the timestamps tried, some before the epoch
  Samples,     \* the observations tried
  Finite,      \* the finite values, Zero among them; others are NaN or inf
  Short,       \* short decimals, which JSON gives back as they are: at most 15
               \* digits, and an exponent that is an exact power of ten
  Parsed,      \* what serde_json reads back of each, without float_roundtrip
  Zero, Null,
  NameLen, PairCount,     \* bounds on the inputs
  LabelKeys, LabelValues, \* the label strings tried
  MaxRows, MaxRuns        \* bounds on inserts and process runs

ASSUME RowsAssumption ==
  /\ Times \subseteq Int
  /\ \A s \in Samples :
       /\ s.name \in Seq(Chars)
       /\ s.labels \in Seq([key : Seq(Chars), value : Seq(Chars)])
  /\ Zero \in Finite /\ Null \notin Finite
  /\ Short \subseteq Finite /\ Parsed \in [Finite -> Finite]
  /\ \A v \in Short : Parsed[v] = v
  /\ NameLen \in Nat /\ PairCount \in Nat
  /\ LabelKeys \cup LabelValues \subseteq Seq(Chars)
  /\ MaxRows \in Nat /\ MaxRuns \in Nat

VARIABLES
  name, labels,  \* the input
  rows,   \* the rows inserted so far, each with its key and its payload
  store,  \* the row each key of the partition holds
  seq,    \* the writer's sequence number
  run     \* restarts of the process so far

input == <<name, labels>>
vars == <<input, rows, store, seq, run>>

(* MetricEntry::new()                                                      *)
MetricEntry(s, t) ==
  [timestamp |-> t, name |-> SanitizeName(s.name), value |-> s.value,
   kind |-> s.kind, labels |-> SanitizeLabels(s.labels)]

(* The characters of a sanitized name, as bytes of a key.                  *)
Byte(c) == CASE c = "digit" -> Digit(0) [] c = "colon" -> Colon
             [] c = "under" -> Base + 1 [] OTHER -> Base + 2
NameBytes(s) == [i \in DOMAIN s |-> Byte(s[i])]

(* encode_value(): labels become a map.                                    *)
KeysOf(pairs) == {pairs[i].key : i \in DOMAIN pairs}
At(pairs, k) == {i \in DOMAIN pairs : pairs[i].key = k}
(* Mutant: the first of several equal keys wins.                           *)
LabelMapFirst(pairs) ==
  [k \in KeysOf(pairs) |->
     pairs[CHOOSE i \in At(pairs, k) : \A j \in At(pairs, k) : i <= j].value]

LabelMap(pairs) ==
  [k \in KeysOf(pairs) |->
     pairs[CHOOSE i \in At(pairs, k) : \A j \in At(pairs, k) : j <= i].value]

(* JSON has no NaN and no infinity.                                        *)
EncodeValue(e) ==
  [value |-> IF e.value \in Finite THEN e.value ELSE Null,
   metric_type |-> e.kind, labels |-> LabelMap(e.labels)]

(* decode_value(), which may be off in the last place of a long number, and*)
(* PendingBatch::push(), which wants an i64.                               *)
DecodeValue(raw) == [raw EXCEPT !.value = IF @ = Null THEN Zero ELSE Parsed[@]]
LastMicros == Power[TsDigits] \div 2 - 1
Column(ts) == IF ts > LastMicros THEN LastMicros ELSE ts
Exported(row) ==
  [ts |-> Column(DecodeKey(row.key)[1]), name |-> DecodeKey(row.key)[2],
   payload |-> DecodeValue(row.payload)]

-----------------------------------------------------------------------------
Init ==
  /\ name = <<>> /\ labels = <<>>
  /\ rows = <<>> /\ store = [k \in {} |-> 0] /\ seq = 0 /\ run = 0

GrowName ==
  /\ rows = <<>> /\ run = 0 /\ labels = <<>> /\ Len(name) < NameLen
  /\ \E c \in Chars : name' = Append(name, c)
  /\ UNCHANGED <<labels, rows, store, seq, run>>

GrowLabels ==
  /\ rows = <<>> /\ run = 0 /\ name = <<>> /\ Len(labels) < PairCount
  /\ \E k \in LabelKeys, v \in LabelValues :
       labels' = Append(labels, [key |-> k, value |-> v])
  /\ UNCHANGED <<name, rows, store, seq, run>>

(* flush_batch(), one row                                                  *)
Insert ==
  /\ input = <<<<>>, <<>>>> /\ Len(rows) < MaxRows
  /\ \E t \in Times, s \in Samples :
       LET entry == MetricEntry(s, t)
           key == EncodeKey(EntryMicros(t), seq, NameBytes(entry.name))
       IN /\ rows' = Append(rows, [time |-> t, sample |-> s, seq |-> seq,
                                   run |-> run, key |-> key,
                                   payload |-> EncodeValue(entry)])
          /\ store' = [k \in DOMAIN store \cup {key} |->
                         IF k = key THEN Len(rows) + 1 ELSE store[k]]
  /\ seq' = NextSeq(seq)
  /\ UNCHANGED <<input, run>>

(* A new process has a new writer, and counts from zero.                   *)
Restart ==
  /\ input = <<<<>>, <<>>>> /\ run < MaxRuns
  /\ run' = run + 1
  /\ seq' = 0
  /\ UNCHANGED <<input, rows, store>>

Next == GrowName \/ GrowLabels \/ Insert \/ Restart

Spec == Init /\ [][Next]_vars
=============================================================================
