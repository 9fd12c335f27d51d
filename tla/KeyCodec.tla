------------------------------ MODULE KeyCodec ------------------------------
(***************************************************************************)
(* The keys of the hot store (storage/fjall_engine.rs) at any width: the   *)
(* timestamp and the writer's sequence number in fixed-width digits, then  *)
(* the metric name, with colons between.  A key is the sequence of its     *)
(* bytes.                                                                  *)
(***************************************************************************)
EXTENDS Powers, Sequences, FiniteSets

CONSTANTS
  Base,        \* 16
  Half,        \* 10: the digits below sort before ':', the others after it
  TsDigits,    \* 16
  SeqDigits    \* 8

ASSUME KeyCodecAssumption ==
  /\ Base \in Nat \ {0, 1} /\ Half \in 1 .. Base
  /\ TsDigits \in Nat \ {0} /\ SeqDigits \in Nat \ {0}

Colon == Half
Digit(d) == IF d < Half THEN d ELSE d + 1
DigitValue(b) == IF b < Half THEN b ELSE b - 1

(* The numbers of n digits.                                                *)
Power == PowersOf(Base)

(* {:016x} and {:08x}                                                      *)
Hex(n, width) == [i \in 1 .. width |-> Digit((n \div Power[width - i]) % Base)]

(* Mutant: no leading zeros.                                               *)
EncodeKeyUnpadded(ts, seq, metric) ==
  LET width == CHOOSE w \in 1 .. TsDigits :
                 ts < Power[w] /\ (w = 1 \/ ts >= Power[w - 1])
  IN Hex(ts, width) \o <<Colon>> \o Hex(seq, SeqDigits) \o <<Colon>> \o metric

EncodeKey(ts, seq, metric) ==
  Hex(ts, TsDigits) \o <<Colon>> \o Hex(seq, SeqDigits) \o <<Colon>> \o metric

(* Mutant: the cutoff's own microsecond is included.                       *)
CutoffPrefixAfter(cutoff) == Hex(cutoff, TsDigits) \o <<Colon + 1>>

CutoffPrefix(cutoff) == Hex(cutoff, TsDigits)

(* splitn(3): the name is all that follows the second colon.               *)
Colons(key) == {i \in DOMAIN key : key[i] = Colon}
Nth(n, S) == CHOOSE i \in S : Cardinality({j \in S : j <= i}) = n
Value(digits) ==
  LET value[i \in 0 .. Len(digits)] ==
        IF i = 0 THEN 0 ELSE value[i - 1] * Base + DigitValue(digits[i])
  IN value[Len(digits)]

DecodeKey(key) ==
  <<Value(SubSeq(key, 1, Nth(1, Colons(key)) - 1)),
    SubSeq(key, Nth(2, Colons(key)) + 1, Len(key))>>

(* entry_micros(): a clock before the epoch counts as the epoch, one past  *)
(* the last u64 as that.                                                   *)
EntryMicros(t) ==
  IF t < 0 THEN 0 ELSE IF t < Power[TsDigits] THEN t ELSE Power[TsDigits] - 1

(* Fjall compares keys byte by byte.                                       *)
Precedes(j, k) ==
  \E n \in 0 .. Len(j) :
    /\ n < Len(k) /\ \A i \in 1 .. n : j[i] = k[i]
    /\ n = Len(j) \/ j[n + 1] < k[n + 1]

NextSeqStuck(seq) == seq

NextSeq(seq) == (seq + 1) % Power[SeqDigits]
=============================================================================
