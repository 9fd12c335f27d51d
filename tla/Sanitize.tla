------------------------------ MODULE Sanitize ------------------------------
(***************************************************************************)
(* The sanitizers of types.rs.  A string is a sequence of character        *)
(* classes; all classes take one byte but "wide", which takes Width.       *)
(***************************************************************************)
EXTENDS Naturals, Sequences, FiniteSets

CONSTANTS
  Width,      \* bytes of a "wide" character in UTF-8
  MaxPairs,   \* MAX_PAIRS
  MaxKey,     \* MAX_KEY, in bytes
  MaxVal,     \* MAX_VAL, in bytes
  Panic       \* no result

Chars == {"alpha", "digit", "under", "colon", "space", "punct", "wide"}

ASSUME SanitizeAssumption ==
  /\ Width \in Nat \ {0, 1}
  /\ {MaxPairs, MaxKey, MaxVal} \subseteq Nat \ {0}
  /\ Panic \notin Seq(Chars)

Bytes(s) == Len(s) + (Width - 1) * Cardinality({i \in DOMAIN s : s[i] = "wide"})
Prefix(s, n) == SubSeq(s, 1, n)

First == {"alpha", "under", "colon"}
Later == First \cup {"digit"}

(* Mutant: the first character is no special case.                         *)
AllowedAnywhere(i) == Later

Allowed(i) == IF i = 1 THEN First ELSE Later

(* "_unnamed"                                                              *)
Unnamed == <<"under", "alpha", "alpha", "alpha", "alpha", "alpha", "alpha", "alpha">>

SanitizeName(s) ==
  IF s = <<>> THEN Unnamed
  ELSE [i \in DOMAIN s |-> IF s[i] \in Allowed(i) THEN s[i] ELSE "under"]

(* str::trim()                                                             *)
Solid(s) == {i \in DOMAIN s : s[i] # "space"}
Trim(s) ==
  IF Solid(s) = {} THEN <<>>
  ELSE LET first == CHOOSE i \in Solid(s) : \A j \in Solid(s) : i <= j
           last  == CHOOSE i \in Solid(s) : \A j \in Solid(s) : i >= j
       IN SubSeq(s, first, last)

(* String::truncate() counts bytes, and panics inside a character.         *)
Cuts(s, max) == {n \in 0 .. Len(s) : Bytes(Prefix(s, n)) = max}
Truncate(s, max) ==
  IF Bytes(s) <= max THEN s
  ELSE IF Cuts(s, max) = {} THEN Panic
  ELSE Prefix(s, CHOOSE n \in Cuts(s, max) : TRUE)

(* A label whose key is blank is dropped, and does not count for the cap.  *)
Usable(pair) == Trim(pair.key) # <<>>

(* Mutant: the first MAX_PAIRS labels, less the blank ones.                *)
KeptEarly(pairs) ==
  SelectSeq(SubSeq(pairs, 1, IF Len(pairs) < MaxPairs THEN Len(pairs) ELSE MaxPairs),
            Usable)

Kept(pairs) ==
  LET kept[i \in 0 .. Len(pairs)] ==
        IF i = 0 THEN <<>>
        ELSE IF Usable(pairs[i]) /\ Len(kept[i - 1]) < MaxPairs
             THEN Append(kept[i - 1], pairs[i])
             ELSE kept[i - 1]
  IN kept[Len(pairs)]

(* Mutant: the key is cut first and sanitized after.                       *)
LabelKeyCutFirst(k) ==
  LET cut == Truncate(Trim(k), MaxKey)
  IN IF cut = Panic THEN Panic ELSE SanitizeName(cut)

LabelKey(k) == Truncate(SanitizeName(Trim(k)), MaxKey)
LabelValue(v) == Truncate(v, MaxVal)

SanitizeLabels(pairs) ==
  [i \in DOMAIN Kept(pairs) |->
     [key |-> LabelKey(Kept(pairs)[i].key), value |-> LabelValue(Kept(pairs)[i].value)]]
=============================================================================
