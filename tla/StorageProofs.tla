---------------------------- MODULE StorageProofs ----------------------------
(***************************************************************************)
(* Proofs about what surrounds compaction: the pipe that fills the         *)
(* partition and the shutdown() that empties it, with any number of loops  *)
(* and callers, and the client that polls for exports.                     *)
(***************************************************************************)
EXTENDS Storage, ColdReader, CompactionProofs

(* Both tiers under the lifecycle take no step but those of Compaction.    *)
LEMMA StorageSteps ==
  ASSUME [StorageNext]_<<vars, pipe, life, collided>>
  PROVE  [Next]_vars
BY DEF StorageNext, Accept, Deliver, WriterEnd, Loop, ShutdownSwap, ShutdownSend,
       ShutdownJoin, Exit, Next

(* The types hold under exits, too.                                        *)
LEMMA StorageTypes == StorageSpec => []Typed
<1>1. StorageInit => Typed
  BY TypedInit DEF StorageInit
<1>2. Typed /\ [StorageNext]_<<vars, pipe, life, collided>> => Typed'
  BY StorageSteps, TypedStep
<1> QED
  BY <1>1, <1>2, PTL DEF StorageSpec

(* The types, and the age of the rows that leave the partition, hold       *)
(* however the writer thread, the loops and shutdown() are interleaved.    *)
THEOREM StorageInvariance == StorageSpec => [](TypeOK /\ ExpiredOnly)
<1>1. StorageInit => Init
  BY DEF StorageInit
<1>2. [StorageNext]_<<vars, pipe, life, collided>> => [Next]_vars
  BY StorageSteps
<1>3. StorageSpec => Spec
  BY <1>1, <1>2, PTL DEF StorageSpec, Spec
<1> QED
  BY <1>3, ExportTypes, OnlyExpiredLeave, PTL

-----------------------------------------------------------------------------
(* No row is lost unless a pass failed or two passes met.                  *)

(* Each pass has a file of its own, ...                                    *)
OwnFile ==
  /\ torn = {}
  /\ \A l, m \in Loops : out[l] # None /\ out[l] = out[m] => l = m

(* ... under the temporary name it opened, complete when it is closed.     *)
InHands ==
  \A l \in Loops :
    /\ keys[l] \subseteq written[l]
    /\ out[l] = None => written[l] = {}
    /\ out[l] # None => tmp[tmpAt[l]] = out[l]
    /\ pc[l] = "rename" => out[l] \in whole /\ body[out[l]] = written[l]

Unmet == OneName /\ OwnFile /\ InHands /\ AtLeastOnce

(* A step that moves no row and no file.                                   *)
LEMMA UnmetKept ==
  ASSUME Typed, Unmet,
         UNCHANGED <<pc, written, out, tmpAt, tmp, cold, body, whole, torn, made>>,
         Rows' \ Rows \subseteq hot', hot \subseteq hot',
         \A l \in Loops : keys'[l] \subseteq keys[l]
  PROVE  Unmet'
<1>1. OneName' /\ OwnFile'
  BY DEF Unmet, OneName, OwnFile
<1>2. InHands'
  BY DEF Unmet, InHands
<1>3. AtLeastOnce'
  BY DEF Unmet, AtLeastOnce, Published, Moving
<1> QED
  BY <1>1, <1>2, <1>3 DEF Unmet

(* A pass opens a file that nobody has, unless two passes meet.            *)
LEMMA UnmetRow ==
  ASSUME Typed, Unmet, NEW l \in Loops, PassRow(l), ~Meet
  PROVE  Unmet'
<1> USE CompactionAssumption
<1>1. /\ pc[l] = "scan"
      /\ UNCHANGED <<ts, hot, pc, keys, written, cold>>
      /\ \/ UNCHANGED <<tmp, body, whole, torn, made, out, tmpAt>>
         \/ out[l] = None /\ OpenExport(l)
  BY DEF PassRow, store
<1>2. CASE UNCHANGED <<tmp, body, whole, torn, made, out, tmpAt>>
  BY <1>1, <1>2, UnmetKept DEF Rows
<1>3. CASE out[l] = None /\ OpenExport(l)
  <2> DEFINE s == Second(now)
             f == made + 1
  <2>1. /\ tmp \in [Seconds -> Files \cup {None}] /\ made \in Nat
        /\ cold \in [Seconds -> Files \cup {None}]
        /\ out \in [Loops -> Files \cup {None}]
        /\ tmpAt \in [Loops -> Seconds \cup {None}]
        /\ body \in [Files -> SUBSET Rows] /\ whole \subseteq Files
        /\ s \in Seconds /\ Files \subseteq Nat /\ None \notin Nat
    BY SecondInRange DEF Typed, TypeOK, Files
  <2>2. out'[l] # None
    BY <1>3, OpenTypes DEF Typed
  <2>3. tmp[s] = None
    BY <1>1, <1>3, <2>2 DEF Meet, OpenExport
  <2>4. /\ f \in Files /\ tmp' = [tmp EXCEPT ![s] = f] /\ made' = f
        /\ body' = [body EXCEPT ![f] = {}] /\ whole' = whole \ {f}
        /\ torn' = IF Writers(f) # {} THEN torn \cup {f} ELSE torn \ {f}
        /\ out' = [out EXCEPT ![l] = f] /\ tmpAt' = [tmpAt EXCEPT ![l] = s]
    BY <1>3, <2>3 DEF OpenExport
  <2>5. \A t \in Seconds : /\ tmp[t] # None => tmp[t] \in Nat /\ tmp[t] <= made
                           /\ cold[t] # None => cold[t] \in Nat /\ cold[t] <= made
    <3>1. \A t \in Seconds : /\ tmp[t] # None => tmp[t] \in Nat
                             /\ cold[t] # None => cold[t] \in Nat
      BY <2>1
    <3> QED
      BY <3>1 DEF Unmet, OneName
  <2>6. /\ f \in Nat /\ f # None /\ ~(f <= made) /\ made <= f
    BY <2>1
  <2>7. \A t \in Seconds : tmp[t] # f /\ cold[t] # f
    BY <2>5, <2>6
  <2>8. \A m \in Loops : out[m] # None => tmpAt[m] \in Seconds /\ tmp[tmpAt[m]] = out[m]
    BY <2>1 DEF Typed, Filed, FiledAt, Unmet, InHands
  <2>9. \A m \in Loops : out[m] # f
    BY <2>6, <2>7, <2>8
  <2>10. torn' = {}
    BY <2>4, <2>9 DEF Writers, Unmet, OwnFile
  <2> HIDE DEF f, s
  <2>11. tmp'[s] = f /\ \A t \in Seconds : t # s => tmp'[t] = tmp[t]
    BY <2>1, <2>4
  <2>12. OneName'
    <3>1. \A t, u \in Seconds : tmp'[t] # None => tmp'[t] # cold'[u]
      BY <1>1, <2>7, <2>11 DEF Unmet, OneName
    <3>2. \A t, u \in Seconds : tmp'[t] # None /\ tmp'[t] = tmp'[u] => t = u
      BY <2>7, <2>11 DEF Unmet, OneName
    <3>3. \A t \in Seconds : /\ tmp'[t] # None => tmp'[t] <= made'
                             /\ cold'[t] # None => cold'[t] <= made'
      BY <1>1, <2>1, <2>4, <2>5, <2>6, <2>11
    <3> QED
      BY <1>1, <3>1, <3>2, <3>3 DEF Unmet, OneName
  <2>13. /\ out'[l] = f /\ tmpAt'[l] = s
         /\ \A m \in Loops \ {l} : out'[m] = out[m] /\ tmpAt'[m] = tmpAt[m]
    BY <2>1, <2>4
  <2>14. OwnFile'
    BY <2>9, <2>10, <2>13 DEF Unmet, OwnFile
  <2>15. \A g \in Files : g # f => body'[g] = body[g]
    BY <2>1, <2>4
  <2>16. InHands'
    <3> SUFFICES ASSUME NEW m \in Loops
                 PROVE  /\ keys'[m] \subseteq written'[m]
                        /\ out'[m] = None => written'[m] = {}
                        /\ out'[m] # None => tmp'[tmpAt'[m]] = out'[m]
                        /\ pc'[m] = "rename" =>
                             out'[m] \in whole' /\ body'[out'[m]] = written'[m]
      BY DEF InHands
    <3>1. CASE m = l
      BY <1>1, <2>6, <2>11, <2>13, <3>1 DEF Unmet, InHands
    <3>2. CASE m # l
      <4>1. out[m] # None => tmp'[tmpAt[m]] = out[m]
        BY <2>3, <2>8, <2>11
      <4>2. out[m] \in whole => body'[out[m]] = body[out[m]] /\ out[m] \in whole'
        BY <2>1, <2>4, <2>9, <2>15
      <4> QED
        BY <1>1, <2>13, <3>2, <4>1, <4>2 DEF Unmet, InHands
    <3> QED
      BY <3>1, <3>2
  <2>17. Published' = Published
    BY <1>1, <2>1, <2>4, <2>7, <2>15, PublishedKept
  <2>18. AtLeastOnce'
    BY <1>1, <2>17 DEF Unmet, AtLeastOnce, Moving, Rows
  <2> QED
    BY <2>12, <2>14, <2>16, <2>18 DEF Unmet
<1> QED
  BY <1>1, <1>2, <1>3

(* A chunk that is handed over stays in hand while its keys are removed.   *)
LEMMA UnmetFlush ==
  ASSUME Typed, Unmet, NEW l \in Loops, PassFlush(l)
  PROVE  Unmet'
<1>1. /\ pc[l] = "scan" /\ pc' = [pc EXCEPT ![l] = "remove"] /\ pend[l] # {}
      /\ keys' = [keys EXCEPT ![l] = pend[l]]
      /\ written' = [written EXCEPT ![l] = @ \cup pend[l]]
      /\ UNCHANGED <<ts, hot, out, tmpAt, tmp, cold, body, whole, torn, made>>
  BY DEF PassFlush, store, directory, contents
<1>2. OneName' /\ OwnFile'
  BY <1>1 DEF Unmet, OneName, OwnFile
<1>3. out[l] # None
  BY <1>1 DEF Typed, Filed, FiledAt
<1>4. /\ pc'[l] = "remove" /\ keys'[l] = pend[l]
      /\ written'[l] = written[l] \cup pend[l]
      /\ \A m \in Loops \ {l} : /\ pc'[m] = pc[m] /\ keys'[m] = keys[m]
                                /\ written'[m] = written[m]
  BY <1>1 DEF Typed, TypeOK
<1>5. InHands'
  BY <1>1, <1>3, <1>4 DEF Unmet, InHands
<1>6. Moving \subseteq Moving'
  BY <1>4 DEF Moving
<1>7. AtLeastOnce'
  BY <1>1, <1>6 DEF Unmet, AtLeastOnce, Published, Rows
<1> QED
  BY <1>2, <1>5, <1>7 DEF Unmet

(* A row that PassRemove deletes is one its pass has written.              *)
LEMMA UnmetRemove ==
  ASSUME Typed, Unmet, NEW l \in Loops, PassRemove(l)
  PROVE  Unmet'
<1>1. PICK r \in keys[l] : /\ keys' = [keys EXCEPT ![l] = @ \ {r}]
                           /\ hot' = hot \/ hot' = hot \ {r}
  BY DEF PassRemove, FirstKeys
<1>2. /\ pc[l] = "remove" /\ \E to \in {"scan", "remove"} : pc' = [pc EXCEPT ![l] = to]
      /\ UNCHANGED <<ts, written, out, tmpAt, tmp, cold, body, whole, torn, made>>
  BY DEF PassRemove, directory, contents
<1>3. OneName' /\ OwnFile'
  BY <1>2 DEF Unmet, OneName, OwnFile
<1>4. /\ \A m \in Loops : keys'[m] \subseteq keys[m]
      /\ \A m \in Loops : pc'[m] = "rename" => pc[m] = "rename"
  BY <1>1, <1>2 DEF Typed, TypeOK
<1>5. InHands'
  BY <1>2, <1>4 DEF Unmet, InHands
<1>6. r \in Moving
  BY DEF Unmet, InHands, Moving
<1>7. AtLeastOnce'
  BY <1>1, <1>2, <1>6 DEF Unmet, AtLeastOnce, Published, Moving, Rows
<1> QED
  BY <1>3, <1>5, <1>7 DEF Unmet

(* A pass that ends has nothing in hand.                                   *)
LEMMA Ended ==
  ASSUME Typed, NEW l \in Loops, EndPass(l)
  PROVE  /\ pc'[l] = "sleep" /\ keys'[l] = {} /\ written'[l] = {} /\ out'[l] = None
         /\ \A m \in Loops \ {l} :
              /\ pc'[m] = pc[m] /\ keys'[m] = keys[m] /\ written'[m] = written[m]
              /\ out'[m] = out[m] /\ tmpAt'[m] = tmpAt[m]
BY DEF EndPass, Typed, TypeOK

(* A file is closed with the rows of its own pass.                         *)
LEMMA UnmetClose ==
  ASSUME Typed, Unmet, NEW l \in Loops, PassClose(l)
  PROVE  Unmet'
<1> USE CompactionAssumption
<1>1. UNCHANGED <<ts, hot, tmp, cold, torn, made>> /\ pc[l] = "scan"
  BY DEF PassClose, store, directory
<1>2. OneName'
  BY <1>1 DEF Unmet, OneName
<1>3. CASE EndPass(l) /\ out[l] = None /\ UNCHANGED <<body, whole>>
  <2>1. written[l] = {}
    BY <1>3 DEF Unmet, InHands
  <2>2. OwnFile'
    BY <1>1, <1>3, Ended DEF Unmet, OwnFile
  <2>3. InHands'
    BY <1>1, <1>3, Ended DEF Unmet, InHands
  <2>4. \A m \in Loops : written[m] \subseteq written'[m]
    BY <1>3, <2>1, Ended
  <2>5. Moving \subseteq Moving'
    BY <2>4 DEF Moving
  <2>6. AtLeastOnce'
    BY <1>1, <1>3, <2>5 DEF Unmet, AtLeastOnce, Published, Rows
  <2> QED
    BY <1>2, <2>2, <2>3, <2>6 DEF Unmet
<1>4. CASE /\ out[l] # None /\ pc' = [pc EXCEPT ![l] = "rename"]
           /\ body' = [body EXCEPT ![out[l]] = written[l]]
           /\ whole' = IF out[l] \in torn THEN whole \ {out[l]}
                       ELSE whole \cup {out[l]}
           /\ UNCHANGED <<keys, written, out, tmpAt>>
  <2>1. /\ out[l] \in Files /\ whole' = whole \cup {out[l]}
        /\ body'[out[l]] = written[l]
        /\ \A f \in Files : f # out[l] => body'[f] = body[f]
        /\ pc'[l] = "rename" /\ \A m \in Loops \ {l} : pc'[m] = pc[m]
    BY <1>4 DEF Typed, TypeOK, Unmet, OwnFile
  <2>2. whole \subseteq Files /\ out \in [Loops -> Files \cup {None}]
    BY DEF Typed, TypeOK
  <2>3. OwnFile'
    BY <1>1, <1>4 DEF Unmet, OwnFile
  <2>4. \A m \in Loops \ {l} : out[m] # out[l]
    BY <1>4 DEF Unmet, OwnFile
  <2>5. ASSUME NEW m \in Loops, pc'[m] = "rename"
        PROVE  out[m] \in whole' /\ body'[out[m]] = written[m]
    <3>1. CASE m = l
      BY <2>1, <3>1
    <3>2. CASE m # l
      <4>1. out[m] \in whole /\ body[out[m]] = written[m]
        BY <2>1, <2>5, <3>2 DEF Unmet, InHands
      <4> QED
        BY <2>1, <2>2, <2>4, <3>2, <4>1
    <3> QED
      BY <3>1, <3>2
  <2>6. InHands'
    BY <1>1, <1>4, <2>5 DEF Unmet, InHands
  <2>7. tmpAt[l] \in Seconds /\ tmp[tmpAt[l]] = out[l]
    BY <1>4 DEF Typed, TypeOK, Filed, FiledAt, Unmet, InHands
  <2>8. \A s \in Seconds : cold[s] # out[l]
    BY <1>4, <2>7 DEF Unmet, OneName
  <2>9. Published' = Published
    BY <1>1, <2>1, <2>2, <2>8, PublishedKept
  <2>10. AtLeastOnce'
    BY <1>1, <1>4, <2>9 DEF Unmet, AtLeastOnce, Moving, Rows
  <2> QED
    BY <1>2, <2>3, <2>6, <2>10 DEF Unmet
<1> QED
  BY <1>3, <1>4 DEF PassClose

(* The rows in hand are published, and no published name is taken over.    *)
LEMMA UnmetRename ==
  ASSUME Typed, Unmet, NEW l \in Loops, PassRename(l), ~Meet
  PROVE  Unmet'
<1> USE CompactionAssumption
<1>1. /\ EndPass(l) /\ pc[l] = "rename"
      /\ UNCHANGED <<now, ts, hot, body, whole, torn, made>>
  BY DEF PassRename, store, contents
<1>2. /\ out[l] # None /\ out[l] \in whole /\ tmp[tmpAt[l]] = out[l]
      /\ tmpAt[l] \in Seconds /\ body[out[l]] = written[l]
  BY <1>1 DEF Unmet, InHands, Typed, TypeOK, Filed, FiledAt
<1>3. /\ cold' = [cold EXCEPT ![Second(now)] = out[l]]
      /\ tmp' = [tmp EXCEPT ![tmpAt[l]] = None]
  BY <1>2 DEF PassRename, directory
<1>4. /\ tmp \in [Seconds -> Files \cup {None}]
      /\ cold \in [Seconds -> Files \cup {None}] /\ Second(now) \in Seconds
      /\ whole \subseteq Files /\ None \notin whole
  BY SecondInRange, WholeAreFiles DEF Typed, TypeOK
<1>5. /\ \A s \in Seconds : cold'[s] = IF s = Second(now) THEN out[l] ELSE cold[s]
      /\ \A s \in Seconds : tmp'[s] = IF s = tmpAt[l] THEN None ELSE tmp[s]
  BY <1>3, <1>4
<1>6. OneName'
  <2>1. \A s, t \in Seconds : tmp'[s] # None => tmp'[s] # cold'[t]
    BY <1>2, <1>5 DEF Unmet, OneName
  <2>2. \A s, t \in Seconds : tmp'[s] # None /\ tmp'[s] = tmp'[t] => s = t
    BY <1>5 DEF Unmet, OneName
  <2>3. \A s, t \in Seconds : cold'[s] # None /\ cold'[s] = cold'[t] => s = t
    BY <1>2, <1>5 DEF Unmet, OneName
  <2>4. \A s \in Seconds : /\ tmp'[s] # None => tmp'[s] <= made
                           /\ cold'[s] # None => cold'[s] <= made
    BY <1>2, <1>5 DEF Unmet, OneName
  <2> QED
    BY <1>1, <2>1, <2>2, <2>3, <2>4 DEF OneName
<1>7. OwnFile'
  BY <1>1, Ended DEF Unmet, OwnFile
<1>8. ASSUME NEW m \in Loops, out'[m] # None PROVE tmp'[tmpAt'[m]] = out'[m]
  <2>1. m # l /\ out'[m] = out[m] /\ tmpAt'[m] = tmpAt[m] /\ out[m] # out[l]
    BY <1>1, <1>2, <1>8, Ended DEF Unmet, OwnFile
  <2>2. tmpAt[m] \in Seconds /\ tmp[tmpAt[m]] = out[m]
    BY <1>8, <2>1 DEF Unmet, InHands, Typed, TypeOK, Filed, FiledAt
  <2> QED
    BY <1>2, <1>5, <2>1, <2>2
<1>9. InHands'
  BY <1>1, <1>8, Ended DEF Unmet, InHands
<1>10. \A s \in Seconds : cold[s] # None => cold'[s] = cold[s]
  BY DEF Meet
<1>11. Published \subseteq Published'
  BY <1>1, <1>4, <1>10 DEF Published
<1>12. written[l] \subseteq Published'
  BY <1>1, <1>2, <1>4, <1>5 DEF Published
<1>13. \A m \in Loops \ {l} : written'[m] = written[m]
  BY <1>1, Ended
<1>14. Moving \subseteq Moving' \cup written[l]
  BY <1>13 DEF Moving
<1>15. AtLeastOnce'
  BY <1>1, <1>11, <1>12, <1>14 DEF Unmet, AtLeastOnce, Rows
<1> QED
  BY <1>6, <1>7, <1>9, <1>15 DEF Unmet

(* Every step that neither fails nor makes two passes meet.                *)
LEMMA UnmetStep ==
  ASSUME Typed, Unmet, StorageNext, failed' = {}, ~Meet
  PROVE  Unmet'
<1>1. CASE UNCHANGED vars
  BY <1>1, UnmetKept DEF vars, store, directory, contents, Rows
<1>2. CASE Tick
  BY <1>2, UnmetKept DEF Tick, store, directory, contents, Rows
<1>3. CASE Insert
  <2>1. /\ hot' = hot \cup {Len(ts) + 1}
        /\ UNCHANGED <<pc, keys, written, out, tmpAt, tmp, cold, body, whole, torn, made>>
        /\ \E t \in 0 .. now : ts' = Append(ts, t)
    BY <1>3 DEF Insert, directory, contents
  <2>2. Rows' \ Rows \subseteq hot'
    BY <2>1 DEF Typed, TypeOK, Rows
  <2> QED
    BY <2>1, <2>2, UnmetKept
<1>4. ASSUME NEW l \in Loops, Loop(l) PROVE Unmet'
  <2>1. CASE PassBegin(l)
    <3>1. /\ UNCHANGED <<ts, hot, keys, written, out, tmpAt, tmp, cold, body, whole,
                         torn, made>>
          /\ pc' = [pc EXCEPT ![l] = "scan"]
      BY <2>1 DEF PassBegin, store, directory, contents
    <3>2. OneName' /\ OwnFile'
      BY <3>1 DEF Unmet, OneName, OwnFile
    <3>3. \A m \in Loops : pc'[m] = "rename" => pc[m] = "rename"
      BY <3>1 DEF Typed, TypeOK
    <3>4. InHands'
      BY <3>1, <3>3 DEF Unmet, InHands
    <3>5. AtLeastOnce'
      BY <3>1 DEF Unmet, AtLeastOnce, Published, Moving, Rows
    <3> QED
      BY <3>2, <3>4, <3>5 DEF Unmet
  <2>2. ~PassError(l)
    BY DEF PassError
  <2> QED
    BY <1>4, <2>1, <2>2, UnmetRow, UnmetFlush, UnmetRemove, UnmetClose, UnmetRename
       DEF Loop, PassNext
<1> QED
  BY <1>1, <1>2, <1>3, <1>4
     DEF StorageNext, Accept, Deliver, WriterEnd, ShutdownSwap, ShutdownSend,
         ShutdownJoin, Exit

-----------------------------------------------------------------------------
(* The pipe and its end.                                                   *)

(* A sample that was accepted before shutdown() began is in the pipe, in   *)
(* the partition's history or discarded, and the pipe is empty once the    *)
(* writer has been joined.                                                 *)
PipeHolds ==
  /\ stored \in Seq(1 .. MaxRows) /\ Len(stored) = Len(ts)
  /\ queue \in Seq((1 .. MaxRows) \cup {Sentinel})
  /\ before \subseteq Accepted
  /\ phase = "closed" => queue = <<>>
  /\ \A s \in Stoppers : halt[s] = "done" => phase = "closed"
  /\ halt \in [Stoppers -> {"idle", "already", "send", "join", "done"}]
  /\ ended # None => ended \in Stoppers

(* The elements of a concatenation.                                        *)
LEMMA AcceptedIs ==
  ASSUME NEW S, NEW q \in Seq(S), NEW t \in Seq(S)
  PROVE  Pipe!Elements(q \o t) = Pipe!Elements(q) \cup Pipe!Elements(t)
<1>1. /\ Len(q) \in Nat /\ Len(t) \in Nat /\ Len(q \o t) = Len(q) + Len(t)
      /\ DOMAIN q = 1 .. Len(q) /\ DOMAIN t = 1 .. Len(t)
      /\ DOMAIN (q \o t) = 1 .. Len(q) + Len(t)
  OBVIOUS
<1>2. /\ \A i \in 1 .. Len(q) : (q \o t)[i] = q[i]
      /\ \A i \in 1 .. Len(t) : (q \o t)[Len(q) + i] = t[i]
  OBVIOUS
<1>3. \A i \in 1 .. Len(q) + Len(t) :
        i \in 1 .. Len(q) \/ (i - Len(q) \in 1 .. Len(t) /\ i = Len(q) + (i - Len(q)))
  BY <1>1
<1>4. Pipe!Elements(q \o t) \subseteq Pipe!Elements(q) \cup Pipe!Elements(t)
  BY <1>1, <1>2, <1>3 DEF Pipe!Elements
<1>5. Pipe!Elements(q) \subseteq Pipe!Elements(q \o t)
  BY <1>1, <1>2 DEF Pipe!Elements
<1>6. \A i \in 1 .. Len(t) : Len(q) + i \in 1 .. Len(q) + Len(t)
  BY <1>1
<1>7. Pipe!Elements(t) \subseteq Pipe!Elements(q \o t)
  BY <1>1, <1>2, <1>6 DEF Pipe!Elements
<1> QED
  BY <1>4, <1>5, <1>7

(* A sequence over a set is one over a larger set.                         *)
LEMMA SeqWiden ==
  ASSUME NEW S, NEW T, S \subseteq T, NEW q \in Seq(S)
  PROVE  q \in Seq(T)
<1>1. Len(q) \in Nat /\ q \in [1 .. Len(q) -> S]
  OBVIOUS
<1>2. q \in [1 .. Len(q) -> T]
  BY <1>1
<1> QED
  BY <1>1, <1>2

(* The elements after a send.                                              *)
LEMMA ElementsAppend ==
  ASSUME NEW S, NEW q \in Seq(S), NEW m
  PROVE  Pipe!Elements(Append(q, m)) = Pipe!Elements(q) \cup {m}
<1>1. /\ Len(q) \in Nat /\ DOMAIN q = 1 .. Len(q)
      /\ DOMAIN Append(q, m) = 1 .. Len(q) + 1
      /\ \A i \in 1 .. Len(q) : Append(q, m)[i] = q[i]
      /\ Append(q, m)[Len(q) + 1] = m
  <2>1. q \in Seq(S \cup {m})
    OBVIOUS
  <2> QED
    BY <2>1
<1>2. 1 .. Len(q) + 1 = (1 .. Len(q)) \cup {Len(q) + 1}
  BY <1>1
<1> QED
  BY <1>1, <1>2 DEF Pipe!Elements

(* The elements before a receive.                                          *)
LEMMA ElementsTail ==
  ASSUME NEW S, NEW q \in Seq(S), q # <<>>
  PROVE  /\ Tail(q) \in Seq(S) /\ Head(q) \in S
         /\ Pipe!Elements(q) = Pipe!Elements(Tail(q)) \cup {Head(q)}
<1>1. /\ Len(q) \in Nat /\ Len(q) >= 1 /\ DOMAIN q = 1 .. Len(q)
      /\ Tail(q) \in Seq(S) /\ Head(q) = q[1] /\ Head(q) \in S
      /\ DOMAIN Tail(q) = 1 .. Len(q) - 1
      /\ \A i \in 1 .. Len(q) - 1 : Tail(q)[i] = q[i + 1]
  OBVIOUS
<1>2. \A i \in 1 .. Len(q) : i = 1 \/ (i - 1 \in 1 .. Len(q) - 1 /\ i = (i - 1) + 1)
  BY <1>1
<1>3. Pipe!Elements(q) \subseteq Pipe!Elements(Tail(q)) \cup {Head(q)}
  <2> SUFFICES ASSUME NEW i \in 1 .. Len(q), q[i] # Head(q)
               PROVE  q[i] \in Pipe!Elements(Tail(q))
    BY <1>1 DEF Pipe!Elements
  <2>1. i - 1 \in 1 .. Len(q) - 1 /\ i = (i - 1) + 1
    BY <1>1, <1>2
  <2>2. Tail(q)[i - 1] = q[i]
    BY <1>1, <2>1
  <2> QED
    BY <1>1, <2>1, <2>2 DEF Pipe!Elements
<1>4. 1 \in 1 .. Len(q) /\ \A i \in 1 .. Len(q) - 1 : i + 1 \in 1 .. Len(q)
  BY <1>1
<1>5. Pipe!Elements(Tail(q)) \cup {Head(q)} \subseteq Pipe!Elements(q)
  BY <1>1, <1>4 DEF Pipe!Elements
<1> QED
  BY <1>1, <1>3, <1>5

(* What is accepted, in three parts.                                       *)
LEMMA AcceptedParts ==
  ASSUME NEW S, queue \in Seq(S), stored \in Seq(S)
  PROVE  Accepted = (Pipe!Elements(queue) \cup Pipe!Elements(stored) \cup discarded)
                      \ {Sentinel}
BY AcceptedIs DEF Accepted

(* A step of the pipe loses nothing that was accepted, stores at most one  *)
(* sample, and leaves a closed pipe empty and closed.                      *)
LEMMA PipeStep ==
  ASSUME PipeHolds,
         \/ \E m \in (1 .. MaxRows) \cup {Sentinel} : Pipe!Push(m)
         \/ Pipe!Deliver \/ Pipe!End \/ Pipe!Close
  PROVE  /\ stored' \in Seq(1 .. MaxRows)
         /\ stored' = stored \/ Len(stored') = Len(stored) + 1
         /\ queue' \in Seq((1 .. MaxRows) \cup {Sentinel})
         /\ Accepted \subseteq Accepted'
         /\ phase' = "closed" => queue' = <<>>
         /\ phase = "closed" => phase' = "closed"
<1> DEFINE Msg == (1 .. MaxRows) \cup {Sentinel}
<1> HIDE DEF Msg
<1>0. /\ queue \in Seq(Msg) /\ stored \in Seq(1 .. MaxRows)
      /\ phase = "closed" => queue = <<>>
      /\ (1 .. MaxRows) \subseteq Msg
  BY DEF PipeHolds, Msg
<1>1. stored \in Seq(Msg) /\ (1 .. MaxRows) \subseteq Msg /\ <<>> \in Seq(Msg)
  <2>1. stored \in Seq(Msg)
    BY <1>0, SeqWiden
  <2>2. <<>> \in Seq(Msg)
    OBVIOUS
  <2> QED
    BY <1>0, <2>1, <2>2
<1>2. Accepted = (Pipe!Elements(queue) \cup Pipe!Elements(stored) \cup discarded)
                   \ {Sentinel}
  BY <1>0, <1>1, AcceptedParts
<1>3. ASSUME queue' \in Seq(Msg), stored' \in Seq(Msg)
      PROVE  Accepted' = (Pipe!Elements(queue') \cup Pipe!Elements(stored')
                            \cup discarded') \ {Sentinel}
  BY <1>3, AcceptedIs DEF Accepted
<1>4. ASSUME NEW m \in Msg, Pipe!Push(m)
      PROVE  /\ stored' \in Seq(1 .. MaxRows) /\ stored' = stored
             /\ queue' \in Seq(Msg) /\ Accepted \subseteq Accepted'
             /\ phase' = phase /\ phase # "closed"
  <2>1. queue' = Append(queue, m) /\ UNCHANGED <<stored, discarded, phase>>
    BY <1>4 DEF Pipe!Push
  <2>2. queue' \in Seq(Msg) /\ Pipe!Elements(queue') = Pipe!Elements(queue) \cup {m}
    BY <1>0, <2>1, ElementsAppend
  <2>3. phase # "closed"
    BY <1>4 DEF Pipe!Push
  <2> QED
    BY <1>0, <1>1, <1>2, <1>3, <2>1, <2>2, <2>3
<1>5. ASSUME Pipe!Deliver
      PROVE  /\ stored' \in Seq(1 .. MaxRows)
             /\ stored' = stored \/ Len(stored') = Len(stored) + 1
             /\ queue' \in Seq(Msg) /\ Accepted \subseteq Accepted'
             /\ phase' = phase /\ phase # "closed"
  <2>1. /\ queue # <<>> /\ Head(queue) # Sentinel /\ queue' = Tail(queue)
        /\ phase' = phase /\ phase # "closed"
        /\ \/ stored' = Append(stored, Head(queue)) /\ discarded' = discarded
           \/ discarded' = discarded \cup {Head(queue)} /\ stored' = stored
    BY <1>5 DEF Pipe!Deliver
  <2>2. /\ queue' \in Seq(Msg) /\ Head(queue) \in Msg
        /\ Pipe!Elements(queue) = Pipe!Elements(queue') \cup {Head(queue)}
    BY <1>0, <2>1, ElementsTail
  <2>3. Head(queue) \in 1 .. MaxRows
    BY <2>1, <2>2 DEF Msg
  <2>4. CASE stored' = Append(stored, Head(queue)) /\ discarded' = discarded
    <3>1. stored' \in Seq(1 .. MaxRows) /\ Len(stored') = Len(stored) + 1
      BY <1>0, <2>3, <2>4
    <3>2. Pipe!Elements(stored') = Pipe!Elements(stored) \cup {Head(queue)}
      BY <1>0, <2>4, ElementsAppend
    <3>3. stored' \in Seq(Msg)
      BY <1>1, <3>1, SeqWiden
    <3> QED
      BY <1>2, <1>3, <2>1, <2>2, <2>4, <3>1, <3>2, <3>3
  <2>5. CASE discarded' = discarded \cup {Head(queue)} /\ stored' = stored
    BY <1>0, <1>1, <1>2, <1>3, <2>1, <2>2, <2>5
  <2> QED
    BY <2>1, <2>4, <2>5
<1>6. ASSUME Pipe!End
      PROVE  /\ stored' \in Seq(1 .. MaxRows) /\ stored' = stored
             /\ queue' \in Seq(Msg) /\ Accepted \subseteq Accepted'
             /\ phase' = "ended" /\ phase # "closed"
  <2>1. /\ queue # <<>> /\ Head(queue) = Sentinel /\ queue' = Tail(queue)
        /\ phase' = "ended" /\ phase # "closed"
        /\ UNCHANGED <<stored, discarded>>
    BY <1>6 DEF Pipe!End
  <2>2. /\ queue' \in Seq(Msg)
        /\ Pipe!Elements(queue) = Pipe!Elements(queue') \cup {Sentinel}
    BY <1>0, <2>1, ElementsTail
  <2> QED
    BY <1>0, <1>1, <1>2, <1>3, <2>1, <2>2
<1>7. ASSUME Pipe!Close
      PROVE  /\ stored' \in Seq(1 .. MaxRows) /\ stored' = stored
             /\ queue' \in Seq(Msg) /\ Accepted \subseteq Accepted'
             /\ phase' = "closed" /\ queue' = <<>>
  <2>1. /\ queue' = <<>> /\ stored' = stored /\ phase' = "closed"
        /\ discarded' = discarded \cup (Pipe!Elements(queue) \ {Sentinel})
    BY <1>7 DEF Pipe!Close
  <2>2. queue' \in Seq(Msg)
    BY <1>1, <2>1
  <2> QED
    BY <1>0, <1>1, <1>2, <1>3, <2>1, <2>2
<1> QED
  BY <1>4, <1>5, <1>6, <1>7 DEF Msg

(* Nothing has been offered at the start.                                  *)
LEMMA PipeHoldsInit == ASSUME StorageInit PROVE PipeHolds
<1>1. /\ queue = <<>> /\ stored = <<>> /\ ts = <<>> /\ phase = "open"
      /\ before = {} /\ ended = None /\ halt = [s \in Stoppers |-> "idle"]
  BY DEF StorageInit, Init, Pipe!Init
<1> QED
  BY <1>1 DEF PipeHolds

(* Every step keeps what the pipe holds.                                   *)
LEMMA PipeHoldsStep ==
  ASSUME Typed, PipeHolds, [StorageNext]_<<vars, pipe, life, collided>>
  PROVE  PipeHolds'
<1>1. CASE UNCHANGED <<pipe, life>> /\ UNCHANGED ts
  BY <1>1 DEF pipe, life, PipeHolds, Accepted
<1>2. ASSUME \/ \E m \in (1 .. MaxRows) \cup {Sentinel} : Pipe!Push(m)
             \/ Pipe!Deliver \/ Pipe!End \/ Pipe!Close,
             Len(stored') = Len(ts'), UNCHANGED <<before, ended>>,
             halt' \in [Stoppers -> {"idle", "already", "send", "join", "done"}],
             \A s \in Stoppers : halt'[s] = "done" => halt[s] = "done"
      PROVE  PipeHolds'
  <2>1. /\ stored' \in Seq(1 .. MaxRows)
        /\ queue' \in Seq((1 .. MaxRows) \cup {Sentinel})
        /\ Accepted \subseteq Accepted'
        /\ phase' = "closed" => queue' = <<>>
        /\ phase = "closed" => phase' = "closed"
    BY <1>2, PipeStep
  <2> QED
    BY <1>2, <2>1 DEF PipeHolds
<1>3. CASE Accept
  <2>1. PICK m \in 1 .. MaxRows : Pipe!Push(m)
    BY <1>3 DEF Accept
  <2>2. UNCHANGED <<ts, stored, before, ended, halt>>
    BY <1>3, <2>1 DEF Accept, vars, store, life, Pipe!Push
  <2> QED
    BY <1>2, <2>1, <2>2 DEF PipeHolds
<1>4. CASE Deliver
  <2>1. Pipe!Deliver /\ UNCHANGED <<before, ended, halt>>
    BY <1>4 DEF Deliver, life
  <2>2. CASE stored' = stored
    <3>1. ts' = ts
      BY <1>4, <2>2 DEF Deliver, vars, store
    <3> QED
      BY <1>2, <2>1, <2>2, <3>1 DEF PipeHolds
  <2>3. CASE stored' # stored
    <3>1. Insert
      BY <1>4, <2>3 DEF Deliver
    <3>2. Len(ts') = Len(ts) + 1
      BY <3>1 DEF Insert, Typed, TypeOK
    <3>3. Len(stored') = Len(stored) + 1
      BY <2>1, <2>3, PipeStep
    <3>4. Len(stored') = Len(ts')
      BY <3>2, <3>3 DEF PipeHolds
    <3> QED
      BY <1>2, <2>1, <3>4 DEF PipeHolds
  <2> QED
    BY <2>2, <2>3
<1>5. CASE WriterEnd
  <2>1. Pipe!End \/ Pipe!Close
    BY <1>5 DEF WriterEnd
  <2>2. UNCHANGED <<ts, stored, before, ended, halt>>
    BY <1>5, <2>1 DEF WriterEnd, vars, store, life, Pipe!End, Pipe!Close
  <2> QED
    BY <1>2, <2>1, <2>2 DEF PipeHolds
<1>6. ASSUME NEW s \in Stoppers, ShutdownSwap(s) PROVE PipeHolds'
  <2>1. /\ UNCHANGED <<ts, queue, stored, discarded, phase, ended>>
        /\ \E to \in {"already", "send"} : halt' = [halt EXCEPT ![s] = to]
        /\ before' = before \/ before' = Accepted
    BY <1>6 DEF ShutdownSwap, Halt, vars, store, pipe
  <2>2. Accepted' = Accepted
    BY <2>1 DEF Accepted
  <2>3. /\ halt' \in [Stoppers -> {"idle", "already", "send", "join", "done"}]
        /\ \A r \in Stoppers : halt'[r] = "done" => halt[r] = "done"
    BY <2>1 DEF PipeHolds
  <2> QED
    BY <2>1, <2>2, <2>3 DEF PipeHolds
<1>7. ASSUME NEW s \in Stoppers, ShutdownSend(s) PROVE PipeHolds'
  <2>1. /\ Pipe!Push(Sentinel) /\ UNCHANGED <<ts, stored, before, ended>>
        /\ \E to \in {"join"} : halt' = [halt EXCEPT ![s] = to]
    BY <1>7 DEF ShutdownSend, Halt, vars, store, Pipe!Push
  <2>2. /\ halt' \in [Stoppers -> {"idle", "already", "send", "join", "done"}]
        /\ \A r \in Stoppers : halt'[r] = "done" => halt[r] = "done"
    BY <2>1 DEF PipeHolds
  <2> QED
    BY <1>2, <2>1, <2>2 DEF PipeHolds
<1>8. ASSUME NEW s \in Stoppers, ShutdownJoin(s) PROVE PipeHolds'
  <2>1. /\ UNCHANGED <<ts, queue, stored, discarded, phase, before, ended>>
        /\ \E to \in {"done"} : halt' = [halt EXCEPT ![s] = to]
        /\ phase = "closed"
    BY <1>8 DEF ShutdownJoin, Halt, vars, store, pipe
  <2>2. Accepted' = Accepted
    BY <2>1 DEF Accepted
  <2>3. halt' \in [Stoppers -> {"idle", "already", "send", "join", "done"}]
    BY <2>1 DEF PipeHolds
  <2> QED
    BY <2>1, <2>2, <2>3 DEF PipeHolds
<1>9. ASSUME NEW s \in Stoppers, Exit(s) PROVE PipeHolds'
  <2>1. UNCHANGED <<ts, queue, stored, discarded, phase, before, halt>> /\ ended' = s
    BY <1>9 DEF Exit, vars, store, pipe
  <2>2. Accepted' = Accepted
    BY <2>1 DEF Accepted
  <2> QED
    BY <2>1, <2>2 DEF PipeHolds
<1>10. CASE (Tick \/ \E l \in Loops : Loop(l)) /\ UNCHANGED <<pipe, life>>
  <2>1. Tick => ts' = ts
    BY DEF Tick, store
  <2>2. \A l \in Loops : Loop(l) => ts' = ts
    BY DEF Loop, PassNext, PassBegin, PassRow, PassFlush, PassRemove, PassClose,
           PassRename, PassError, store
  <2> QED
    BY <1>1, <1>10, <2>1, <2>2
<1>11. CASE UNCHANGED <<vars, pipe, life, collided>>
  <2>1. UNCHANGED ts
    BY <1>11 DEF vars, store
  <2> QED
    BY <1>1, <1>11, <2>1
<1> QED
  BY <1>3, <1>4, <1>5, <1>6, <1>7, <1>8, <1>9, <1>10, <1>11 DEF StorageNext

(* What the exit costs follows: an accepted sample is in the pipe, which   *)
(* is empty behind the winner, or it is a row, and no row is lost.         *)
LEMMA ExitCostHolds ==
  ASSUME PipeHolds, failed = {} /\ ~collided => AtLeastOnce
  PROVE  ExitCost
<1> DEFINE Msg == (1 .. MaxRows) \cup {Sentinel}
<1> SUFFICES ASSUME ended # None, failed = {}, ~collided,
                    NEW x \in before, x \notin Survives, x \notin discarded
             PROVE  x \in InHand \cup IF halt[ended] = "done" THEN {}
                                      ELSE Pipe!Elements(queue)
  BY DEF ExitCost
<1>1. queue \in Seq(Msg) /\ stored \in Seq(Msg) /\ stored \in Seq(1 .. MaxRows)
  <2>1. /\ queue \in Seq(Msg) /\ stored \in Seq(1 .. MaxRows)
        /\ (1 .. MaxRows) \subseteq Msg
    BY DEF PipeHolds
  <2> HIDE DEF Msg
  <2> QED
    BY <2>1, SeqWiden
<1> HIDE DEF Msg
<1>2. x \in Pipe!Elements(queue) \/ x \in Pipe!Elements(stored)
  BY <1>1, AcceptedParts DEF PipeHolds
<1>3. CASE x \in Pipe!Elements(stored)
  <2>1. PICK r \in DOMAIN stored : x = stored[r]
    BY <1>3 DEF Pipe!Elements
  <2>2. r \in Rows
    BY <1>1, <2>1 DEF PipeHolds, Rows
  <2>3. r \in hot \cup Published \cup Moving
    BY <2>2 DEF AtLeastOnce
  <2>4. r \notin hot \cup Published
    BY <2>1 DEF Survives
  <2> QED
    BY <2>1, <2>3, <2>4 DEF InHand
<1>4. CASE x \in Pipe!Elements(queue)
  <2>1. queue # <<>>
    BY <1>4 DEF Pipe!Elements
  <2>2. halt[ended] # "done"
    BY <2>1 DEF PipeHolds
  <2> QED
    BY <1>4, <2>2
<1> QED
  BY <1>2, <1>3, <1>4

(* An exit behind shutdown() loses no sample that was accepted before it   *)
(* but those whose insert was refused and those a pass had in hand; behind *)
(* a shutdown() that returned at once, also what is still in the pipe: for *)
(* any number of loops and callers (shutdown, writer_loop, compaction_loop,*)
(* run_compaction_once_blocking).                                          *)
THEOREM ExitLoses == StorageSpec => []ExitCost
<1> DEFINE Inv == PipeHolds /\ (failed = {} /\ ~collided => Unmet)
<1>1. StorageInit => Inv
  <2> SUFFICES ASSUME StorageInit PROVE Unmet
    BY PipeHoldsInit
  <2>1. Rows = {}
    BY DEF StorageInit, Init, Rows
  <2> QED
    BY <2>1 DEF StorageInit, Init, Unmet, OneName, OwnFile, InHands, AtLeastOnce
<1>2. Typed /\ Inv /\ [StorageNext]_<<vars, pipe, life, collided>> => Inv'
  <2> SUFFICES ASSUME Typed, Inv, [StorageNext]_<<vars, pipe, life, collided>>
               PROVE  Inv'
    OBVIOUS
  <2>1. PipeHolds'
    BY PipeHoldsStep
  <2>2. ASSUME failed' = {}, ~collided' PROVE Unmet'
    <3>1. failed \subseteq failed'
      BY StorageSteps DEF Next, PassNext, Tick, Insert, Crash, PassBegin, PassRow,
         PassFlush, PassRemove, PassClose, PassRename, PassError, vars
    <3>2. CASE UNCHANGED <<vars, pipe, life, collided>>
      <4>1. Unmet
        BY <2>2, <3>2 DEF vars
      <4> QED
        BY <3>2, <4>1, UnmetKept DEF vars, store, directory, contents, Rows
    <3>3. CASE StorageNext
      <4>1. ~collided /\ ~Meet
        BY <2>2, <3>3 DEF StorageNext
      <4>2. Unmet
        BY <2>2, <3>1, <4>1
      <4> QED
        BY <2>2, <3>3, <4>1, <4>2, UnmetStep
    <3> QED
      BY <3>2, <3>3
  <2> QED
    BY <2>1, <2>2
<1>3. Inv => ExitCost
  BY ExitCostHolds DEF Unmet
<1> QED
  BY <1>1, <1>2, <1>3, StorageTypes, PTL DEF StorageSpec

-----------------------------------------------------------------------------
(* The polling client.                                                     *)

(* A client takes no step in the store: what the loop promises of its      *)
(* files, it promises with serve_latest() reading them (compaction_loop,   *)
(* finalize_export).                                                       *)
THEOREM ReadersHarmless ==
  ASSUME NEW l, Loops = {l}
  PROVE  ReaderSpec => [](WholeFiles /\ AtMostOnce)
<1>1. ReaderInit => Init
  BY DEF ReaderInit
<1>2. [ReaderNext]_<<vars, reader>> => [Next]_vars
  BY DEF ReaderNext, Next, Resolve, Serve, Fail
<1>3. ReaderSpec => Spec
  BY <1>1, <1>2, PTL DEF ReaderSpec, Spec
<1> QED
  BY <1>3, PublishedWhole, RowsOnce, PTL

Unread(s) == ~(body[cold[s]] \subseteq got)

(* The answer in flight brings the client up to date as it is recorded:    *)
(* what it will still not have was published since.                        *)
Answer(l) ==
  /\ asked.name \in Names /\ asked.since \in Nat
  /\ polled <= asked.since /\ asked.since <= now
  /\ \A s \in Names : Unread(s) => s = asked.name \/ asked.since <= rest[l]

(* An export that has not been read is the newest one, and was published   *)
(* after the time from which the client is up to date.                     *)
Polling(l) ==
  /\ polled \in Nat /\ polled <= now /\ now <= polled + Period
  /\ Names # {} => \E s \in Names : \A t \in Names : t <= s
  /\ asked # None => Answer(l)
  /\ \A s \in Names :
       Unread(s) => (\A t \in Names : t <= s) /\ polled <= rest[l]

(* Besides a rename, no step touches the names or what stands behind them, *)
(* and a pass that ends has ended now.                                     *)
LEMMA PublishedStays ==
  ASSUME NEW l, Loops = {l}, Solo(l), Next, ~PassRename(l) \/ Crash
  PROVE  /\ cold' = cold
         /\ \A s \in Names : body'[cold[s]] = body[cold[s]]
         /\ rest'[l] = rest[l] \/ rest'[l] = now
<1> USE CompactionAssumption
<1>1. /\ rest \in [Loops -> 0 .. MaxNow] /\ body \in [Files -> SUBSET Rows]
      /\ cold \in [Seconds -> Files \cup {None}] /\ None \notin Files
  BY DEF Solo, Typed, TypeOK, Files
<1>2. CASE Tick \/ Insert \/ PassBegin(l) \/ PassFlush(l) \/ PassRemove(l)
  BY <1>2 DEF Tick, Insert, PassBegin, PassFlush, PassRemove, directory, contents
<1>3. CASE PassError(l) \/ Crash
  <2>1. UNCHANGED <<cold, body>>
    BY <1>3 DEF PassError, Crash, directory, contents
  <2>2. rest'[l] = now
    BY <1>1, <1>3 DEF PassError, Crash, EndPass
  <2> QED
    BY <2>1, <2>2
<1>4. CASE PassRow(l)
  <2>1. cold' = cold /\ rest' = rest
    BY <1>4 DEF PassRow
  <2>2. CASE body' = body
    BY <2>1, <2>2
  <2>3. CASE out[l] = None /\ OpenExport(l)
    <3>1. PICK f \in Files : /\ body' = [body EXCEPT ![f] = {}]
                             /\ \A s \in Seconds : cold[s] # f
      BY <2>1, <2>3, SoloOpen
    <3> QED
      BY <1>1, <2>1, <3>1 DEF Names
  <2> QED
    BY <1>4, <2>2, <2>3 DEF PassRow
<1>5. CASE PassClose(l)
  <2>1. cold' = cold
    BY <1>5 DEF PassClose, directory
  <2>2. CASE out[l] = None
    BY <1>1, <1>5, <2>1, <2>2 DEF PassClose, EndPass
  <2>3. CASE out[l] # None
    <3>1. rest' = rest /\ body' = [body EXCEPT ![out[l]] = written[l]]
      BY <1>5, <2>3 DEF PassClose
    <3>2. tmpAt[l] \in Seconds /\ tmp[tmpAt[l]] = out[l]
      BY <2>3 DEF Solo, Hands, Typed, TypeOK, Filed, FiledAt
    <3>3. \A s \in Seconds : cold[s] # out[l]
      BY <2>3, <3>2 DEF Solo, OneName
    <3> QED
      BY <1>1, <2>1, <3>1, <3>3 DEF Names
  <2> QED
    BY <2>2, <2>3
<1> QED
  BY <1>2, <1>3, <1>4, <1>5 DEF Next, PassNext

(* The clock stands still but in Tick, which the client holds back.        *)
LEMMA ClockSteps ==
  ASSUME NEW l, Loops = {l}, Next
  PROVE  now' = now \/ Tick
BY DEF Next, PassNext, PassBegin, PassRow, PassFlush, PassRemove, PassClose,
       PassRename, PassError, Crash, Insert

(* No export is there to be missed.                                        *)
LEMMA PollingInit == ASSUME NEW l, Loops = {l}, ReaderInit PROVE Polling(l)
<1>1. Names = {}
  BY DEF ReaderInit, Init, Names
<1> QED
  BY <1>1, ColdReaderAssumption DEF ReaderInit, Init, Polling

(* Every step but a rename leaves an unread export the newest, and a crash *)
(* only takes the request in flight away.                                  *)
LEMMA PollingPass ==
  ASSUME NEW l, Loops = {l}, Solo(l), Polling(l), Next, ~PassRename(l) \/ Crash,
         asked' = asked \/ asked' = None, UNCHANGED <<polled, got>>,
         ~(Tick /\ Due)
  PROVE  Polling(l)'
<1>1. /\ cold' = cold /\ \A s \in Names : body'[cold[s]] = body[cold[s]]
      /\ rest'[l] = rest[l] \/ rest'[l] = now
  BY PublishedStays
<1>2. UNCHANGED <<polled, got>>
  OBVIOUS
<1>3. now' = now \/ (now' = now + 1 /\ now # polled + Period)
  BY ClockSteps DEF Tick, Due
<1>4. Names' = Names /\ \A s \in Names : Unread(s)' = Unread(s)
  BY <1>1, <1>2 DEF Names, Unread
<1>5. /\ now \in Nat /\ polled \in Nat /\ Period \in Nat /\ rest[l] \in Nat
      /\ polled <= now /\ now <= polled + Period
  BY ColdReaderAssumption DEF Polling, Solo, Typed, TypeOK
<1>6. polled <= now' /\ now' <= polled + Period /\ now <= now'
  BY <1>3, <1>5
<1>7. \A s \in Names :
        Unread(s) => (\A t \in Names : t <= s) /\ polled <= rest'[l]
  BY <1>1, <1>5 DEF Polling
<1>8. asked' # None => Answer(l)'
  <2> SUFFICES ASSUME asked' # None PROVE Answer(l)'
    OBVIOUS
  <2>1. asked' = asked /\ Answer(l)
    BY DEF Polling
  <2> DEFINE since == asked.since
  <2>2. since \in Nat /\ polled <= since /\ since <= now
    BY <2>1 DEF Answer
  <2>3. since <= now'
    BY <1>3, <1>5, <2>2
  <2>4. \A s \in Names : Unread(s) => s = asked.name \/ since <= rest'[l]
    BY <1>1, <2>1, <2>2 DEF Answer
  <2> QED
    BY <1>2, <1>4, <2>1, <2>2, <2>3, <2>4 DEF Answer
<1> QED
  BY <1>2, <1>4, <1>5, <1>6, <1>7, <1>8 DEF Polling

(* A rename comes an interval after the last pass ended, so the client has *)
(* been brought up to date since: the export that it overtakes has been    *)
(* read.                                                                   *)
LEMMA PollingRename ==
  ASSUME NEW l, Loops = {l}, Period < Interval, Solo(l), Spaced(l), Polling(l),
         PassRename(l), UNCHANGED reader
  PROVE  Polling(l)'
<1> USE CompactionAssumption
<1>1. /\ cold' = [cold EXCEPT ![Second(now)] = out[l]]
      /\ now' = now /\ body' = body /\ rest'[l] = now /\ pc[l] = "rename"
  BY TypedStep, SoloRename
     DEF PassRename, EndPass, contents, Next, PassNext, Solo, Typed, TypeOK
<1>2. /\ cold \in [Seconds -> Files \cup {None}] /\ out[l] # None
      /\ Second(now) \in Seconds /\ now \in Nat /\ rest[l] \in Nat
      /\ Seconds \subseteq Nat
  BY <1>1, SecondInRange DEF Solo, Typed, TypeOK, Seconds
<1>3. UNCHANGED <<asked, polled, got>>
  BY DEF reader
<1>4. Names' = Names \cup {Second(now)}
  BY <1>1, <1>2 DEF Names
<1>5. \A s \in Names' : s <= Second(now)
  <2>1. ASSUME NEW s \in Names PROVE s <= Second(now)
    <3> DEFINE start == s * TicksPerSecond
               begun == Second(now) * TicksPerSecond
    <3>1. s \in Nat /\ start \in Nat /\ start <= rest[l]
      <4>1. s \in Seconds /\ cold[s] # None
        BY DEF Names
      <4>2. s \in Nat
        BY <1>2, <4>1
      <4>3. start \in Nat
        BY <4>2
      <4> QED
        BY <4>1, <4>2, <4>3 DEF Spaced
    <3>2. rest[l] <= now
      BY DEF Spaced
    <3>3. begun \in Nat /\ now < begun + TicksPerSecond /\ Second(now) \in Nat
      BY <1>2, SecondOf
    <3>4. CASE s > Second(now)
      <4>1. start >= begun + TicksPerSecond
        BY <3>1, <3>3, <3>4
      <4> HIDE DEF start, begun
      <4> QED
        BY <1>2, <3>1, <3>2, <3>3, <4>1
    <3> QED
      BY <3>1, <3>3, <3>4
  <2>2. Second(now) <= Second(now)
    <3>1. Second(now) \in Nat
      BY <1>2
    <3> QED
      BY <3>1
  <2> QED
    BY <1>4, <2>1, <2>2
<1>6. ~(polled <= rest[l])
  BY <1>1, <1>2, ColdReaderAssumption DEF Spaced, Polling
<1>7. \A s \in Names : ~Unread(s)
  BY <1>6 DEF Polling
<1>8. \A s \in Names' : s # Second(now) => s \in Names /\ cold'[s] = cold[s]
  BY <1>1, <1>2, <1>4 DEF Names
<1>9. \A s \in Names' : Unread(s)' => s = Second(now)
  BY <1>1, <1>3, <1>7, <1>8 DEF Unread
<1>10. asked # None => Answer(l)'
  BY <1>1, <1>3, <1>4 DEF Answer, Polling
<1> QED
  BY <1>1, <1>2, <1>3, <1>4, <1>5, <1>9, <1>10 DEF Polling

(* A full listing resolves the newest name, and but for that one every     *)
(* export has been read; another answer leaves the client where it was.    *)
LEMMA PollingResolve ==
  ASSUME NEW l, Loops = {l}, Solo(l), Polling(l), Resolve
  PROVE  Polling(l)'
<1> USE CompactionAssumption
<1>1. /\ UNCHANGED <<now, cold, body, rest, got>>
      /\ now \in Nat /\ Period \in Nat /\ rest[l] \in Nat
  BY ColdReaderAssumption
     DEF Resolve, vars, directory, contents, Solo, Typed, TypeOK
<1>2. Names' = Names /\ Names \subseteq Nat
  BY <1>1 DEF Names, Seconds
<1>3. \A s \in Names : Unread(s)' = Unread(s)
  BY <1>1 DEF Unread
<1>4. polled \in Nat /\ polled <= now /\ now <= polled + Period
  BY DEF Polling
<1>5. CASE Names = {}
  <2>1. asked' = None /\ (polled' = now \/ polled' = polled)
    BY <1>5 DEF Resolve
  <2> QED
    BY <1>1, <1>2, <1>4, <1>5, <2>1, ColdReaderAssumption DEF Polling
<1>6. CASE Names # {} /\ asked' = [name |-> Newest, since |-> now] /\ polled' = polled
  <2>1. Newest \in Names /\ \A t \in Names : t <= Newest
    BY <1>6 DEF Polling, Newest
  <2>2. ASSUME NEW s \in Names, Unread(s) PROVE s = Newest
    <3>1. s <= Newest /\ Newest <= s
      BY <2>1, <2>2 DEF Polling
    <3> QED
      BY <1>2, <2>1, <3>1
  <2>3. asked'.name = Newest /\ asked'.since = now
    BY <1>6
  <2>4. Answer(l)'
    BY <1>1, <1>2, <1>3, <1>4, <1>6, <2>1, <2>2, <2>3 DEF Answer
  <2> QED
    BY <1>1, <1>2, <1>3, <1>4, <1>6, <2>4 DEF Polling
<1>7. ASSUME NEW s \in Names, asked' = [name |-> s, since |-> polled], polled' = polled
      PROVE  Polling(l)'
  <2>1. asked'.name = s /\ asked'.since = polled
    BY <1>7
  <2>2. Answer(l)'
    BY <1>1, <1>2, <1>3, <1>4, <1>7, <2>1 DEF Answer, Polling
  <2> QED
    BY <1>1, <1>2, <1>3, <1>4, <1>7, <2>2 DEF Polling
<1> QED
  BY <1>5, <1>6, <1>7 DEF Resolve

(* The file behind a resolved name is read whole, and a request that fails *)
(* changes nothing else.                                                   *)
LEMMA PollingServe ==
  ASSUME NEW l, Loops = {l}, Solo(l), Polling(l), Serve \/ Fail
  PROVE  Polling(l)'
<1>1. /\ UNCHANGED <<now, cold, body, rest>> /\ asked # None /\ asked' = None
      /\ now \in Nat /\ Period \in Nat
  BY ColdReaderAssumption
     DEF Serve, Fail, vars, directory, contents, Solo, Typed, TypeOK
<1>2. Names' = Names
  BY <1>1 DEF Names
<1>3. CASE Fail
  <2>1. UNCHANGED <<polled, got>>
    BY <1>3 DEF Fail
  <2>2. \A s \in Names : Unread(s)' = Unread(s)
    BY <1>1, <2>1 DEF Unread
  <2> QED
    BY <1>1, <1>2, <2>1, <2>2 DEF Polling
<1>4. CASE Serve
  <2> DEFINE name == asked.name
             since == asked.since
  <2>1. /\ name \in Names /\ since \in Nat /\ since <= now /\ polled <= since
        /\ \A s \in Names : Unread(s) => s = name \/ since <= rest[l]
        /\ polled \in Nat /\ now <= polled + Period
    BY <1>1 DEF Polling, Answer
  <2>2. /\ polled' = since
        /\ got' = IF cold[name] \in whole THEN got \cup body[cold[name]] ELSE got
    BY <1>4 DEF Serve
  <2>3. cold[name] \in whole
    BY <2>1 DEF Names, Solo, WholeFiles
  <2>4. \A s \in Names : Unread(s)' => Unread(s) /\ s # name
    BY <1>1, <2>2, <2>3 DEF Unread
  <2>5. now <= since + Period
    BY <1>1, <2>1
  <2> HIDE DEF name, since
  <2> QED
    BY <1>1, <1>2, <2>1, <2>2, <2>4, <2>5 DEF Polling
<1> QED
  BY <1>3, <1>4

(* latest_cold_file() and serve_latest() offer the newest export only, and *)
(* yet a client that in every period shorter than compaction_interval is   *)
(* answered once, from a full listing and to the end, has the rows of every*)
(* export that was overtaken, whatever else fails and whenever the process *)
(* dies: for the one loop that init() spawns.                              *)
THEOREM PollerReadsAll ==
  ASSUME NEW l, Loops = {l}
  PROVE  ReaderSpec => []PollerMissesNothing
<1> DEFINE Inv == Solo(l) /\ Spaced(l) /\ (Period < Interval => Polling(l))
<1>1. ReaderInit => Inv
  BY SoloInit, SpacedInit, PollingInit DEF ReaderInit
<1>2. Inv /\ [ReaderNext]_<<vars, reader>> => Inv'
  <2> SUFFICES ASSUME Inv, [ReaderNext]_<<vars, reader>> PROVE Inv'
    OBVIOUS
  <2>1. [Next]_vars
    BY DEF ReaderNext, Next, Resolve, Serve, Fail
  <2>2. Solo(l)' /\ Spaced(l)'
    BY <2>1, SoloStep, SpacedStep
  <2>3. ASSUME Period < Interval PROVE Polling(l)'
    <3>1. Polling(l)
      BY <2>3
    <3>2. CASE UNCHANGED <<vars, reader>>
      <4>1. UNCHANGED <<now, rest, cold, body, asked, polled, got>>
        BY <3>2 DEF vars, directory, contents, reader
      <4> QED
        BY <3>1, <4>1 DEF Polling, Answer, Names, Unread
    <3>3. CASE Resolve \/ Serve \/ Fail
      BY <3>1, <3>3, PollingResolve, PollingServe
    <3>4. CASE PassRename(l) /\ UNCHANGED reader
      BY <2>3, <3>1, <3>4, PollingRename
    <3>5. CASE /\ (Tick /\ ~Due) \/ Insert \/ PassNext(l)
               /\ UNCHANGED reader
      <4>1. Next /\ UNCHANGED <<asked, polled, got>>
        BY <3>5 DEF Next, reader
      <4>2. ~(Tick /\ Due)
        <5>1. Insert \/ PassNext(l) => now' = now
          BY DEF Insert, PassNext, PassBegin, PassRow, PassFlush,
                 PassRemove, PassClose, PassRename, PassError
        <5>2. Tick => now' # now
          BY DEF Tick, Solo, Typed, TypeOK
        <5> QED
          BY <3>5, <5>1, <5>2
      <4> QED
        BY <3>1, <3>4, <3>5, <4>1, <4>2, PollingPass
    <3>6. CASE Crash /\ asked' = None /\ UNCHANGED <<polled, got>>
      <4>1. pc' = [k \in Loops |-> "sleep"] /\ rest' = [k \in Loops |-> now]
            /\ now' = now /\ cold' = cold
        BY <3>6 DEF Crash, directory
      <4>2. ~Tick
        BY <4>1 DEF Tick, Solo, Typed, TypeOK
      <4> QED
        BY <3>1, <3>6, <4>2, PollingPass DEF Next
    <3> QED
      BY <3>2, <3>3, <3>4, <3>5, <3>6 DEF ReaderNext
  <2> QED
    BY <2>2, <2>3
<1>3. Inv => PollerMissesNothing
  <2> SUFFICES ASSUME Solo(l), Polling(l), NEW s \in Names, NEW t \in Names, s < t
               PROVE  ~Unread(s)
    BY DEF PollerMissesNothing, Unread
  <2>1. s \in Nat /\ t \in Nat
    BY DEF Names, Seconds
  <2>2. ~(t <= s)
    BY <2>1
  <2> QED
    BY <2>2 DEF Polling
<1> QED
  BY <1>1, <1>2, <1>3, PTL DEF ReaderSpec
=============================================================================
