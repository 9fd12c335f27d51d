---------------------------- MODULE EngineProofs ----------------------------
(***************************************************************************)
(* Proofs about module Engine, for every number of threads, every channel  *)
(* capacity and every batch size: who owns a keyspace, what a flush covers,*)
(* that the loops stop, and the way of a sample through the pipe.          *)
(***************************************************************************)
EXTENDS EngineProperties, SequenceTheorems, FiniteSetTheorems, TLAPS

-----------------------------------------------------------------------------
(* Type correctness.                                                       *)

(* The initial state is typed.                                             *)
LEMMA TypeInit == Init => TypeOK
<1> SUFFICES ASSUME Init PROVE TypeOK
  OBVIOUS
<1>1. stop \in BOOLEAN /\ joinSlot \in BOOLEAN /\ rxOpen \in BOOLEAN
      /\ graceful \in BOOLEAN
  BY DEF Init
<1>2. /\ chan \in Seq(Calls \cup {Sentinel}) /\ Len(chan) <= Capacity
      /\ batch \in Seq(Calls) /\ Len(batch) <= BatchRows
      /\ stored \in Seq(Calls) /\ synced \in Nat /\ synced <= Len(stored)
      /\ tries \in Nat
      /\ droppedTotal \in Nat /\ promDropped \in Nat
  BY EngineAssumption DEF Init
<1>3. /\ lost \subseteq Calls /\ refused \subseteq Calls
      /\ opened \subseteq Initers /\ updated \subseteq Calls
      /\ before \subseteq Calls
  BY DEF Init
<1> QED
  BY <1>1, <1>2, <1>3 DEF Init, TypeOK

(* What try_send does to a typed sequence.                                 *)
LEMMA SendType ==
  ASSUME NEW S, NEW x \in S, NEW seq \in Seq(S)
  PROVE  /\ Append(seq, x) \in Seq(S)
         /\ Len(Append(seq, x)) = Len(seq) + 1
         /\ Append(seq, x) # <<>>
<1>1. Append(seq, x) \in Seq(S) /\ Len(Append(seq, x)) = Len(seq) + 1
  OBVIOUS
<1>2. Len(Append(seq, x)) # Len(<<>>)
  BY <1>1
<1> QED
  BY <1>1, <1>2

(* What recv does.                                                         *)
LEMMA RecvType ==
  ASSUME NEW S, NEW seq \in Seq(S), seq # <<>>
  PROVE  /\ Head(seq) \in S /\ Tail(seq) \in Seq(S)
         /\ Len(seq) \in Nat \ {0} /\ Len(Tail(seq)) = Len(seq) - 1
OBVIOUS

(* A one-element burst.                                                    *)
LEMMA OneType ==
  ASSUME NEW S, NEW x \in S
  PROVE  <<x>> \in Seq(S) /\ Len(<<x>>) = 1 /\ <<x>> # <<>>
OBVIOUS

(* Every step keeps the types, action by action.                           *)
LEMMA TypeStep == TypeOK /\ [Next]_vars => TypeOK'
<1> SUFFICES ASSUME TypeOK, [Next]_vars PROVE TypeOK'
  OBVIOUS
<1> USE EngineAssumption
    DEF TypeOK, Tasks, statics, pipe, consumer, producers, history,
        outsideRecord, outsideWriter, outsideInit, outsideTasks, outsideHalt
<1>1. ASSUME NEW c \in Calls, RecordStart(c) PROVE TypeOK'
  BY <1>1 DEF RecordStart
<1>2. ASSUME NEW c \in Calls, RecordUpdate(c) PROVE TypeOK'
  <2>1. (updated \subseteq Calls)'
    BY <1>2 DEF RecordUpdate, Full
  <2>2. (call \in [Calls -> {"idle", "noop", "update", "panicked", "done", "send",
                           "sent", "count", "mirror", "dropped"}])'
    BY <1>2 DEF RecordUpdate, Full
  <2>3. UNCHANGED <<chan, droppedTotal, promDropped, outsideRecord>>
    BY <1>2 DEF RecordUpdate
  <2> QED
    BY <2>1, <2>2, <2>3
<1>3. ASSUME NEW c \in Calls, RecordSend(c) PROVE TypeOK'
  <2>1. (chan \in Seq(Calls \cup {Sentinel}) /\ Len(chan) <= Capacity)'
    <3>1. CASE chan' = Append(chan, c) /\ Len(chan) < Capacity
      BY <3>1, SendType
    <3>2. CASE UNCHANGED chan
      BY <3>2
    <3> QED
      BY <1>3, <3>1, <3>2 DEF RecordSend, HasRoom
  <2>2. (call \in [Calls -> {"idle", "noop", "update", "panicked", "done", "send",
                           "sent", "count", "mirror", "dropped"}])'
    BY <1>3 DEF RecordSend, HasRoom
  <2>3. UNCHANGED <<updated, droppedTotal, promDropped, outsideRecord>>
    BY <1>3 DEF RecordSend
  <2> QED
    BY <2>1, <2>2, <2>3
<1>4. ASSUME NEW c \in Calls, RecordDropped(c) PROVE TypeOK'
  BY <1>4 DEF RecordDropped
<1>5. ASSUME NEW c \in Calls, RecordMirror(c) PROVE TypeOK'
  BY <1>5 DEF RecordMirror
<1>6. CASE WriterRecv
  <2>1. (chan \in Seq(Calls \cup {Sentinel}) /\ Len(chan) <= Capacity)'
    BY <1>6 DEF WriterRecv
  <2>2. (writer \in {"none", "failed", "recv", "drain", "flush", "flushLast",
                    "persist", "return", "exited"})'
    BY <1>6 DEF WriterRecv
  <2>3. (batch \in Seq(Calls) /\ Len(batch) <= BatchRows)'
    <3>1. CASE Head(chan) = Sentinel
      BY <1>6, <3>1 DEF WriterRecv
    <3>2. CASE Head(chan) # Sentinel
      <4>1. Head(chan) \in Calls
        BY <1>6, <3>2, RecvType DEF WriterRecv
      <4>2. QED
        <5>1. batch' = <<Head(chan)>>
          BY <1>6, <3>2 DEF WriterRecv
        <5>2. batch' \in Seq(Calls) /\ Len(batch') = 1
          BY <4>1, <5>1, OneType
        <5> QED
          BY <5>2
    <3> QED
      BY <3>1, <3>2
  <2>4. (writer = "drain" => batch # <<>>)'
    BY <1>6, OneType DEF WriterRecv
  <2>5. UNCHANGED <<rxOpen, lost, stored, refused, synced,
                    outsideWriter>>
    BY <1>6 DEF WriterRecv
  <2> QED
    BY <2>1, <2>2, <2>3, <2>4, <2>5
<1>7. CASE WriterDrain
  <2>1. (chan \in Seq(Calls \cup {Sentinel}) /\ Len(chan) <= Capacity)'
    BY <1>7 DEF WriterDrain
  <2>2. (writer \in {"none", "failed", "recv", "drain", "flush", "flushLast",
                    "persist", "return", "exited"})'
    BY <1>7 DEF WriterDrain
  <2>3. (batch \in Seq(Calls) /\ Len(batch) <= BatchRows)'
    <3>1. CASE Head(chan) = Sentinel
      BY <1>7, <3>1 DEF WriterDrain
    <3>2. CASE Head(chan) # Sentinel
      <4>1. Head(chan) \in Calls
        BY <1>7, <3>2, RecvType DEF WriterDrain
      <4>2. QED
        <5>1. batch' = Append(batch, Head(chan)) /\ Len(batch) < BatchRows
          BY <1>7, <3>2 DEF WriterDrain
        <5>2. batch' \in Seq(Calls) /\ Len(batch') = Len(batch) + 1
          BY <4>1, <5>1, SendType
        <5> QED
          BY <5>1, <5>2
    <3> QED
      BY <3>1, <3>2
  <2>4. (writer = "drain" => batch # <<>>)'
    BY <1>7 DEF WriterDrain
  <2>5. UNCHANGED <<rxOpen, lost, stored, refused, synced,
                    outsideWriter>>
    BY <1>7 DEF WriterDrain
  <2> QED
    BY <2>1, <2>2, <2>3, <2>4, <2>5
<1>8. CASE WriterDrained
  BY <1>8 DEF WriterDrained
<1>9. CASE WriterInsert
  <2>1. (batch \in Seq(Calls) /\ Len(batch) <= BatchRows)'
    BY <1>9 DEF WriterInsert, AfterFlush
  <2>2. (stored \in Seq(Calls) /\ synced \in Nat /\ synced <= Len(stored))'
    <3>1. CASE stored' = Append(stored, Head(batch))
      BY <1>9, <3>1, SendType, RecvType DEF WriterInsert
    <3>2. CASE UNCHANGED stored
      BY <1>9, <3>2 DEF WriterInsert
    <3> QED
      BY <1>9, <3>1, <3>2 DEF WriterInsert
  <2>3. (refused \subseteq Calls)'
    BY <1>9 DEF WriterInsert, AfterFlush
  <2>4. (writer \in {"none", "failed", "recv", "drain", "flush", "flushLast",
                    "persist", "return", "exited"})'
    BY <1>9 DEF WriterInsert, AfterFlush
  <2>5. (writer = "drain" => batch # <<>>)'
    BY <1>9 DEF WriterInsert, AfterFlush
  <2>6. UNCHANGED <<pipe, synced, outsideWriter>>
    BY <1>9 DEF WriterInsert
  <2> QED
    BY <2>1, <2>2, <2>3, <2>4, <2>5, <2>6
<1>10. CASE WriterPersist
  BY <1>10 DEF WriterPersist
<1>11. CASE WriterExit
  <2>1. (lost \subseteq Calls)'
    BY <1>11 DEF WriterExit, Elements
  <2>2. (chan \in Seq(Calls \cup {Sentinel}) /\ Len(chan) <= Capacity)'
    BY <1>11 DEF WriterExit
  <2>3. rxOpen' \in BOOLEAN /\ writer' = "exited"
    BY <1>11 DEF WriterExit
  <2>4. UNCHANGED <<batch, stored, refused, synced, outsideWriter>>
    BY <1>11 DEF WriterExit
  <2> QED
    BY <2>1, <2>2, <2>3, <2>4
<1>12. ASSUME NEW i \in Initers, InitStart(i) PROVE TypeOK'
  BY <1>12 DEF InitStart
<1>13. ASSUME NEW i \in Initers, InitOpen(i) PROVE TypeOK'
  <2>1. (opened \subseteq Initers)'
    BY <1>13 DEF InitOpen
  <2>2. (init \in [Initers -> {"idle", "open", "set", "spawn", "store", "compact",
                             "slot", "ok", "err"}])'
    BY <1>13 DEF InitOpen
  <2>3. UNCHANGED <<statics, pipe, task, outsideInit>>
    BY <1>13 DEF InitOpen
  <2> QED
    BY <2>1, <2>2, <2>3
<1>14. ASSUME NEW i \in Initers, InitSet(i) PROVE TypeOK'
  <2>1. /\ (global \in Initers \cup {None})'
        /\ (opened \subseteq Initers)'
    BY <1>14 DEF InitSet
  <2>2. \E place \in {"spawn", "ok", "err"} : init' = [init EXCEPT ![i] = place]
    BY <1>14 DEF InitSet
  <2>3. UNCHANGED <<joinSlot, slot, pipe, task, outsideInit>>
    BY <1>14 DEF InitSet
  <2> QED
    BY <2>1, <2>2, <2>3
<1>15. ASSUME NEW i \in Initers, InitSpawn(i) PROVE TypeOK'
  <2>1. (writer \in {"none", "failed", "recv", "drain", "flush", "flushLast",
                    "persist", "return", "exited"})'
    BY <1>15 DEF InitSpawn
  <2>2. (init \in [Initers -> {"idle", "open", "set", "spawn", "store", "compact",
                             "slot", "ok", "err"}])'
    BY <1>15 DEF InitSpawn
  <2>3. rxOpen' \in BOOLEAN /\ writer' # "drain"
    BY <1>15 DEF InitSpawn
  <2>4. (lost \subseteq Calls)'
    BY <1>15 DEF InitSpawn, Elements
  <2>5. (chan \in Seq(Calls \cup {Sentinel}) /\ Len(chan) <= Capacity)'
    <3>1. CASE UNCHANGED chan
      BY <3>1
    <3>2. CASE chan' = <<>>
      BY <3>2
    <3> QED
      BY <1>15, <3>1, <3>2 DEF InitSpawn, pipe
  <2>6. UNCHANGED <<statics, opened, task, stop, producers, batch,
                    stored, refused, synced, halt, tries, history,
                    spawner>>
    BY <1>15 DEF InitSpawn
  <2> QED
    BY <2>1, <2>2, <2>3, <2>4, <2>5, <2>6
<1>16. ASSUME NEW i \in Initers, InitStore(i) PROVE TypeOK'
  BY <1>16 DEF InitStore
<1>17. ASSUME NEW i \in Initers, InitCompact(i) PROVE TypeOK'
  <2>1. (task \in [Tasks -> {"none", "sleep", "pass", "orphan", "stopped"}])'
    BY <1>17 DEF InitCompact
  <2>2. (init \in [Initers -> {"idle", "open", "set", "spawn", "store", "compact",
                             "slot", "ok", "err"}])'
    BY <1>17 DEF InitCompact
  <2>3. UNCHANGED <<statics, pipe, opened, outsideInit>>
    BY <1>17 DEF InitCompact
  <2> QED
    BY <2>1, <2>2, <2>3
<1>18. ASSUME NEW i \in Initers, InitSlot(i) PROVE TypeOK'
  BY <1>18 DEF InitSlot
<1>19. ASSUME NEW p \in Spawners, SpawnStart(p) PROVE TypeOK'
  <2>1. (task \in [Tasks -> {"none", "sleep", "pass", "orphan", "stopped"}])'
    BY <1>19 DEF SpawnStart, Full
  <2>2. (spawner \in [Spawners -> {"idle", "slot", "done", "refused"}])'
    BY <1>19 DEF SpawnStart, Full
  <2>3. UNCHANGED <<slot, outsideTasks>>
    BY <1>19 DEF SpawnStart
  <2> QED
    BY <2>1, <2>2, <2>3
<1>20. ASSUME NEW p \in Spawners, SpawnSlot(p) PROVE TypeOK'
  BY <1>20 DEF SpawnSlot
<1>21. ASSUME NEW t \in Tasks, PassStart(t) PROVE TypeOK'
  BY <1>21 DEF PassStart
<1>22. ASSUME NEW t \in Tasks, PassEnd(t) PROVE TypeOK'
  BY <1>22 DEF PassEnd
<1>23. ASSUME NEW s \in Stoppers, ShutdownBegin(s) PROVE TypeOK'
  <2>1. stop' \in BOOLEAN
    BY <1>23 DEF ShutdownBegin, Full, Sent, Published
  <2>2. (halt \in [Stoppers -> {"idle", "notInit", "already", "send", "take",
                              "join", "abort", "persist", "done", "unsynced"}])'
    BY <1>23 DEF ShutdownBegin, Full, Sent, Published
  <2>3. (before \subseteq Calls /\ graceful \in BOOLEAN)'
    BY <1>23 DEF ShutdownBegin, Full, Sent, Published
  <2>4. UNCHANGED <<joinSlot, slot, synced, task, tries, outsideHalt>>
    BY <1>23 DEF ShutdownBegin
  <2> QED
    BY <2>1, <2>2, <2>3, <2>4
<1>24. ASSUME NEW s \in Stoppers, ShutdownSend(s) PROVE TypeOK'
  <2>1. (chan \in Seq(Calls \cup {Sentinel}) /\ Len(chan) <= Capacity)'
    <3>1. CASE chan' = Append(chan, Sentinel) /\ Len(chan) < Capacity
      BY <3>1, SendType
    <3>2. CASE UNCHANGED chan
      BY <3>2
    <3> QED
      BY <1>24, <3>1, <3>2 DEF ShutdownSend, HasRoom
  <2>2. (halt \in [Stoppers -> {"idle", "notInit", "already", "send", "take",
                              "join", "abort", "persist", "done", "unsynced"}])'
    BY <1>24 DEF ShutdownSend, HasRoom
  <2>3. UNCHANGED <<statics, rxOpen, lost, consumer, opened, producers,
                    init, spawner, task, tries, history>>
    BY <1>24 DEF ShutdownSend
  <2> QED
    BY <2>1, <2>2, <2>3
<1>25. ASSUME NEW s \in Stoppers, ShutdownRetry(s) PROVE TypeOK'
  <2>1. (tries \in Nat)'
    BY <1>25 DEF ShutdownRetry
  <2>2. (halt \in [Stoppers -> {"idle", "notInit", "already", "send", "take",
                              "join", "abort", "persist", "done", "unsynced"}])'
    BY <1>25 DEF ShutdownRetry
  <2>3. UNCHANGED <<statics, synced, task, history, outsideHalt>>
    BY <1>25 DEF ShutdownRetry
  <2> QED
    BY <2>1, <2>2, <2>3
<1>26. ASSUME NEW s \in Stoppers, ShutdownTake(s) PROVE TypeOK'
  <2>1. \E place \in {"join", "abort"} : halt' = [halt EXCEPT ![s] = place]
    BY <1>26 DEF ShutdownTake
  <2>2. joinSlot' \in BOOLEAN
    BY <1>26 DEF ShutdownTake
  <2>3. UNCHANGED <<stop, slot, synced, task, tries, history, outsideHalt>>
    BY <1>26 DEF ShutdownTake
  <2> QED
    BY <2>1, <2>2, <2>3
<1>27. ASSUME NEW s \in Stoppers, ShutdownJoin(s) PROVE TypeOK'
  BY <1>27 DEF ShutdownJoin
<1>28. ASSUME NEW s \in Stoppers, ShutdownAbort(s) PROVE TypeOK'
  BY <1>28 DEF ShutdownAbort, Full
<1>29. ASSUME NEW s \in Stoppers, ShutdownPersist(s) PROVE TypeOK'
  <2>1. (stored \in Seq(Calls) /\ synced \in Nat /\ synced <= Len(stored))'
    BY <1>29 DEF ShutdownPersist
  <2>2. (halt \in [Stoppers -> {"idle", "notInit", "already", "send", "take",
                              "join", "abort", "persist", "done", "unsynced"}])'
    BY <1>29 DEF ShutdownPersist
  <2>3. UNCHANGED <<statics, task, tries, history, outsideHalt>>
    BY <1>29 DEF ShutdownPersist
  <2> QED
    BY <2>1, <2>2, <2>3
<1>30. CASE UNCHANGED vars
  BY <1>30 DEF vars, compactors
<1> QED
  BY <1>1, <1>2, <1>3, <1>4, <1>5, <1>6, <1>7, <1>8, <1>9, <1>10, <1>11,
     <1>12, <1>13, <1>14, <1>15, <1>16, <1>17, <1>18, <1>19, <1>20, <1>21,
     <1>22, <1>23, <1>24, <1>25, <1>26, <1>27, <1>28, <1>29, <1>30
  DEF Next, RecordNext, WriterNext, InitNext, ShutdownNext

(* Every behaviour is type-correct: in particular the channel never holds  *)
(* more than channel_capacity messages and the batch never more than       *)
(* batch_rows samples, whatever the number of threads.                     *)
THEOREM TypeCorrect == Spec => []TypeOK
BY TypeInit, TypeStep, PTL DEF Spec

-----------------------------------------------------------------------------
(* What a step of each kind of thread leaves alone.                        *)
ownedByInit == <<global, joinSlot, init>>
ownedByWriter == <<writer, batch, stored, refused>>
USE DEF ownedByInit, ownedByWriter, history

(* No thread touches the state of another beyond the statics and the       *)
(* channel they share.                                                     *)
LEMMA Frame ==
  /\ \A c \in Calls : RecordStart(c) \/ RecordNext(c) =>
       UNCHANGED <<ownedByInit, ownedByWriter, stop, lost, halt, history>>
  /\ \A c \in Calls : RecordStart(c) \/ RecordUpdate(c) \/ RecordDropped(c)
                      \/ RecordMirror(c) => UNCHANGED chan
  /\ WriterNext => UNCHANGED <<ownedByInit, stop, call, halt, history>>
  /\ \A i \in Initers : InitStart(i) \/ InitNext(i) =>
       UNCHANGED <<stop, batch, stored, refused, call, halt, history>>
  /\ \A i \in Initers : (InitNext(i) /\ ~InitSet(i)) \/ InitStart(i) =>
       UNCHANGED global
  /\ \A i \in Initers : (InitNext(i) /\ ~InitSpawn(i)) \/ InitStart(i) =>
       UNCHANGED <<writer, chan, lost>>
  /\ \A i \in Initers : (InitNext(i) /\ ~InitStore(i)) \/ InitStart(i) =>
       UNCHANGED joinSlot
  /\ \A p \in Spawners : SpawnStart(p) \/ SpawnSlot(p) =>
       UNCHANGED <<ownedByInit, ownedByWriter, stop, chan, lost, call, halt, history>>
  /\ \A t \in Tasks : PassStart(t) \/ PassEnd(t) =>
       UNCHANGED <<ownedByInit, ownedByWriter, stop, chan, lost, call, halt, history>>
  /\ \A s \in Stoppers : ShutdownBegin(s) \/ ShutdownNext(s) =>
       UNCHANGED <<global, init, ownedByWriter, lost, call>>
  /\ \A s \in Stoppers : ShutdownNext(s) => UNCHANGED <<stop, history>>
  /\ \A s \in Stoppers : (ShutdownNext(s) /\ ~ShutdownSend(s)) \/ ShutdownBegin(s) =>
       UNCHANGED chan
  /\ UNCHANGED vars =>
       UNCHANGED <<ownedByInit, ownedByWriter, stop, chan, lost, call, halt, history>>
BY DEF vars, statics, pipe, consumer, producers, history, outsideRecord,
   outsideWriter, outsideInit, outsideTasks, outsideHalt, ownedByInit,
   ownedByWriter, RecordStart, RecordNext, RecordUpdate, RecordSend,
   RecordDropped, RecordMirror, WriterNext, WriterRecv, WriterDrain,
   WriterDrained, WriterInsert, WriterPersist, WriterExit, InitStart, InitNext,
   InitOpen, InitSet, InitSpawn, InitStore, InitCompact, InitSlot, SpawnStart,
   SpawnSlot, PassStart, PassEnd, ShutdownBegin, ShutdownNext, ShutdownSend,
   ShutdownRetry, ShutdownTake, ShutdownJoin, ShutdownAbort, ShutdownPersist

(* Only one shutdown() wins the swap.                                      *)
LEMMA OneShutdownStep == TypeOK /\ Inductive /\ [Next]_vars => OneShutdown'
<1> SUFFICES ASSUME TypeOK, Inductive, [Next]_vars PROVE OneShutdown'
  OBVIOUS
<1> USE EngineAssumption
    DEF TypeOK, Inductive, OneShutdown, Winner, statics, outsideHalt,
       outsideInit, history, Full, producers, consumer, pipe
<1>1. CASE UNCHANGED <<global, stop, halt>>
  BY <1>1
<1>2. ASSUME NEW i \in Initers, InitSet(i) PROVE OneShutdown'
  BY <1>2 DEF InitSet
<1>3. ASSUME NEW s \in Stoppers, ShutdownBegin(s) PROVE OneShutdown'
  <2>1. CASE /\ UNCHANGED stop
             /\ halt' = [halt EXCEPT ![s] = "notInit"]
                 \/ halt' = [halt EXCEPT ![s] = "already"]
    <3>1. \A u \in Stoppers : Winner(u)' => Winner(u)
      BY <2>1
    <3>2. UNCHANGED global
      BY <1>3, Frame
    <3>3. \A u \in Stoppers : Winner(u)' => stop'
      BY <2>1, <3>1
    <3>4. \A u, v \in Stoppers : Winner(u)' /\ Winner(v)' => u = v
      BY <3>1
    <3>5. stop' => global' # None
      BY <2>1, <3>2
    <3> QED
      BY <3>3, <3>4, <3>5
  <2>2. CASE global # None /\ stop = FALSE /\ stop' = TRUE
             /\ halt' \in {[halt EXCEPT ![s] = "send"], [halt EXCEPT ![s] = "take"]}
    <3>1. \A u \in Stoppers : ~Winner(u)
      BY <2>2
    <3>2. \A u \in Stoppers : Winner(u)' => u = s
      BY <2>2, <3>1
    <3>3. UNCHANGED global
      BY <1>3, Frame
    <3> QED
      BY <2>2, <3>2, <3>3
  <2> QED
    BY <1>3, <2>1, <2>2 DEF ShutdownBegin
<1>4. ASSUME NEW s \in Stoppers, ShutdownSend(s) PROVE OneShutdown'
  BY <1>4 DEF ShutdownSend
<1>5. ASSUME NEW s \in Stoppers, ShutdownRetry(s) PROVE OneShutdown'
  BY <1>5 DEF ShutdownRetry
<1>6. ASSUME NEW s \in Stoppers, ShutdownTake(s) PROVE OneShutdown'
  BY <1>6 DEF ShutdownTake
<1>7. ASSUME NEW s \in Stoppers, ShutdownJoin(s) PROVE OneShutdown'
  BY <1>7 DEF ShutdownJoin
<1>8. ASSUME NEW s \in Stoppers, ShutdownAbort(s) PROVE OneShutdown'
  BY <1>8 DEF ShutdownAbort
<1>9. ASSUME NEW s \in Stoppers, ShutdownPersist(s) PROVE OneShutdown'
  BY SMTT(30), <1>9 DEF ShutdownPersist
<1> QED
  BY <1>1, <1>2, <1>3, <1>4, <1>5, <1>6, <1>7, <1>8, <1>9, Frame DEF Next,
     RecordNext, WriterNext, InitNext, ShutdownNext

(* Only the init() that installed the handle starts a writer.              *)
LEMMA OneInitStep == TypeOK /\ Inductive /\ [Next]_vars => OneInit'
<1> SUFFICES ASSUME TypeOK, Inductive, [Next]_vars PROVE OneInit'
  OBVIOUS
<1> USE EngineAssumption
    DEF TypeOK, Inductive, OneInit, Published, statics, outsideInit,
       outsideHalt, outsideWriter, Full, producers, consumer, pipe,
       history
<1>1. CASE UNCHANGED <<global, writer, init>>
  BY <1>1
<1>2. CASE WriterRecv
  BY <1>2 DEF WriterRecv
<1>3. CASE WriterDrain
  BY <1>3 DEF WriterDrain
<1>4. CASE WriterDrained
  BY <1>4 DEF WriterDrained
<1>5. CASE WriterInsert
  BY <1>5 DEF WriterInsert, AfterFlush
<1>6. CASE WriterPersist
  BY <1>6 DEF WriterPersist
<1>7. CASE WriterExit
  BY <1>7 DEF WriterExit
<1>8. ASSUME NEW i \in Initers, InitStart(i) PROVE OneInit'
  BY <1>8 DEF InitStart
<1>9. ASSUME NEW i \in Initers, InitOpen(i) PROVE OneInit'
  BY <1>9 DEF InitOpen
<1>10. ASSUME NEW i \in Initers, InitSet(i) PROVE OneInit'
  BY <1>10 DEF InitSet
<1>11. ASSUME NEW i \in Initers, InitSpawn(i) PROVE OneInit'
  BY <1>11 DEF InitSpawn
<1>12. ASSUME NEW i \in Initers, InitStore(i) PROVE OneInit'
  BY <1>12 DEF InitStore
<1>13. ASSUME NEW i \in Initers, InitCompact(i) PROVE OneInit'
  BY <1>13 DEF InitCompact
<1>14. ASSUME NEW i \in Initers, InitSlot(i) PROVE OneInit'
  BY <1>14 DEF InitSlot
<1> QED
  BY <1>1, <1>2, <1>3, <1>4, <1>5, <1>6, <1>7, <1>8, <1>9, <1>10, <1>11,
     <1>12, <1>13, <1>14, Frame DEF Next, RecordNext, WriterNext,
     InitNext, ShutdownNext

(* A graceful shutdown() joins the writer before it returns.             *)
LEMMA HandleStoredStep == TypeOK /\ Inductive /\ [Next]_vars => HandleStored'
<1> SUFFICES ASSUME TypeOK, Inductive, [Next]_vars PROVE HandleStored'
  OBVIOUS
<1> USE EngineAssumption
    DEF TypeOK, Inductive, OneShutdown, OneInit, HandleStored, Winner,
       Joined, Published, Full, statics, outsideHalt, outsideInit,
       outsideWriter, history, producers, consumer, pipe
<1>1. CASE UNCHANGED <<global, stop, writer, init, joinSlot, halt, graceful>>
  BY <1>1
<1>2. CASE WriterRecv
  BY <1>2 DEF WriterRecv
<1>3. CASE WriterDrain
  BY <1>3 DEF WriterDrain
<1>4. CASE WriterDrained
  BY <1>4 DEF WriterDrained
<1>5. CASE WriterInsert
  BY <1>5 DEF WriterInsert
<1>6. CASE WriterPersist
  BY <1>6 DEF WriterPersist
<1>7. CASE WriterExit
  BY <1>7 DEF WriterExit
<1>8. ASSUME NEW i \in Initers, InitStart(i) PROVE HandleStored'
  BY <1>8 DEF InitStart
<1>9. ASSUME NEW i \in Initers, InitOpen(i) PROVE HandleStored'
  BY <1>9 DEF InitOpen
<1>10. ASSUME NEW i \in Initers, InitSet(i) PROVE HandleStored'
  BY <1>10 DEF InitSet
<1>11. ASSUME NEW i \in Initers, InitSpawn(i) PROVE HandleStored'
  BY <1>11 DEF InitSpawn
<1>12. ASSUME NEW i \in Initers, InitStore(i) PROVE HandleStored'
  BY <1>12 DEF InitStore
<1>13. ASSUME NEW i \in Initers, InitCompact(i) PROVE HandleStored'
  BY <1>13 DEF InitCompact
<1>14. ASSUME NEW i \in Initers, InitSlot(i) PROVE HandleStored'
  BY <1>14 DEF InitSlot
<1>15. ASSUME NEW s \in Stoppers, ShutdownBegin(s) PROVE HandleStored'
  <2>1. \A u \in Stoppers : Joined(u)' <=> Joined(u)
    <3>1. /\ halt[s] = "idle"
          /\ \E pc \in {"notInit", "already", "send", "take"} :
               halt' = [halt EXCEPT ![s] = pc]
      BY <1>15 DEF ShutdownBegin
    <3> QED
      BY <3>1
  <2>2. \A u \in Stoppers : (halt[u] = "join")' <=> halt[u] = "join"
    <3>1. /\ halt[s] = "idle"
          /\ \E pc \in {"notInit", "already", "send", "take"} :
               halt' = [halt EXCEPT ![s] = pc]
      BY <1>15 DEF ShutdownBegin
    <3> QED
      BY <3>1
  <2>3. UNCHANGED <<global, writer, init, joinSlot>>
    BY <1>15, Frame DEF ShutdownBegin
  <2>4. CASE UNCHANGED <<stop, graceful>>
    <3> HIDE DEF Joined
    <3> QED
      BY <2>1, <2>2, <2>3, <2>4
  <2>5. CASE graceful' = (\A i \in Initers : init[i] \notin Published) /\ stop = FALSE
    <3>1. \A u \in Stoppers : ~Joined(u)
      BY <2>5
    <3> HIDE DEF Joined
    <3> QED
      BY <2>1, <2>2, <2>3, <2>5, <3>1
  <2> QED
    BY <1>15, <2>4, <2>5 DEF ShutdownBegin
<1>16. ASSUME NEW s \in Stoppers, ShutdownSend(s) PROVE HandleStored'
  BY <1>16 DEF ShutdownSend
<1>17. ASSUME NEW s \in Stoppers, ShutdownRetry(s) PROVE HandleStored'
  BY <1>17 DEF ShutdownRetry
<1>18. ASSUME NEW s \in Stoppers, ShutdownTake(s) PROVE HandleStored'
  BY <1>18 DEF ShutdownTake
<1>19. ASSUME NEW s \in Stoppers, ShutdownJoin(s) PROVE HandleStored'
  BY <1>19 DEF ShutdownJoin
<1>20. ASSUME NEW s \in Stoppers, ShutdownAbort(s) PROVE HandleStored'
  BY <1>20 DEF ShutdownAbort
<1>21. ASSUME NEW s \in Stoppers, ShutdownPersist(s) PROVE HandleStored'
  BY <1>21 DEF ShutdownPersist
<1> QED
  BY <1>1, <1>2, <1>3, <1>4, <1>5, <1>6, <1>7, <1>8, <1>9, <1>10, <1>11,
     <1>12, <1>13, <1>14, <1>15, <1>16, <1>17, <1>18, <1>19, <1>20, <1>21,
     Frame DEF Next, RecordNext, WriterNext, InitNext, ShutdownNext


(* The elements of a sequence after a send.                                *)
LEMMA ElementsSend ==
  ASSUME NEW S, NEW x \in S, NEW seq \in Seq(S)
  PROVE  Elements(Append(seq, x)) = Elements(seq) \cup {x}
<1>1. /\ DOMAIN Append(seq, x) = 1 .. Len(seq) + 1
      /\ \A k \in 1 .. Len(seq) : Append(seq, x)[k] = seq[k]
      /\ Append(seq, x)[Len(seq) + 1] = x
  OBVIOUS
<1> QED
  BY <1>1 DEF Elements

(* Before a receive.                                                       *)
LEMMA ElementsRecv ==
  ASSUME NEW S, NEW seq \in Seq(S), seq # <<>>
  PROVE  Elements(seq) = {Head(seq)} \cup Elements(Tail(seq))
<1>1. /\ DOMAIN Tail(seq) = 1 .. Len(seq) - 1
      /\ \A k \in DOMAIN Tail(seq) : Tail(seq)[k] = seq[k + 1]
      /\ Head(seq) = seq[1] /\ DOMAIN seq = 1 .. Len(seq) /\ Len(seq) \in Nat \ {0}
  OBVIOUS
<1>2. \A k \in DOMAIN seq : k = 1 \/ k - 1 \in DOMAIN Tail(seq)
  BY <1>1
<1>3. \A k \in DOMAIN Tail(seq) : k + 1 \in DOMAIN seq
  BY <1>1
<1>4. \A k \in DOMAIN seq : k # 1 => seq[k] = Tail(seq)[k - 1]
  BY <1>1, <1>2
<1> QED
  BY <1>1, <1>2, <1>3, <1>4 DEF Elements

(* The one-element and the empty sequence.                                 *)
LEMMA ElementsOne ==
  ASSUME NEW x
  PROVE  Elements(<<x>>) = {x} /\ Elements(<<>>) = {}
BY DEF Elements

(* A sample stays sent, and only a successful try_send makes it so.        *)
LEMMA SentGrows ==
  ASSUME TypeOK, [Next]_vars
  PROVE  /\ Sent \subseteq Sent'
         /\ Sent' = Sent \/ \E c \in Calls : RecordSend(c)
<1> USE DEF TypeOK, Sent
<1>1. CASE UNCHANGED call
  BY <1>1
<1>2. ASSUME NEW c \in Calls, RecordStart(c) \/ RecordUpdate(c)
                              \/ RecordDropped(c) \/ RecordMirror(c)
      PROVE  Sent' = Sent
  <2>1. /\ call[c] # "sent"
        /\ \E pc : pc # "sent" /\ call' = [call EXCEPT ![c] = pc]
    BY <1>2 DEF RecordStart, RecordUpdate, RecordDropped, RecordMirror
  <2> QED
    BY <2>1
<1>3. ASSUME NEW c \in Calls, RecordSend(c) PROVE Sent \subseteq Sent'
  <2>1. \E pc : call' = [call EXCEPT ![c] = pc]
    BY <1>3 DEF RecordSend
  <2>2. call[c] = "send"
    BY <1>3 DEF RecordSend
  <2> QED
    BY <2>1, <2>2
<1> QED
  BY <1>1, <1>2, <1>3, Frame DEF Next, RecordNext


(* No sample accepted before the swap stands behind the sentinel.          *)
LEMMA SentinelLastStep == TypeOK /\ Inductive /\ [Next]_vars => SentinelLast'
<1> SUFFICES ASSUME TypeOK, Inductive, [Next]_vars PROVE SentinelLast'
  OBVIOUS
<1> USE EngineAssumption
    DEF TypeOK, SentinelLast, Ending
<1>1. CASE UNCHANGED <<chan, before, stop, writer>> /\ Sent \subseteq Sent'
  BY <1>1 DEF Inductive
<1>2. ASSUME NEW c \in Calls, RecordSend(c) PROVE SentinelLast'
  <2>1. /\ c \notin before /\ c # Sentinel
        /\ UNCHANGED <<before, stop, writer>>
    BY <1>2, Frame DEF RecordSend, RecordNext, Inductive, Sent
  <2>2. CASE UNCHANGED chan
    BY <1>2, <1>1, <2>1, <2>2, SentGrows
  <2>3. CASE chan' = Append(chan, c)
    <3>1. /\ DOMAIN chan' = 1 .. Len(chan) + 1 /\ DOMAIN chan = 1 .. Len(chan)
          /\ \A k \in 1 .. Len(chan) : chan'[k] = chan[k]
          /\ chan'[Len(chan) + 1] = c
      BY <2>3
    <3>2. Elements(chan') = Elements(chan) \cup {c}
      BY <2>3, ElementsSend
    <3>3. Sent \subseteq Sent'
      BY SentGrows
    <3>4. SentinelLast
      BY DEF Inductive
    <3>5. (\A j, k \in DOMAIN chan :
             j < k /\ chan[j] = Sentinel => chan[k] \notin before)'
      BY SMTT(30), <2>1, <3>1, <3>4
    <3>6. (Ending => \A k \in DOMAIN chan : chan[k] \notin before)'
      BY <2>1, <3>1, <3>4
    <3>7. (~stop => before = {} /\ ~Ending /\ Sentinel \notin Elements(chan))'
      BY <2>1, <3>2, <3>4
    <3> QED
      BY <2>1, <3>3, <3>4, <3>5, <3>6, <3>7
  <2> QED
    BY <1>2, <2>2, <2>3 DEF RecordSend
<1>3. CASE WriterRecv
  BY <1>3 DEF WriterRecv, Inductive, OneShutdown, Sent, outsideWriter,
     statics, producers, history, pipe, AfterFlush, Elements
<1>4. CASE WriterDrain
  BY SMTT(30), <1>4 DEF WriterDrain, Inductive, OneShutdown, Sent, outsideWriter,
     statics, producers, history, pipe, AfterFlush, Elements
<1>5. CASE WriterDrained
  BY <1>5 DEF WriterDrained, Inductive, OneShutdown, Sent, outsideWriter,
     statics, producers, history, pipe, AfterFlush, Elements
<1>6. CASE WriterInsert
  BY <1>6 DEF WriterInsert, Inductive, OneShutdown, Sent, outsideWriter,
     statics, producers, history, pipe, AfterFlush, Elements
<1>7. CASE WriterPersist
  BY <1>7 DEF WriterPersist, Inductive, OneShutdown, Sent, outsideWriter,
     statics, producers, history, pipe, AfterFlush, Elements
<1>8. CASE WriterExit
  BY <1>8 DEF WriterExit, Inductive, OneShutdown, Sent, outsideWriter,
     statics, producers, history, pipe, AfterFlush, Elements
<1>9. ASSUME NEW i \in Initers, InitSpawn(i) PROVE SentinelLast'
  <2>1. /\ chan' = chan \/ chan' = <<>>
        /\ ~Ending'
    BY <1>9 DEF InitSpawn, pipe
  <2>2. UNCHANGED <<before, stop, call>>
    BY <1>9, Frame DEF InitNext
  <2>3. SentinelLast
    BY DEF Inductive
  <2>4. Sent' = Sent
    BY <2>2 DEF Sent
  <2>5. CASE UNCHANGED chan
    BY <2>1, <2>2, <2>3, <2>4, <2>5
  <2>6. CASE chan' = <<>>
    <3>1. Elements(chan') = {} /\ DOMAIN chan' = {}
      BY <2>6 DEF Elements
    <3> QED
      BY <2>1, <2>2, <2>3, <2>4, <3>1
  <2> QED
    BY <2>1, <2>5, <2>6
<1>10. ASSUME NEW s \in Stoppers, ShutdownBegin(s) PROVE SentinelLast'
  <2>1. CASE UNCHANGED <<stop, before>>
    BY <1>10, <1>1, <2>1, SentGrows, Frame
  <2>2. CASE before' = Sent /\ stop' = TRUE /\ stop = FALSE
    <3>1. UNCHANGED <<chan, call, writer>>
      BY <1>10, Frame
    <3>2. ~Ending /\ Sentinel \notin Elements(chan)
      BY <2>2 DEF Inductive
    <3>3. before' \subseteq Sent'
      BY <2>2, <3>1 DEF Sent
    <3> QED
      BY <2>2, <3>1, <3>2, <3>3 DEF Elements
  <2> QED
    BY <1>10, <2>1, <2>2 DEF ShutdownBegin, history
<1>11. ASSUME NEW s \in Stoppers, ShutdownSend(s) PROVE SentinelLast'
  <2>1. /\ Sentinel \notin before /\ stop = TRUE
        /\ UNCHANGED <<before, stop, writer, call>>
    BY <1>11, Frame DEF ShutdownSend, ShutdownNext, Inductive,
       OneShutdown, Winner
  <2>2. CASE UNCHANGED chan
    BY <1>11, <1>1, <2>1, <2>2, SentGrows
  <2>3. CASE chan' = Append(chan, Sentinel)
    <3>1. /\ DOMAIN chan' = 1 .. Len(chan) + 1 /\ DOMAIN chan = 1 .. Len(chan)
          /\ \A k \in 1 .. Len(chan) : chan'[k] = chan[k]
          /\ chan'[Len(chan) + 1] = Sentinel
      BY <2>3
    <3>3. Sent \subseteq Sent'
      BY SentGrows
    <3>4. SentinelLast
      BY DEF Inductive
    <3>5. (\A j, k \in DOMAIN chan :
             j < k /\ chan[j] = Sentinel => chan[k] \notin before)'
      BY SMTT(30), <2>1, <3>1, <3>4
    <3>6. (Ending => \A k \in DOMAIN chan : chan[k] \notin before)'
      BY <2>1, <3>1, <3>4
    <3> QED
      BY <2>1, <3>3, <3>4, <3>5, <3>6
  <2> QED
    BY <1>11, <2>2, <2>3 DEF ShutdownSend
<1> QED
  BY <1>1, <1>2, <1>3, <1>4, <1>5, <1>6, <1>7, <1>8, <1>9, <1>10, <1>11,
     SentGrows, Frame DEF Next, RecordNext, WriterNext, InitNext,
     ShutdownNext

(* The writer moves a sample from the channel to the batch and from there  *)
(* to the store; it lets none slip until it drops the receiver.            *)
LEMMA WriterKeeps ==
  ASSUME TypeOK, NothingForgotten, WriterNext, ~WriterExit
  PROVE  /\ Kept \cap Calls \subseteq Kept'
         /\ (writer \notin {"drain", "flush", "flushLast"} => batch = <<>>)'
<1> USE DEF TypeOK, Kept
<1>1. CASE WriterRecv
  <2>1. /\ chan # <<>> /\ chan' = Tail(chan) /\ batch = <<>>
        /\ UNCHANGED <<stored, refused>>
    BY <1>1 DEF WriterRecv, NothingForgotten
  <2>2. Elements(chan) = {Head(chan)} \cup Elements(chan')
    BY <2>1, ElementsRecv
  <2>3. Elements(batch) = {}
    BY <2>1, ElementsOne
  <2>4. CASE Head(chan) = Sentinel
    BY <1>1, <2>1, <2>2, <2>4, EngineAssumption DEF WriterRecv, EngineAssumption
  <2>5. CASE Head(chan) # Sentinel
    <3>1. batch' = <<Head(chan)>> /\ writer' = "drain"
      BY <1>1, <2>5 DEF WriterRecv
    <3>2. Elements(batch') = {Head(chan)}
      BY <3>1, ElementsOne
    <3> QED
      BY <2>1, <2>2, <2>3, <3>1, <3>2
  <2> QED
    BY <2>4, <2>5
<1>2. CASE WriterDrain
  <2>1. /\ chan # <<>> /\ chan' = Tail(chan) /\ writer' \in {"drain", "flushLast"}
        /\ UNCHANGED <<stored, refused>>
    BY <1>2 DEF WriterDrain
  <2>2. Elements(chan) = {Head(chan)} \cup Elements(chan')
    BY <2>1, ElementsRecv
  <2>3. CASE Head(chan) = Sentinel
    <3>1. UNCHANGED batch
      BY <1>2, <2>3 DEF WriterDrain
    <3> QED
      BY <2>1, <2>2, <2>3, <3>1, EngineAssumption DEF EngineAssumption
  <2>4. CASE Head(chan) # Sentinel
    <3>1. batch' = Append(batch, Head(chan)) /\ Head(chan) \in Calls
      BY <1>2, <2>1, <2>4, RecvType DEF WriterDrain
    <3>2. Elements(batch') = Elements(batch) \cup {Head(chan)}
      BY <3>1, ElementsSend
    <3> QED
      BY <2>1, <2>2, <3>2
  <2> QED
    BY <2>3, <2>4
<1>3. CASE WriterDrained
  <2>1. UNCHANGED <<chan, batch, stored, refused>> /\ writer' = "flush"
    BY <1>3 DEF WriterDrained, pipe
  <2> QED
    BY <2>1
<1>4. CASE WriterInsert
  <2>1. /\ batch # <<>> /\ batch' = Tail(batch) /\ UNCHANGED chan
        /\ \/ stored' = Append(stored, Head(batch)) /\ UNCHANGED refused
           \/ refused' = refused \cup {Head(batch)} /\ UNCHANGED stored
    BY <1>4 DEF WriterInsert, pipe
  <2>2. Elements(batch) = {Head(batch)} \cup Elements(batch')
    BY <2>1, ElementsRecv
  <2>3. Head(batch) \in Calls
    BY <2>1, RecvType
  <2>4. Elements(stored') \cup refused' = Elements(stored) \cup refused \cup {Head(batch)}
    <3>1. CASE stored' = Append(stored, Head(batch)) /\ UNCHANGED refused
      BY <2>3, <3>1, ElementsSend
    <3>2. CASE refused' = refused \cup {Head(batch)} /\ UNCHANGED stored
      BY <3>2
    <3> QED
      BY <2>1, <3>1, <3>2
  <2>5. (writer \notin {"drain", "flush", "flushLast"} => batch = <<>>)'
    <3>1. CASE Len(batch) = 1
      <4>1. Tail(batch) \in Seq(Calls) /\ Len(Tail(batch)) = 0
        BY <2>1, <3>1, RecvType
      <4> QED
        BY <2>1, <4>1
    <3>2. CASE Len(batch) # 1
      BY <1>4, <3>2 DEF WriterInsert
    <3> QED
      BY <3>1, <3>2
  <2>6. Kept \cap Calls \subseteq Kept'
    BY <2>1, <2>2, <2>4
  <2> QED
    BY <2>5, <2>6
<1>5. CASE WriterPersist
  <2>1. UNCHANGED <<chan, batch, stored, refused>>
    BY <1>5 DEF WriterPersist, pipe
  <2>2. batch = <<>>
    BY <1>5 DEF WriterPersist, NothingForgotten
  <2> QED
    BY <2>1, <2>2
<1> QED
  BY <1>1, <1>2, <1>3, <1>4, <1>5 DEF WriterNext

(* What shutdown() owes to the store is not forgotten.                     *)
LEMMA NothingForgottenStep == TypeOK /\ Inductive /\ [Next]_vars => NothingForgotten'
<1> SUFFICES ASSUME TypeOK, Inductive, [Next]_vars PROVE NothingForgotten'
  OBVIOUS
<1>a. NothingForgotten /\ SentinelLast /\ OneInit
  BY DEF Inductive
<1>1. CASE /\ UNCHANGED <<writer, batch, before, stored, refused, chan, stop>>
           /\ Sent' = Sent
  BY <1>a, <1>1 DEF NothingForgotten, Kept
<1>2. ASSUME NEW c \in Calls, RecordSend(c) PROVE NothingForgotten'
  <2>1. UNCHANGED <<writer, batch, before, stored, refused, stop>>
    BY <1>2, Frame DEF RecordNext
  <2>2. CASE UNCHANGED chan /\ call' = [call EXCEPT ![c] = "count"]
    <3>1. Sent' = Sent
      BY <1>2, <2>2 DEF RecordSend, Sent, TypeOK
    <3> QED
      BY <1>1, <2>1, <2>2, <3>1
  <2>3. CASE chan' = Append(chan, c) /\ call' = [call EXCEPT ![c] = "sent"]
    <3>1. Elements(chan') = Elements(chan) \cup {c}
      BY <2>3, ElementsSend DEF TypeOK
    <3>2. Sent' \subseteq Sent \cup {c}
      BY <2>3 DEF TypeOK, Sent
    <3> QED
      BY <1>a, <2>1, <3>1, <3>2 DEF NothingForgotten, Kept
  <2> QED
    BY <1>2, <2>2, <2>3 DEF RecordSend
<1>3. CASE WriterNext /\ ~WriterExit
  <2>1. UNCHANGED <<before, stop, call>>
    BY <1>3, Frame
  <2>2. /\ Kept \cap Calls \subseteq Kept'
        /\ (writer \notin {"drain", "flush", "flushLast"} => batch = <<>>)'
    BY <1>a, <1>3, WriterKeeps
  <2>3. writer # "failed"
    BY <1>3 DEF WriterNext, WriterRecv, WriterDrain, WriterDrained,
       WriterInsert,
                WriterPersist
  <2>4. before' \subseteq Calls /\ Sent' = Sent /\ Sent \subseteq Calls
    BY <2>1 DEF TypeOK, Sent
  <2>5. before \subseteq Kept /\ (~stop => Sent \subseteq Kept)
    BY <1>a, <2>3 DEF NothingForgotten
  <2>6. before' \subseteq Kept'
    BY <2>1, <2>2, <2>4, <2>5
  <2>7. ~stop' => Sent' \subseteq Kept'
    BY <2>1, <2>2, <2>4, <2>5
  <2> QED
    BY <2>2, <2>6, <2>7 DEF NothingForgotten
<1>4. CASE WriterExit
  <2>1. /\ Ending /\ batch = <<>>
        /\ UNCHANGED <<batch, stored, refused, before, stop>>
    BY <1>a, <1>4, Frame DEF WriterExit, WriterNext, Ending, NothingForgotten
  <2>2. stop /\ before \cap Elements(chan) = {}
    BY <1>a, <2>1 DEF SentinelLast, Elements
  <2>3. before \subseteq Elements(stored) \cup refused \cup Elements(batch)
    BY <1>a, <1>4, <2>2 DEF NothingForgotten, Kept, WriterExit
  <2> QED
    BY <2>1, <2>2, <2>3 DEF NothingForgotten, Kept
<1>5. ASSUME NEW i \in Initers, InitSpawn(i) PROVE NothingForgotten'
  <2>1. UNCHANGED <<batch, stored, refused, call, before, stop>> /\ batch = <<>>
    <3>1. writer = "none"
      BY <1>a, <1>5 DEF InitSpawn, OneInit, Published, Full
    <3> QED
      BY <1>a, <1>5, <3>1, Frame DEF InitNext, NothingForgotten
  <2>2. CASE writer' = "failed"
    BY <2>1, <2>2 DEF NothingForgotten
  <2>3. CASE UNCHANGED chan
    <3>1. writer # "failed"
      BY <1>a, <1>5 DEF InitSpawn, OneInit, Published, Full
    <3> QED
      BY <1>a, <2>1, <2>3, <3>1 DEF NothingForgotten, Kept, Sent
  <2> QED
    BY <1>5, <2>2, <2>3 DEF InitSpawn, pipe
<1>6. ASSUME NEW s \in Stoppers, ShutdownBegin(s) PROVE NothingForgotten'
  <2>1. UNCHANGED <<writer, batch, stored, refused, chan, call>> /\ Sent' = Sent
    BY <1>6, Frame DEF Sent
  <2>2. CASE UNCHANGED <<stop, before>>
    BY <1>1, <2>1, <2>2
  <2>3. CASE stop = FALSE /\ stop' = TRUE /\ before' = Sent
    BY <1>a, <2>1, <2>3 DEF NothingForgotten, Kept
  <2> QED
    BY <1>6, <2>2, <2>3 DEF ShutdownBegin, history, TypeOK
<1>7. ASSUME NEW s \in Stoppers, ShutdownSend(s) PROVE NothingForgotten'
  <2>1. UNCHANGED <<writer, batch, stored, refused, call, before, stop>> /\ Sent' = Sent
    BY <1>7, Frame DEF ShutdownNext, Sent
  <2>2. Elements(chan) \subseteq Elements(chan')
    <3>1. CASE chan' = Append(chan, Sentinel)
      BY <3>1, ElementsSend DEF TypeOK
    <3>2. CASE UNCHANGED chan
      BY <3>2
    <3> QED
      BY <1>7, <3>1, <3>2 DEF ShutdownSend
  <2> QED
    BY <1>a, <2>1, <2>2 DEF NothingForgotten, Kept
<1> QED
  BY <1>1, <1>2, <1>3, <1>4, <1>5, <1>6, <1>7, Frame, SentGrows
  DEF Next, RecordNext, InitNext, ShutdownNext

(* Only stragglers are dropped with the receiver.                          *)
LEMMA StragglersStep == TypeOK /\ Inductive /\ [Next]_vars => OnlyStragglersLost'
<1> SUFFICES ASSUME TypeOK, Inductive, [Next]_vars PROVE OnlyStragglersLost'
  OBVIOUS
<1>a. OnlyStragglersLost /\ SentinelLast /\ OneInit
  BY DEF Inductive
<1>1. CASE UNCHANGED <<writer, lost, stop, before>>
  BY <1>a, <1>1 DEF OnlyStragglersLost
<1>2. CASE WriterNext /\ ~WriterExit
  <2>1. UNCHANGED <<lost, stop, before>> /\ writer # "failed"
    BY <1>2, Frame DEF WriterNext, WriterRecv, WriterDrain, WriterDrained,
       WriterInsert,
                WriterPersist, pipe
  <2> QED
    BY <1>a, <2>1 DEF OnlyStragglersLost
<1>3. CASE WriterExit
  <2>1. /\ Ending /\ lost' \subseteq lost \cup Elements(chan)
        /\ UNCHANGED <<before, stop>>
    BY <1>3, Frame DEF WriterExit, WriterNext, Ending
  <2>2. stop /\ before \cap Elements(chan) = {}
    BY <1>a, <2>1 DEF SentinelLast, Elements
  <2>3. lost \cap before = {}
    BY <1>a, <1>3 DEF OnlyStragglersLost, WriterExit
  <2> QED
    BY <2>1, <2>2, <2>3 DEF OnlyStragglersLost
<1>4. ASSUME NEW i \in Initers, InitSpawn(i) PROVE OnlyStragglersLost'
  <2>1. writer = "none" /\ UNCHANGED <<stop, before>>
    BY <1>a, <1>4, Frame DEF InitSpawn, InitNext, OneInit, Published, Full
  <2> QED
    BY <1>a, <1>4, <2>1 DEF InitSpawn, OnlyStragglersLost, pipe
<1>5. ASSUME NEW s \in Stoppers, ShutdownBegin(s) PROVE OnlyStragglersLost'
  <2>1. UNCHANGED <<writer, lost>>
    BY <1>5, Frame
  <2>2. CASE UNCHANGED <<stop, before>>
    BY <1>1, <2>1, <2>2
  <2>3. CASE stop = FALSE /\ stop' = TRUE
    BY <1>a, <2>1, <2>3 DEF OnlyStragglersLost
  <2> QED
    BY <1>5, <2>2, <2>3 DEF ShutdownBegin, history, TypeOK
<1> QED
  BY <1>1, <1>2, <1>3, <1>4, <1>5, Frame DEF Next, InitNext

(* The invariant holds before anything is called.                          *)
LEMMA InductiveInit == Init => Inductive
<1> SUFFICES ASSUME Init PROVE Inductive
  OBVIOUS
<1>1. Elements(chan) = {} /\ DOMAIN chan = {} /\ Sent = {}
  BY DEF Init, Elements, Sent
<1>2. OneShutdown /\ HandleStored
  BY EngineAssumption DEF Init, OneShutdown, HandleStored, Winner, Joined,
     Full, EngineAssumption
<1>3. OneInit
  BY EngineAssumption DEF Init, OneInit, Published, Full, EngineAssumption
<1>4. SentinelLast /\ NothingForgotten /\ OnlyStragglersLost
  BY <1>1 DEF Init, SentinelLast, NothingForgotten, OnlyStragglersLost,
     Ending, Kept
<1> QED
  BY <1>2, <1>3, <1>4 DEF Inductive

(* The inductive invariant, conjunct by conjunct above.                    *)
THEOREM Invariance == Spec => [](TypeOK /\ Inductive)
<1>1. TypeOK /\ Inductive /\ [Next]_vars => Inductive'
  BY OneShutdownStep, OneInitStep, HandleStoredStep, SentinelLastStep,
     NothingForgottenStep, StragglersStep DEF Inductive
<1> QED
  BY TypeInit, TypeStep, InductiveInit, <1>1, PTL DEF Spec

(* shutdown() keeps its promise: if it did not overlap init() and the      *)
(* writer thread could be started, then when it returns the writer has     *)
(* exited and every sample accepted before the swap was written, or        *)
(* refused by the keyspace.                                                *)
THEOREM ShutdownKeepsSamples == Spec => []ShutdownFlushes
<1>1. Inductive => ShutdownFlushes
  <2> SUFFICES ASSUME Inductive, NEW s \in Stoppers,
                      Returned(s), Full, graceful, writer # "failed"
               PROVE  /\ writer = "exited"
                      /\ before \subseteq Elements(stored) \cup refused
    BY DEF ShutdownFlushes
  <2>1. writer = "exited"
    BY DEF Inductive, HandleStored, Joined, Returned
  <2>2. batch = <<>> /\ before \cap Elements(chan) = {}
    BY <2>1 DEF Inductive, NothingForgotten, SentinelLast, Ending, Elements
  <2>3. Elements(batch) = {}
    BY <2>2, ElementsOne
  <2> QED
    BY <2>1, <2>2, <2>3 DEF Inductive, NothingForgotten, Kept
<1> QED
  BY Invariance, <1>1, PTL

(* The samples that disappear with the receiver are stragglers: accepted   *)
(* from a record() that was under way when shutdown() swapped SHUTDOWN.    *)
THEOREM StragglersOnly == Spec => []OnlyStragglersLost
<1>1. Inductive => OnlyStragglersLost
  BY DEF Inductive
<1> QED
  BY Invariance, <1>1, PTL

(* After a graceful shutdown() has returned the keyspace gets no sample.   *)
THEOREM Quiet == Spec => QuietAfterShutdown
<1>1. /\ TypeOK /\ Inductive /\ [Next]_vars
      => [(\E s \in Stoppers : Returned(s)) /\ graceful
            => UNCHANGED <<stored, refused>>]_vars
  <2> SUFFICES ASSUME TypeOK, Inductive, Next, NEW s \in Stoppers, Returned(s), graceful
               PROVE  UNCHANGED <<stored, refused>>
    OBVIOUS
  <2>1. writer \in {"exited", "failed", "none"}
    BY DEF Inductive, HandleStored, Joined, Returned, OneInit,
       OneShutdown, Winner
  <2>2. ~WriterInsert
    BY <2>1 DEF WriterInsert
  <2>3. WriterNext => UNCHANGED <<stored, refused>>
    BY <2>2 DEF WriterNext, WriterRecv, WriterDrain, WriterDrained,
       WriterPersist, WriterExit
  <2> QED
    BY <2>3, Frame DEF Next
<1> QED
  BY Invariance, <1>1, PTL DEF Spec, QuietAfterShutdown

-----------------------------------------------------------------------------
(* The keyspace, the compaction tasks and the barrier.                     *)

HIDE DEF ownedByInit, ownedByWriter, history

(* What they consist of.                                                   *)
lifecycle == <<opened, slot, spawner, task, synced, stored>>

(* Which actions touch the keyspace, the tasks and the barrier.            *)
LEMMA LifecycleFrame ==
  /\ \A c \in Calls : RecordStart(c) \/ RecordNext(c) => UNCHANGED lifecycle
  /\ WriterNext => UNCHANGED <<opened, slot, spawner, task>>
  /\ WriterNext /\ ~WriterInsert /\ ~WriterPersist =>
       UNCHANGED <<stored, synced>>
  /\ \A i \in Initers : InitStart(i) \/ InitNext(i) =>
       UNCHANGED <<spawner, synced, stored>>
  /\ \A i \in Initers :
       InitStart(i) \/ InitSpawn(i) \/ InitStore(i) \/ InitCompact(i)
         \/ InitSlot(i) => UNCHANGED opened
  /\ \A i \in Initers :
       InitStart(i) \/ InitOpen(i) \/ InitSet(i) \/ InitSpawn(i)
         \/ InitStore(i) => UNCHANGED <<slot, task>>
  /\ \A p \in Spawners : SpawnStart(p) \/ SpawnSlot(p) =>
       UNCHANGED <<opened, synced, stored>>
  /\ \A t \in Tasks : PassStart(t) \/ PassEnd(t) =>
       UNCHANGED <<opened, slot, spawner, synced, stored>>
  /\ \A s \in Stoppers : ShutdownBegin(s) \/ ShutdownNext(s) =>
       UNCHANGED <<opened, spawner, stored>>
  /\ \A s \in Stoppers :
       ShutdownBegin(s) \/ (ShutdownNext(s) /\ ~ShutdownPersist(s)) =>
         UNCHANGED synced
  /\ \A s \in Stoppers :
       ShutdownBegin(s) \/ (ShutdownNext(s) /\ ~ShutdownAbort(s)) =>
         UNCHANGED <<slot, task>>
  /\ UNCHANGED vars => UNCHANGED lifecycle
BY DEF lifecycle, vars, statics, pipe, consumer, producers, compactors,
   history, outsideRecord, outsideWriter, outsideInit, outsideTasks,
   outsideHalt, RecordStart, RecordNext, RecordUpdate, RecordSend,
   RecordDropped, RecordMirror, WriterNext, WriterRecv, WriterDrain,
   WriterDrained, WriterInsert, WriterPersist, WriterExit, InitStart,
   InitNext, InitOpen, InitSet, InitSpawn, InitStore, InitCompact, InitSlot,
   SpawnStart, SpawnSlot, PassStart, PassEnd, ShutdownBegin, ShutdownNext,
   ShutdownSend, ShutdownRetry, ShutdownTake, ShutdownJoin, ShutdownAbort,
   ShutdownPersist

-----------------------------------------------------------------------------
(* The keyspace.                                                           *)

(* An init() that has opened its keyspace has it until GLOBAL decides.     *)
Holding == \A i \in FullInits : init[i] = "set" => i \in opened

Owned == Holding /\ KeyspaceOwner

(* The winner keeps its keyspace, a loser closes it.                        *)
LEMMA OwnedStep ==
  ASSUME TypeOK, Inductive, Owned, [Next]_vars PROVE Owned'
<1> USE EngineAssumption
    DEF TypeOK, Inductive, OneInit, Published, Owned, Holding, KeyspaceOwner,
        Full
<1>1. CASE UNCHANGED <<global, init, opened>>
  BY <1>1
<1>2. ASSUME NEW i \in Initers, InitStart(i) PROVE Owned'
  <2>1. UNCHANGED <<global, opened>>
    BY <1>2, LifecycleFrame, Frame
  <2>2. PICK next \in {IF i \in FullInits THEN "open" ELSE "set", "err"} :
          init' = [init EXCEPT ![i] = next]
    BY <1>2 DEF InitStart
  <2>3. i \notin opened
    BY <1>2 DEF InitStart
  <2> QED
    BY <2>1, <2>2, <2>3
<1>3. ASSUME NEW i \in Initers, InitOpen(i) PROVE Owned'
  BY <1>3, Frame DEF InitOpen, statics
<1>4. ASSUME NEW i \in Initers, InitSet(i) PROVE Owned'
  BY <1>4 DEF InitSet
<1>5. ASSUME NEW i \in Initers, InitSpawn(i) PROVE Owned'
  BY <1>5 DEF InitSpawn, statics
<1>6. ASSUME NEW i \in Initers, InitStore(i) PROVE Owned'
  BY <1>6 DEF InitStore
<1>7. ASSUME NEW i \in Initers, InitCompact(i) PROVE Owned'
  BY <1>7 DEF InitCompact, statics
<1>8. ASSUME NEW i \in Initers, InitSlot(i) PROVE Owned'
  BY <1>8 DEF InitSlot
<1> QED
  BY <1>1, <1>2, <1>3, <1>4, <1>5, <1>6, <1>7, <1>8, Frame, LifecycleFrame
  DEF Next, InitNext, lifecycle, ownedByInit

(* Of racing init() calls all but the one that wins GLOBAL close their     *)
(* keyspace, and the winner keeps its own.                                 *)
THEOREM OneOwner == Spec => []KeyspaceOwner
<1>1. Init => Owned
  BY EngineAssumption DEF Init, Owned, Holding, KeyspaceOwner, Full
<1>2. Owned => KeyspaceOwner
  BY DEF Owned
<1> QED
  BY Invariance, <1>1, OwnedStep, <1>2, PTL DEF Spec

-----------------------------------------------------------------------------
(* The last barrier.                                                       *)

(* The writer is gone when the barrier comes.                              *)
LEMMA DurableStep ==
  ASSUME TypeOK, Inductive, ShutdownDurable, [Next]_vars
  PROVE  ShutdownDurable'
<1> SUFFICES ASSUME NEW s \in Stoppers, halt'[s] = "done", Full', graceful'
             PROVE  synced' = Len(stored')
  BY DEF ShutdownDurable, Full
<1>1. ASSUME NEW u \in Stoppers, ShutdownPersist(u) PROVE synced' = Len(stored')
  <2>1. UNCHANGED <<global, graceful, stored>>
    BY <1>1 DEF ShutdownPersist, outsideHalt, statics, history
  <2>2. CASE synced' = Len(stored)
    BY <2>1, <2>2
  <2>3. CASE halt' = [halt EXCEPT ![u] = "unsynced"] /\ synced' = synced
    <3>1. s # u /\ halt[s] = "done"
      BY <2>3 DEF TypeOK
    <3> QED
      BY <2>1, <2>3, <3>1 DEF ShutdownDurable, Full
  <2> QED
    BY <1>1, <2>2, <2>3 DEF ShutdownPersist
<1>2. ASSUME \A u \in Stoppers : ~ShutdownPersist(u)
      PROVE  synced' = Len(stored')
  <2>1. halt[s] = "done"
    BY <1>2, Frame DEF Next, ShutdownBegin, ShutdownNext, ShutdownSend,
       ShutdownRetry, ShutdownTake, ShutdownJoin, ShutdownAbort, TypeOK,
       Inductive, OneInit, Full
  <2>2. stop /\ global # None
    BY <2>1 DEF Inductive, OneShutdown, Winner
  <2>3. UNCHANGED <<global, graceful>>
    BY <2>2, Frame DEF Next, ShutdownBegin, InitSet, InitNext, history,
       ownedByInit
  <2>4. writer \in {"exited", "failed", "none"}
    BY <2>1, <2>3 DEF Inductive, HandleStored, Joined, OneInit, Full
  <2>5. ~WriterInsert /\ ~WriterPersist
    BY <2>4 DEF WriterInsert, WriterPersist
  <2>6. UNCHANGED <<stored, synced>>
    BY <1>2, <2>5, LifecycleFrame DEF Next, lifecycle
  <2> QED
    BY <2>1, <2>3, <2>6 DEF ShutdownDurable, Full
<1> QED
  BY <1>1, <1>2

(* A graceful shutdown() whose final persist succeeds leaves every stored  *)
(* sample durable, and none comes after it.                                *)
THEOREM Barrier == Spec => []ShutdownDurable
<1>1. Init => ShutdownDurable
  BY DEF Init, ShutdownDurable
<1> QED
  BY Invariance, <1>1, DurableStep, PTL DEF Spec

-----------------------------------------------------------------------------
(* The compaction loop of init().                                          *)

Running(t) == task[t] \in {"sleep", "pass"}
Unused == \A p \in Spawners : spawner[p] \in {"idle", "refused"}

(* A loop runs for a call that has started it; without calls of the        *)
(* application the slot holds the loop of init() until the abort.          *)
Slotted ==
  /\ task \in [Tasks -> {"none", "sleep", "pass", "orphan", "stopped"}]
  /\ \A p \in Spawners : spawner[p] \in {"idle", "refused"} => ~Running(p)
  /\ \A i \in Initers : Running(i) => global = i
  /\ Unused => \A i \in Initers : Running(i) => init[i] = "slot" \/ slot = i

(* After a graceful shutdown() has aborted, nothing is left to run.        *)
Aborted ==
  \A s \in Stoppers :
    halt[s] \in {"persist", "done", "unsynced"} /\ graceful /\ Unused =>
      \A t \in Tasks : ~Running(t)

(* A started loop is put into the slot by the call that started it.        *)
LEMMA SlottedStep ==
  ASSUME TypeOK, Inductive, Slotted, [Next]_vars PROVE Slotted'
<1> USE EngineAssumption
    DEF TypeOK, Inductive, OneInit, Published, Slotted, Running, Unused, Tasks
<1>1. CASE UNCHANGED <<global, init, slot, spawner, task>>
  BY <1>1
<1>2. ASSUME NEW i \in Initers, InitStart(i) PROVE Slotted'
  <2>1. UNCHANGED <<global, slot, spawner, task>>
    BY <1>2, LifecycleFrame, Frame
  <2>2. \A j \in Initers : init[j] = "slot" => init'[j] = "slot"
    BY <1>2 DEF InitStart
  <2> QED
    BY <2>1, <2>2
<1>3. ASSUME NEW i \in Initers, InitOpen(i) PROVE Slotted'
  <2>1. UNCHANGED <<global, slot, spawner, task>>
    BY <1>3, LifecycleFrame DEF InitOpen, statics, InitNext
  <2>2. \A j \in Initers : init[j] = "slot" => init'[j] = "slot"
    BY <1>3 DEF InitOpen
  <2> QED
    BY <2>1, <2>2
<1>4. ASSUME NEW i \in Initers, InitSet(i) PROVE Slotted'
  BY <1>4, LifecycleFrame DEF InitSet, InitNext
<1>5. ASSUME NEW i \in Initers, InitSpawn(i) PROVE Slotted'
  BY <1>5, LifecycleFrame DEF InitSpawn, statics, InitNext
<1>6. ASSUME NEW i \in Initers, InitStore(i) PROVE Slotted'
  BY <1>6, LifecycleFrame DEF InitStore, InitNext
<1>7. ASSUME NEW i \in Initers, InitCompact(i) PROVE Slotted'
  <2>1. UNCHANGED <<global, slot, spawner>> /\ global = i
    BY <1>7, LifecycleFrame DEF InitCompact, statics, InitNext
  <2>2. CASE task' = [task EXCEPT ![i] = "sleep"]
             /\ init' = [init EXCEPT ![i] = "slot"]
    <3>1. \A t \in Tasks : Running(t)' => t = i \/ Running(t)
      BY <2>2
    <3>2. i \notin Spawners /\ init'[i] = "slot"
      BY <2>2
    <3>3. \A j \in Initers : init[j] = "slot" => init'[j] = "slot"
      BY <2>2
    <3>4. task' \in [Tasks -> {"none", "sleep", "pass", "orphan", "stopped"}]
      BY <2>2
    <3> QED
      BY <2>1, <3>1, <3>2, <3>3, <3>4
  <2>3. CASE UNCHANGED task /\ init' = [init EXCEPT ![i] = "ok"]
    <3>1. init[i] = "compact"
      BY <1>7 DEF InitCompact
    <3>2. \A j \in Initers : init[j] = "slot" => init'[j] = "slot"
      BY <2>3, <3>1
    <3> QED
      BY <2>1, <2>3, <3>2
  <2> QED
    BY <1>7, <2>2, <2>3 DEF InitCompact
<1>8. ASSUME NEW i \in Initers, InitSlot(i) PROVE Slotted'
  BY <1>8, LifecycleFrame DEF InitSlot, InitNext
<1>9. ASSUME NEW p \in Spawners, SpawnStart(p) PROVE Slotted'
  <2>1. UNCHANGED <<global, slot, init>>
    BY <1>9 DEF SpawnStart, outsideTasks
  <2>2. CASE task' = [task EXCEPT ![p] = "sleep"]
             /\ spawner' = [spawner EXCEPT ![p] = "slot"]
    <3>1. \A t \in Tasks : Running(t)' => t = p \/ Running(t)
      BY <2>2
    <3>2. p \notin Initers /\ spawner'[p] = "slot"
      BY <2>2
    <3>3. \A r \in Spawners : r # p => spawner'[r] = spawner[r]
      BY <2>2
    <3>4. task' \in [Tasks -> {"none", "sleep", "pass", "orphan", "stopped"}]
      BY <2>2
    <3>5. ~Unused'
      BY <3>2
    <3>6. \A r \in Spawners : spawner'[r] \in {"idle", "refused"} => ~Running(r)'
      BY <3>1, <3>2, <3>3
    <3>7. \A j \in Initers : Running(j)' => global' = j
      BY <2>1, <3>1, <3>2
    <3> QED
      BY <3>4, <3>5, <3>6, <3>7
  <2>3. CASE UNCHANGED task /\ spawner' = [spawner EXCEPT ![p] = "refused"]
    <3>1. spawner[p] = "idle"
      BY <1>9 DEF SpawnStart
    <3>2. \A r \in Spawners : spawner'[r] \in {"idle", "refused"} =>
                              spawner[r] \in {"idle", "refused"}
      BY <2>3, <3>1
    <3>3. (\A r \in Spawners : spawner'[r] \in {"idle", "refused"}) => Unused
      BY <3>2
    <3> QED
      BY <2>1, <2>3, <3>2, <3>3
  <2> QED
    BY <1>9, <2>2, <2>3 DEF SpawnStart
<1>10. ASSUME NEW p \in Spawners, SpawnSlot(p) PROVE Slotted'
  BY <1>10 DEF SpawnSlot, outsideTasks
<1>11. ASSUME NEW t \in Tasks, PassStart(t) PROVE Slotted'
  BY <1>11 DEF PassStart, outsideTasks
<1>12. ASSUME NEW t \in Tasks, PassEnd(t) PROVE Slotted'
  BY <1>12 DEF PassEnd, outsideTasks
<1>13. ASSUME NEW s \in Stoppers, ShutdownAbort(s) PROVE Slotted'
  BY <1>13 DEF ShutdownAbort, outsideHalt
<1> QED
  BY <1>1, <1>2, <1>3, <1>4, <1>5, <1>6, <1>7, <1>8, <1>9, <1>10, <1>11,
     <1>12, <1>13, Frame, LifecycleFrame
  DEF Next, InitNext, lifecycle, ownedByInit

(* abort() stops the loop in the slot, and no init() starts another.       *)
LEMMA AbortedStep ==
  ASSUME TypeOK, Inductive, Slotted, Aborted, [Next]_vars PROVE Aborted'
<1> SUFFICES ASSUME NEW s \in Stoppers,
                    halt'[s] \in {"persist", "done", "unsynced"},
                    graceful', Unused', NEW t \in Tasks
             PROVE  ~Running(t)'
  BY DEF Aborted
<1>1. ASSUME NEW u \in Stoppers, ShutdownAbort(u) PROVE ~Running(t)'
  <2>1. Winner(u) /\ UNCHANGED <<graceful, spawner, init>>
    BY <1>1 DEF ShutdownAbort, outsideHalt, history, Winner
  <2>2. stop /\ \A i \in Initers : init[i] # "slot"
    BY <2>1 DEF Inductive, OneShutdown, HandleStored, Published
  <2>3. t \in Initers /\ Running(t) => slot = t
    BY <2>1, <2>2 DEF Slotted, Unused
  <2>4. t \in Spawners => ~Running(t)
    BY <2>1 DEF Slotted, Unused
  <2> QED
    BY <1>1, <2>3, <2>4 DEF ShutdownAbort, Running, Slotted, Tasks
<1>2. ASSUME \A u \in Stoppers : ~ShutdownAbort(u) PROVE ~Running(t)'
  <2>1. halt[s] \in {"persist", "done", "unsynced"}
    BY <1>2, Frame DEF Next, ShutdownBegin, ShutdownNext, ShutdownSend,
       ShutdownRetry, ShutdownTake, ShutdownJoin, ShutdownPersist, TypeOK
  <2>2. stop /\ global # None
    BY <2>1 DEF Inductive, OneShutdown, Winner
  <2>3. UNCHANGED graceful
    BY <2>2, Frame DEF Next, ShutdownBegin, history
  <2>4. Unused
    BY LifecycleFrame DEF Next, lifecycle, Unused, SpawnStart, SpawnSlot,
       TypeOK
  <2>5. \A x \in Tasks : ~Running(x)
    BY <2>1, <2>3, <2>4 DEF Aborted
  <2>6. \A i \in Initers : ~InitCompact(i)
    BY <2>2, <2>3 DEF Inductive, HandleStored, Published, InitCompact
  <2>7. \A p \in Spawners : SpawnStart(p) => UNCHANGED task
    BY DEF SpawnStart, Unused, TypeOK
  <2> QED
    BY <1>2, <2>5, <2>6, <2>7, LifecycleFrame DEF Next, InitNext, InitSlot,
       SpawnSlot, lifecycle, Running, Slotted, PassStart, PassEnd
<1> QED
  BY <1>1, <1>2

(* A graceful shutdown() leaves no compaction loop of init() running.      *)
THEOREM LoopStops == Spec => []InitTaskStops
<1>1. Init => Slotted /\ Aborted
  BY EngineAssumption DEF Init, Slotted, Aborted, Running, Tasks
<1>2. Aborted => InitTaskStops
  BY DEF Aborted, InitTaskStops, Returned, Unused, Running
<1> QED
  BY Invariance, <1>1, SlottedStep, AbortedStep, <1>2, PTL DEF Spec

-----------------------------------------------------------------------------
(* The way of a sample: it is in one place at a time, both drop counters   *)
(* tell how many never got in, and the engine implements the pipe of       *)
(* module SamplePipe.                                                      *)

USE DEF ownedByInit, ownedByWriter, history

-----------------------------------------------------------------------------
(* Sequences without repetition, under what the channel does to them.      *)

(* Appending a new element.                                                *)
LEMMA UnrepeatedSend ==
  ASSUME NEW S, NEW x \in S, NEW seq \in Seq(S),
         Unrepeated(seq), x \notin Elements(seq)
  PROVE  Unrepeated(Append(seq, x))
<1>1. /\ DOMAIN Append(seq, x) = 1 .. Len(seq) + 1
      /\ DOMAIN seq = 1 .. Len(seq) /\ Len(seq) \in Nat
      /\ \A k \in 1 .. Len(seq) : Append(seq, x)[k] = seq[k]
      /\ Append(seq, x)[Len(seq) + 1] = x
  BY AppendProperties, LenProperties
<1>2. \A k \in 1 .. Len(seq) : seq[k] # x
  BY <1>1 DEF Elements
<1> QED
  BY <1>1, <1>2 DEF Unrepeated

(* Taking the first element.                                               *)
LEMMA UnrepeatedRecv ==
  ASSUME NEW S, NEW seq \in Seq(S), seq # <<>>, Unrepeated(seq)
  PROVE  Unrepeated(Tail(seq)) /\ Head(seq) \notin Elements(Tail(seq))
<1>1. /\ DOMAIN Tail(seq) = 1 .. Len(seq) - 1
      /\ \A k \in DOMAIN Tail(seq) : Tail(seq)[k] = seq[k + 1]
      /\ Head(seq) = seq[1] /\ DOMAIN seq = 1 .. Len(seq) /\ Len(seq) \in Nat \ {0}
  OBVIOUS
<1>2. \A k \in DOMAIN Tail(seq) : k + 1 \in DOMAIN seq /\ 1 \in DOMAIN seq /\ k + 1 # 1
  BY <1>1
<1>3. Head(seq) \notin Elements(Tail(seq))
  BY <1>1, <1>2 DEF Elements, Unrepeated
<1>4. \A j, k \in DOMAIN Tail(seq) : Tail(seq)[j] = Tail(seq)[k] => j + 1 = k + 1
  BY <1>1, <1>2 DEF Unrepeated
<1>5. DOMAIN Tail(seq) \subseteq Nat
  BY <1>1
<1> QED
  BY <1>3, <1>4, <1>5 DEF Unrepeated

(* At most one element.                                                    *)
LEMMA UnrepeatedOne == ASSUME NEW x PROVE Unrepeated(<<x>>) /\ Unrepeated(<<>>)
BY DEF Unrepeated

(* What a concatenation contains.                                          *)
LEMMA ElementsConcat ==
  ASSUME NEW S, NEW s \in Seq(S), NEW t \in Seq(S)
  PROVE  Elements(s \o t) = Elements(s) \cup Elements(t)
<1>1. Range(s \o t) = Range(s) \cup Range(t)
  BY RangeConcatenation
<1> QED
  BY <1>1 DEF Range, Elements

(* Concatenating two sequences that share nothing.                         *)
LEMMA UnrepeatedConcat ==
  ASSUME NEW S, NEW s \in Seq(S), NEW t \in Seq(S),
         Unrepeated(s), Unrepeated(t), Disjoint(Elements(s), Elements(t))
  PROVE  Unrepeated(s \o t)
<1>1. /\ DOMAIN (s \o t) = 1 .. Len(s) + Len(t)
      /\ DOMAIN s = 1 .. Len(s) /\ DOMAIN t = 1 .. Len(t)
      /\ Len(s) \in Nat /\ Len(t) \in Nat
      /\ \A i \in 1 .. Len(s) + Len(t) : (s \o t)[i] =
                     IF i <= Len(s) THEN s[i] ELSE t[i - Len(s)]
  BY ConcatProperties, LenProperties
<1>2. \A j \in DOMAIN s, k \in DOMAIN t : s[j] # t[k]
  BY DEF Disjoint, Elements
<1> SUFFICES ASSUME NEW j \in DOMAIN (s \o t), NEW k \in DOMAIN (s \o t),
                    (s \o t)[j] = (s \o t)[k]
             PROVE  j = k
  BY DEF Unrepeated
<1>3. CASE j <= Len(s) /\ k <= Len(s)
  BY <1>1, <1>3 DEF Unrepeated
<1>4. CASE ~(j <= Len(s)) /\ ~(k <= Len(s))
  <2>1. j - Len(s) \in DOMAIN t /\ k - Len(s) \in DOMAIN t
    BY <1>1, <1>4
  <2>2. j - Len(s) = k - Len(s)
    BY <1>1, <1>4, <2>1 DEF Unrepeated
  <2> QED
    BY <1>1, <2>2
<1>5. CASE j <= Len(s) /\ ~(k <= Len(s))
  BY <1>1, <1>2, <1>5
<1>6. CASE ~(j <= Len(s)) /\ k <= Len(s)
  BY <1>1, <1>2, <1>6
<1> QED
  BY <1>3, <1>4, <1>5, <1>6

(* Three in a row.                                                         *)
LEMMA ConcatThree ==
  ASSUME NEW S, NEW s \in Seq(S), NEW t \in Seq(S), NEW u \in Seq(S)
  PROVE  /\ Elements(s \o t \o u) = Elements(s) \cup Elements(t) \cup Elements(u)
         /\ /\ Unrepeated(s) /\ Unrepeated(t) /\ Unrepeated(u)
            /\ Disjoint(Elements(s), Elements(t))
            /\ Disjoint(Elements(s) \cup Elements(t), Elements(u))
            => Unrepeated(s \o t \o u)
<1>1. PICK r \in Seq(S) : r = s \o t
  BY ConcatProperties
<1>2. Elements(r) = Elements(s) \cup Elements(t)
  BY <1>1, ElementsConcat
<1>3. Elements(r \o u) = Elements(r) \cup Elements(u)
  BY ElementsConcat
<1>4. ASSUME Unrepeated(s), Unrepeated(t), Disjoint(Elements(s), Elements(t))
      PROVE  Unrepeated(r)
  BY <1>1, <1>4, UnrepeatedConcat
<1>5. ASSUME Unrepeated(r), Unrepeated(u), Disjoint(Elements(r), Elements(u))
      PROVE  Unrepeated(r \o u)
  BY <1>5, UnrepeatedConcat
<1> QED
  BY <1>1, <1>2, <1>3, <1>4, <1>5

(* SampleOnce is what OnePlace says place by place.                        *)
LEMMA OnePlaceIsSampleOnce == TypeOK /\ OnePlace => SampleOnce
<1> SUFFICES ASSUME TypeOK, OnePlace PROVE SampleOnce
  OBVIOUS
<1>1. /\ stored \in Seq(Calls \cup {Sentinel})
      /\ batch \in Seq(Calls \cup {Sentinel})
      /\ chan \in Seq(Calls \cup {Sentinel})
  BY SeqMonotonic DEF TypeOK
<1>2. Elements(stored) \subseteq Calls /\ Elements(batch) \subseteq Calls
  BY DEF TypeOK, Elements
<1>3. /\ Elements(stored \o batch \o chan) =
             Elements(stored) \cup Elements(batch) \cup Elements(chan)
      /\ Unrepeated(stored \o batch \o chan)
  <2>1. /\ Disjoint(Elements(stored), Elements(batch))
        /\ Disjoint(Elements(stored) \cup Elements(batch), Elements(chan))
    BY <1>2 DEF OnePlace, Disjoint, Queued
  <2> QED
    BY <1>1, <2>1, ConcatThree DEF OnePlace
<1>4. Elements(stored \o batch \o chan) \cap (refused \cup lost) = {}
  BY <1>3 DEF OnePlace, Disjoint, Queued, TypeOK
<1> QED
  BY <1>3, <1>4 DEF SampleOnce, OnePlace, Disjoint

-----------------------------------------------------------------------------
(* One place at a time.                                                    *)

(* What the steps that move no sample leave alone.                         *)
LEMMA PipeFrame ==
  /\ \A c \in Calls : RecordStart(c) \/ RecordNext(c) => UNCHANGED rxOpen
  /\ WriterNext /\ ~WriterExit => UNCHANGED <<rxOpen, lost>>
  /\ \A i \in Initers : (InitNext(i) /\ ~InitSpawn(i)) \/ InitStart(i) =>
       UNCHANGED rxOpen
  /\ \A p \in Spawners : SpawnStart(p) \/ SpawnSlot(p) => UNCHANGED rxOpen
  /\ \A t \in Tasks : PassStart(t) \/ PassEnd(t) => UNCHANGED rxOpen
  /\ \A s \in Stoppers : ShutdownBegin(s) \/ ShutdownNext(s) => UNCHANGED rxOpen
  /\ UNCHANGED vars => UNCHANGED rxOpen
BY DEF vars, statics, pipe, consumer, producers, history, outsideRecord,
   outsideWriter, outsideInit, outsideTasks, outsideHalt,
   RecordStart, RecordNext, RecordUpdate, RecordSend,
   RecordDropped, RecordMirror, WriterNext, WriterRecv, WriterDrain,
   WriterDrained, WriterInsert, WriterPersist, InitStart, InitNext,
   InitOpen, InitSet, InitStore, InitCompact, InitSlot, SpawnStart,
   SpawnSlot, PassStart, PassEnd, ShutdownBegin, ShutdownNext, ShutdownSend,
   ShutdownRetry, ShutdownTake, ShutdownJoin, ShutdownAbort, ShutdownPersist

(* Every step leaves every sample in one place.                            *)
LEMMA OnePlaceStep == TypeOK /\ Inductive /\ PipeInv /\ [Next]_vars => OnePlace'
<1> SUFFICES ASSUME TypeOK, Inductive, PipeInv, [Next]_vars PROVE OnePlace'
  OBVIOUS
<1>a. OnePlace /\ SentinelOnce /\ Receiver
  BY DEF PipeInv
<1>b. /\ chan \in Seq(Calls \cup {Sentinel}) /\ batch \in Seq(Calls)
      /\ stored \in Seq(Calls) /\ refused \subseteq Calls /\ lost \subseteq Calls
      /\ call \in [Calls -> {"idle", "noop", "update", "panicked", "done", "send",
                         "sent", "count", "mirror", "dropped"}]
      /\ Sentinel \notin Calls
  BY EngineAssumption DEF TypeOK
<1>c. Elements(stored) \subseteq Calls /\ Elements(batch) \subseteq Calls
  BY <1>b DEF Elements
<1>1. CASE UNCHANGED <<stored, batch, chan, refused, lost>> /\ Sent' = Sent
  BY <1>a, <1>1 DEF OnePlace, Queued
<1>2. ASSUME NEW c \in Calls, RecordSend(c) PROVE OnePlace'
  <2>1. UNCHANGED <<stored, batch, refused, lost>>
    BY <1>2, Frame DEF RecordNext
  <2>2. CASE UNCHANGED chan /\ call' = [call EXCEPT ![c] = "count"]
    <3>1. Sent' = Sent
      BY <1>2, <2>2 DEF RecordSend, Sent, TypeOK
    <3> QED
      BY <1>1, <2>1, <2>2, <3>1
  <2>3. CASE chan' = Append(chan, c) /\ call' = [call EXCEPT ![c] = "sent"]
    <3>1. Elements(chan') = Elements(chan) \cup {c}
      BY <2>3, <1>b, ElementsSend
    <3>2. Sent' = Sent \cup {c} /\ c \notin Sent
      BY <1>2, <2>3, <1>b DEF Sent, RecordSend
    <3>3. c \notin Elements(stored) \cup Elements(batch) \cup Elements(chan)
                    \cup refused \cup lost
      BY <1>a, <3>2 DEF OnePlace, Queued
    <3>4. Unrepeated(chan')
      BY <1>a, <1>b, <2>3, <3>3, UnrepeatedSend DEF OnePlace
    <3>5. Queued' = Queued \cup {c}
      BY <2>1, <3>1 DEF Queued
    <3> QED
      BY <1>a, <2>1, <3>1, <3>2, <3>3, <3>4, <3>5 DEF OnePlace, Disjoint
  <2> QED
    BY <1>2, <2>2, <2>3 DEF RecordSend
<1>3. CASE WriterRecv \/ WriterDrain
  <2>1. /\ chan # <<>> /\ chan' = Tail(chan)
        /\ UNCHANGED <<stored, refused, lost, call>>
        /\ writer = "recv" => batch = <<>>
    BY <1>3, Frame DEF WriterRecv, WriterDrain, WriterNext, Inductive, NothingForgotten
  <2>2. /\ Elements(chan) = {Head(chan)} \cup Elements(chan')
        /\ Unrepeated(chan') /\ Head(chan) \notin Elements(chan')
    BY <1>a, <1>b, <2>1, ElementsRecv, UnrepeatedRecv DEF OnePlace
  <2>3. Sent' = Sent
    BY <2>1 DEF Sent
  <2>4. CASE Head(chan) = Sentinel
    <3>1. UNCHANGED batch
      BY <1>3, <2>4 DEF WriterRecv, WriterDrain
    <3>2. Queued' = Queued
      BY <1>b, <2>2, <2>4, <3>1 DEF Queued
    <3> QED
      BY <1>a, <2>1, <2>2, <2>3, <3>1, <3>2 DEF OnePlace, Disjoint
  <2>5. CASE Head(chan) # Sentinel
    <3>1. Head(chan) \in Calls
      BY <1>b, <2>1, <2>5, RecvType
    <3>2. /\ Elements(batch') = Elements(batch) \cup {Head(chan)}
          /\ Unrepeated(batch')
      <4>1. Head(chan) \notin Elements(batch)
        BY <1>a, <2>2 DEF OnePlace, Disjoint
      <4>2. CASE WriterRecv
        BY <4>2, <2>1, <2>5, ElementsOne, UnrepeatedOne DEF WriterRecv
      <4>3. CASE WriterDrain
        <5>1. batch' = Append(batch, Head(chan))
          BY <4>3, <2>5 DEF WriterDrain
        <5> QED
          BY <1>a, <1>b, <3>1, <4>1, <5>1, ElementsSend, UnrepeatedSend DEF OnePlace
      <4> QED
        BY <1>3, <4>2, <4>3
    <3>3. Queued' = Queued
      BY <2>2, <3>1, <3>2 DEF Queued
    <3> QED
      BY <1>a, <2>1, <2>2, <2>3, <3>2, <3>3 DEF OnePlace, Disjoint
  <2> QED
    BY <2>4, <2>5
<1>4. CASE WriterInsert
  <2>1. /\ batch # <<>> /\ batch' = Tail(batch)
        /\ UNCHANGED <<chan, lost, call>>
        /\ \/ stored' = Append(stored, Head(batch)) /\ UNCHANGED refused
           \/ refused' = refused \cup {Head(batch)} /\ UNCHANGED stored
    BY <1>4, Frame DEF WriterInsert, WriterNext, pipe
  <2>2. /\ Elements(batch) = {Head(batch)} \cup Elements(batch')
        /\ Unrepeated(batch') /\ Head(batch) \notin Elements(batch')
    BY <1>a, <1>b, <2>1, ElementsRecv, UnrepeatedRecv DEF OnePlace
  <2>3. Sent' = Sent
    BY <2>1 DEF Sent
  <2>4. /\ Head(batch) \in Calls
        /\ Head(batch) \notin Elements(stored) \cup Elements(chan) \cup refused \cup lost
    BY <1>a, <1>b, <2>1, <2>2, RecvType DEF OnePlace, Disjoint, Queued
  <2>5. Queued = Queued' \cup {Head(batch)} /\ Head(batch) \notin Queued'
    BY <2>1, <2>2, <2>4 DEF Queued
  <2>6. CASE stored' = Append(stored, Head(batch)) /\ UNCHANGED refused
    <3>1. /\ Elements(stored') = Elements(stored) \cup {Head(batch)}
          /\ Unrepeated(stored')
      BY <1>a, <1>b, <2>4, <2>6, ElementsSend, UnrepeatedSend DEF OnePlace
    <3> QED
      BY <1>a, <2>1, <2>2, <2>3, <2>4, <2>5, <2>6, <3>1 DEF OnePlace, Disjoint
  <2>7. CASE refused' = refused \cup {Head(batch)} /\ UNCHANGED stored
    BY <1>a, <2>1, <2>2, <2>3, <2>4, <2>5, <2>7 DEF OnePlace, Disjoint
  <2> QED
    BY <2>1, <2>6, <2>7
<1>5. CASE /\ lost' = lost \cup (Elements(chan) \cap Calls)
           /\ chan' = <<>>
           /\ UNCHANGED <<stored, batch, refused, call>>
  <2>1. Elements(chan') = {} /\ Unrepeated(chan') /\ Sent' = Sent
    BY <1>5, ElementsOne, UnrepeatedOne DEF Sent
  <2>2. Queued' = Elements(batch)
    BY <1>5, <2>1 DEF Queued
  <2> QED
    BY <1>a, <1>c, <1>5, <2>1, <2>2 DEF OnePlace, Disjoint, Queued
<1>6. CASE WriterExit
  BY <1>5, <1>6, Frame DEF WriterExit, WriterNext
<1>7. ASSUME NEW i \in Initers, InitSpawn(i) PROVE OnePlace'
  <2>1. UNCHANGED <<stored, batch, refused, call>> /\ Sent' = Sent
    BY <1>7, Frame DEF InitNext, Sent
  <2> QED
    BY <1>1, <1>5, <1>7, <2>1 DEF InitSpawn, pipe
<1>8. ASSUME NEW s \in Stoppers, ShutdownSend(s) PROVE OnePlace'
  <2>1. UNCHANGED <<stored, batch, refused, lost, call>> /\ Sent' = Sent
    BY <1>8, Frame DEF ShutdownNext, Sent
  <2>2. CASE UNCHANGED chan
    BY <1>1, <2>1, <2>2
  <2>3. CASE chan' = Append(chan, Sentinel)
    <3>1. Elements(chan') = Elements(chan) \cup {Sentinel}
      BY <1>b, <2>3, ElementsSend
    <3>2. Sentinel \notin Elements(chan)
      BY <1>a, <1>8 DEF SentinelOnce, ShutdownSend
    <3>3. Unrepeated(chan')
      BY <1>a, <1>b, <2>3, <3>2, UnrepeatedSend DEF OnePlace
    <3>4. Queued' = Queued
      BY <1>b, <2>1, <3>1 DEF Queued
    <3> QED
      BY <1>a, <1>b, <1>c, <2>1, <3>1, <3>3, <3>4 DEF OnePlace, Disjoint
  <2> QED
    BY <1>8, <2>2, <2>3 DEF ShutdownSend
<1>9. CASE WriterDrained \/ WriterPersist
  <2>1. UNCHANGED <<stored, batch, chan, refused, lost, call>>
    BY <1>9, Frame DEF WriterDrained, WriterPersist, WriterNext, pipe
  <2> QED
    BY <1>1, <2>1 DEF Sent
<1>10. CASE UNCHANGED <<stored, batch, chan, refused, lost>> /\ ~\E c \in Calls : RecordSend(c)
  BY <1>1, <1>10, SentGrows
<1> QED
  BY <1>1, <1>2, <1>3, <1>4, <1>6, <1>7, <1>8, <1>9, <1>10, SentGrows, Frame DEF Next, RecordNext,
     WriterNext, InitNext, ShutdownNext

(* A sentinel is sent once, by the shutdown() that won the swap, and is    *)
(* gone from the channel once the writer has seen it.                      *)
LEMMA SentinelOnceStep == TypeOK /\ Inductive /\ PipeInv /\ [Next]_vars => SentinelOnce'
<1> SUFFICES ASSUME TypeOK, Inductive, PipeInv, [Next]_vars PROVE SentinelOnce'
  OBVIOUS
<1>a. OnePlace /\ SentinelOnce /\ Receiver /\ OneShutdown /\ OneInit
  BY DEF PipeInv, Inductive
<1>b. /\ chan \in Seq(Calls \cup {Sentinel}) /\ Sentinel \notin Calls
      /\ halt \in [Stoppers -> {"idle", "notInit", "already", "send", "take",
                            "join", "abort", "persist", "done", "unsynced"}]
  BY EngineAssumption DEF TypeOK
<1>1. CASE UNCHANGED <<writer, chan, halt>>
  BY <1>a, <1>1 DEF SentinelOnce, Ending
<1>2. ASSUME NEW c \in Calls, RecordSend(c) PROVE SentinelOnce'
  <2>1. UNCHANGED <<writer, halt>>
    BY <1>2, Frame DEF RecordNext
  <2>2. chan' = chan \/ chan' = Append(chan, c)
    BY <1>2 DEF RecordSend
  <2>3. Sentinel \in Elements(chan') => Sentinel \in Elements(chan)
    <3>1. CASE chan' = Append(chan, c)
      <4>1. Elements(chan') = Elements(chan) \cup {c}
        BY <1>b, <3>1, ElementsSend
      <4> QED
        BY <1>b, <4>1
    <3>2. CASE chan' = chan
      BY <3>2
    <3> QED
      BY <2>2, <3>1, <3>2
  <2> QED
    BY <1>a, <2>1, <2>3 DEF SentinelOnce, Ending
<1>3. CASE WriterRecv \/ WriterDrain
  <2>1. /\ chan # <<>> /\ chan' = Tail(chan) /\ UNCHANGED halt
        /\ ~Ending
        /\ Head(chan) = Sentinel \/ ~Ending'
    BY <1>3, Frame DEF WriterRecv, WriterDrain, WriterNext, Ending
  <2>2. /\ Elements(chan) = {Head(chan)} \cup Elements(chan')
        /\ Head(chan) \notin Elements(chan')
    BY <1>a, <1>b, <2>1, ElementsRecv, UnrepeatedRecv DEF OnePlace
  <2> QED
    BY <1>a, <2>1, <2>2 DEF SentinelOnce
<1>4. CASE WriterDrained \/ WriterInsert \/ WriterPersist
  <2>1. UNCHANGED <<chan, halt>> /\ (Ending' => Ending)
    BY <1>4, Frame DEF WriterDrained, WriterInsert, WriterPersist, WriterNext,
       AfterFlush, pipe, Ending
  <2> QED
    BY <1>a, <2>1 DEF SentinelOnce
<1>5. CASE WriterExit
  <2>1. chan' = <<>> /\ Ending /\ UNCHANGED halt
    BY <1>5, Frame DEF WriterExit, WriterNext, Ending
  <2>2. Elements(chan') = {}
    BY <2>1, ElementsOne
  <2> QED
    BY <1>a, <2>1, <2>2 DEF SentinelOnce
<1>6. ASSUME NEW i \in Initers, InitSpawn(i) PROVE SentinelOnce'
  <2>1. UNCHANGED halt /\ ~Ending'
    BY <1>6, Frame DEF InitSpawn, InitNext, Ending
  <2>2. Elements(chan') \subseteq Elements(chan)
    BY <1>6, ElementsOne DEF InitSpawn, pipe
  <2> QED
    BY <1>a, <2>1, <2>2 DEF SentinelOnce
<1>7. ASSUME NEW s \in Stoppers, ShutdownBegin(s) PROVE SentinelOnce'
  <2>1. UNCHANGED <<writer, chan>>
    BY <1>7, Frame
  <2>2. CASE ~stop
    BY <2>1, <2>2 DEF Inductive, SentinelLast, SentinelOnce, Ending
  <2>3. CASE stop
    <3>1. \A u \in Stoppers : halt'[u] = "send" => halt[u] = "send"
      BY <1>7, <1>b, <2>3 DEF ShutdownBegin
    <3> QED
      BY <1>a, <2>1, <3>1 DEF SentinelOnce, Ending
  <2> QED
    BY <2>2, <2>3
<1>8. ASSUME NEW s \in Stoppers, ShutdownSend(s) PROVE SentinelOnce'
  <2>1. UNCHANGED writer /\ ~Ending
    BY <1>a, <1>8, Frame DEF ShutdownSend, ShutdownNext, SentinelOnce
  <2>2. \A u \in Stoppers : halt'[u] # "send"
    BY <1>a, <1>b, <1>8 DEF ShutdownSend, OneShutdown, Winner
  <2> QED
    BY <2>1, <2>2 DEF SentinelOnce, Ending
<1>9. ASSUME NEW s \in Stoppers, ShutdownRetry(s) \/ ShutdownTake(s) \/ ShutdownJoin(s)
                                 \/ ShutdownAbort(s) \/ ShutdownPersist(s)
      PROVE  SentinelOnce'
  <2>1. UNCHANGED <<writer, chan>>
    BY <1>9 DEF ShutdownRetry, ShutdownTake, ShutdownJoin, ShutdownAbort,
       ShutdownPersist, outsideHalt, pipe
  <2>2. \A u \in Stoppers : halt'[u] = "send" => halt[u] = "send"
    BY <1>b, <1>9 DEF ShutdownRetry, ShutdownTake, ShutdownJoin, ShutdownAbort,
       ShutdownPersist
  <2> QED
    BY <1>a, <2>1, <2>2 DEF SentinelOnce, Ending
<1> QED
  BY <1>1, <1>2, <1>3, <1>4, <1>5, <1>6, <1>7, <1>8, <1>9, Frame DEF Next, RecordNext,
     WriterNext, InitNext, ShutdownNext

(* The receiver goes with the writer, and nothing moves before it started. *)
LEMMA ReceiverStep == TypeOK /\ Inductive /\ PipeInv /\ [Next]_vars => Receiver'
<1> SUFFICES ASSUME TypeOK, Inductive, PipeInv, [Next]_vars PROVE Receiver'
  OBVIOUS
<1>a. Receiver /\ OneInit
  BY DEF PipeInv, Inductive
<1>1. CASE UNCHANGED <<writer, rxOpen, stored, refused, lost>>
  BY <1>a, <1>1 DEF Receiver
<1>2. CASE WriterNext
  <2>1. writer' # "none" /\ writer \notin {"none", "failed", "exited"}
    BY <1>2 DEF WriterNext, WriterRecv, WriterDrain, WriterDrained, WriterInsert,
       WriterPersist, WriterExit, AfterFlush
  <2>2. CASE WriterExit
    BY <2>2 DEF WriterExit, Receiver
  <2>3. CASE ~WriterExit
    <3>1. writer' \notin {"exited", "failed"}
      BY <1>2, <2>1, <2>3 DEF WriterNext, WriterRecv, WriterDrain, WriterDrained,
         WriterInsert, WriterPersist, AfterFlush
    <3>2. UNCHANGED rxOpen
      BY <1>2, <2>3, PipeFrame
    <3> QED
      BY <1>a, <2>1, <3>1, <3>2 DEF Receiver
  <2> QED
    BY <2>2, <2>3
<1>3. ASSUME NEW i \in Initers, InitSpawn(i) PROVE Receiver'
  <2>1. writer = "none"
    BY <1>a, <1>3 DEF InitSpawn, OneInit, Published, Full
  <2> QED
    BY <1>a, <1>3, <2>1 DEF InitSpawn, Receiver, pipe
<1> QED
  BY <1>1, <1>2, <1>3, Frame, PipeFrame DEF Next, InitNext

(* The invariant holds before anything is called.                          *)
LEMMA PipeInit == Init => PipeInv
<1> SUFFICES ASSUME Init PROVE PipeInv
  OBVIOUS
<1>1. /\ stored = <<>> /\ batch = <<>> /\ chan = <<>> /\ refused = {} /\ lost = {}
      /\ Sent = {} /\ rxOpen = TRUE /\ writer = "none"
  BY DEF Init, Sent
<1>2. Elements(stored) = {} /\ Elements(batch) = {} /\ Elements(chan) = {}
  BY <1>1, ElementsOne
<1>3. OnePlace
  BY <1>1, <1>2, UnrepeatedOne DEF OnePlace, Disjoint, Queued
<1>4. SentinelOnce /\ Receiver
  BY <1>1, <1>2 DEF SentinelOnce, Receiver, Ending
<1> QED
  BY <1>3, <1>4 DEF PipeInv

(* The invariant of the pipe, part by part above.                          *)
THEOREM PipeInvariance == Spec => [](TypeOK /\ Inductive /\ PipeInv)
<1>1. TypeOK /\ Inductive /\ PipeInv /\ [Next]_vars => PipeInv'
  BY OnePlaceStep, SentinelOnceStep, ReceiverStep DEF PipeInv
<1> QED
  BY PipeInit, Invariance, <1>1, PTL DEF Spec

(* Whatever the interleaving of senders, bursts, the sentinel and the end  *)
(* of the writer, a sample that record() handed to the channel is in       *)
(* exactly one place, once: queued, stored, refused by the keyspace or     *)
(* lost with the receiver (EngineHandle::record, writer_loop, flush_batch).*)
THEOREM EachSampleOnce == Spec => []SampleOnce
BY PipeInvariance, OnePlaceIsSampleOnce, PTL DEF PipeInv

-----------------------------------------------------------------------------
(* The engine implements the pipe.                                         *)

(* What is inside the pipe, as a sequence of messages.                     *)
LEMMA QueueType ==
  ASSUME TypeOK
  PROVE  /\ batch \in Seq(Calls \cup {Sentinel}) /\ Owed \in Seq(Calls \cup {Sentinel})
         /\ chan \in Seq(Calls \cup {Sentinel}) /\ PipeQueue \in Seq(Calls \cup {Sentinel})
         /\ Len(PipeQueue) = Len(batch) + Len(Owed) + Len(chan)
         /\ Len(batch) \in Nat /\ Len(Owed) \in Nat /\ Len(Owed) <= 1 /\ Len(chan) \in Nat
         /\ Elements(PipeQueue) = Elements(batch) \cup Elements(Owed) \cup Elements(chan)
         /\ Owed # <<>> => Ending
<1>1. /\ batch \in Seq(Calls \cup {Sentinel}) /\ Owed \in Seq(Calls \cup {Sentinel})
      /\ chan \in Seq(Calls \cup {Sentinel}) /\ Len(Owed) \in Nat /\ Len(Owed) <= 1
  <2>1. batch \in Seq(Calls \cup {Sentinel}) /\ chan \in Seq(Calls \cup {Sentinel})
    BY SeqMonotonic DEF TypeOK
  <2>2. /\ <<Sentinel>> \in Seq(Calls \cup {Sentinel}) /\ Len(<<Sentinel>>) = 1
        /\ <<>> \in Seq(Calls \cup {Sentinel}) /\ Len(<<>>) = 0
    BY OneType, EmptySeq
  <2>3. CASE Owed = <<Sentinel>>
    BY <2>1, <2>2, <2>3
  <2>4. CASE Owed = <<>>
    BY <2>1, <2>2, <2>4
  <2> QED
    BY <2>3, <2>4 DEF Owed
<1>2. /\ batch \o Owed \in Seq(Calls \cup {Sentinel})
      /\ Len(batch \o Owed) = Len(batch) + Len(Owed)
  BY <1>1, ConcatProperties
<1>3. /\ PipeQueue \in Seq(Calls \cup {Sentinel})
      /\ Len(PipeQueue) = Len(batch) + Len(Owed) + Len(chan)
  BY <1>1, <1>2, ConcatProperties DEF PipeQueue
<1>4. Elements(PipeQueue) = Elements(batch) \cup Elements(Owed) \cup Elements(chan)
  <2>1. PICK r \in Seq(Calls \cup {Sentinel}) : r = batch \o Owed
    BY <1>2
  <2>2. Elements(r) = Elements(batch) \cup Elements(Owed)
    BY <1>1, <2>1, ElementsConcat
  <2>3. Elements(r \o chan) = Elements(r) \cup Elements(chan)
    BY <1>1, ElementsConcat
  <2> QED
    BY <2>1, <2>2, <2>3 DEF PipeQueue
<1>5. Owed # <<>> => Ending
  BY DEF Owed, Ending
<1>6. Len(batch) \in Nat /\ Len(chan) \in Nat
  BY <1>1, LenProperties
<1> QED
  BY <1>1, <1>3, <1>4, <1>5, <1>6

(* Sending puts a message behind everything that is inside.                *)
LEMMA QueueSend ==
  ASSUME TypeOK, NEW m \in Calls \cup {Sentinel}, UNCHANGED <<batch, writer>>,
         chan' = Append(chan, m)
  PROVE  PipeQueue' = Append(PipeQueue, m)
<1> DEFINE S == Calls \cup {Sentinel}
<1>1. PICK r \in Seq(S) : r = batch \o Owed
  BY QueueType, ConcatProperties
<1>2. chan \in Seq(S) /\ <<m>> \in Seq(S)
  BY QueueType, OneType
<1> HIDE DEF S
<1>3. /\ r \o (chan \o <<m>>) = (r \o chan) \o <<m>>
      /\ Append(chan, m) = chan \o <<m>>
      /\ Append(r \o chan, m) = (r \o chan) \o <<m>>
  <2>1. r \o chan \in Seq(S) /\ m \in S
    BY <1>2, ConcatProperties DEF S
  <2> QED
    BY <1>2, <2>1, ConcatAssociative, AppendIsConcat
<1>4. PipeQueue = r \o chan /\ PipeQueue' = r \o Append(chan, m)
  BY <1>1 DEF PipeQueue, Owed
<1> QED
  BY <1>3, <1>4

(* Moving a message from the channel into the batch, or taking the         *)
(* sentinel out, changes nothing inside the pipe.                          *)
LEMMA QueueMove ==
  ASSUME TypeOK, Inductive, WriterRecv \/ WriterDrain
  PROVE  PipeQueue' = PipeQueue
<1> DEFINE S == Calls \cup {Sentinel}
<1>1. /\ chan # <<>> /\ chan' = Tail(chan) /\ Owed = <<>>
      /\ WriterRecv => batch = <<>>
  BY DEF WriterRecv, WriterDrain, Owed, Inductive, NothingForgotten
<1>2. batch \in Seq(S) /\ chan \in Seq(S) /\ Head(chan) \in S /\ Tail(chan) \in Seq(S)
      /\ <<Head(chan)>> \in Seq(S)
  BY <1>1, QueueType, RecvType, OneType
<1>3. PipeQueue = batch \o chan
  BY <1>1, <1>2, ConcatEmptySeq DEF PipeQueue
<1>4. chan = <<Head(chan)>> \o Tail(chan)
  BY <1>1, <1>2
<1>5. (batch \o <<Head(chan)>>) \o Tail(chan) = batch \o chan
  BY <1>2, <1>4, ConcatAssociative
<1>6. CASE Head(chan) = Sentinel
  <2>1. batch' = batch /\ Owed' = <<Head(chan)>>
    BY <1>6 DEF WriterRecv, WriterDrain, Owed
  <2> QED
    BY <1>1, <1>3, <1>5, <2>1 DEF PipeQueue
<1>7. CASE Head(chan) # Sentinel
  <2>1. Owed' = <<>>
    BY <1>7 DEF WriterRecv, WriterDrain, Owed
  <2>2. batch' = batch \o <<Head(chan)>>
    <3>1. CASE WriterRecv
      BY <1>1, <1>2, <1>7, <3>1, ConcatEmptySeq DEF WriterRecv
    <3>2. CASE WriterDrain
      BY <1>2, <1>7, <3>2, AppendIsConcat DEF WriterDrain
    <3> QED
      BY <3>1, <3>2
  <2>3. batch \o <<Head(chan)>> \in Seq(S)
    BY <1>2, ConcatProperties
  <2> QED
    BY <1>1, <1>3, <1>5, <2>1, <2>2, <2>3, ConcatEmptySeq DEF PipeQueue
<1> QED
  BY <1>6, <1>7

(* The oldest message of the pipe is the head of a batch that is written.  *)
LEMMA QueueDeliver ==
  ASSUME TypeOK, WriterInsert
  PROVE  /\ PipeQueue # <<>> /\ Head(PipeQueue) = Head(batch)
         /\ PipeQueue' = Tail(PipeQueue)
<1> DEFINE S == Calls \cup {Sentinel}
<1>1. /\ batch # <<>> /\ batch' = Tail(batch) /\ UNCHANGED chan /\ Owed' = Owed
  BY DEF WriterInsert, AfterFlush, Owed, pipe
<1>2. /\ batch \in Seq(S) /\ Owed \in Seq(S) /\ chan \in Seq(S)
      /\ Head(batch) \in S /\ Tail(batch) \in Seq(S)
  BY <1>1, QueueType, RecvType
<1>3. PICK r \in Seq(S) : r = Tail(batch) \o Owed
  BY <1>2, ConcatProperties
<1>4. batch \o Owed = <<Head(batch)>> \o r
  <2>1. batch = <<Head(batch)>> \o Tail(batch) /\ <<Head(batch)>> \in Seq(S)
    BY <1>1, <1>2
  <2> QED
    BY <1>2, <1>3, <2>1, ConcatAssociative
<1>5. PipeQueue = <<Head(batch)>> \o (r \o chan)
  BY <1>2, <1>3, <1>4, OneType, ConcatAssociative DEF PipeQueue
<1>6. PipeQueue' = r \o chan
  BY <1>1, <1>3 DEF PipeQueue
<1>7. PICK q \in Seq(S) : q = r \o chan
  BY <1>2, <1>3, ConcatProperties
<1>8. Head(<<Head(batch)>> \o q) = Head(batch) /\ Tail(<<Head(batch)>> \o q) = q
      /\ <<Head(batch)>> \o q # <<>>
  BY <1>2, <1>7
<1> QED
  BY <1>5, <1>6, <1>7, <1>8

(* Nothing has been called, and the pipe is empty.                         *)
LEMMA PipeMapInit == Init => Pipe!Init
<1> SUFFICES ASSUME Init PROVE Pipe!Init
  OBVIOUS
<1>1. /\ batch = <<>> /\ chan = <<>> /\ stored = <<>> /\ refused = {} /\ lost = {}
      /\ writer = "none"
  BY DEF Init
<1>2. PipeQueue = <<>> /\ PipePhase = "open"
  BY <1>1, ConcatEmptySeq DEF PipeQueue, PipePhase, Owed
<1> QED
  BY <1>1, <1>2 DEF Pipe!Init

(* A message that the channel takes is pushed.                             *)
LEMMA PipeMapPush ==
  ASSUME TypeOK, Inductive, PipeInv, NEW m \in Calls \cup {Sentinel},
         HasRoom, chan' = Append(chan, m),
         UNCHANGED <<batch, writer, stored, refused, lost>>,
         m = Sentinel => ~Ending /\ Sentinel \notin Elements(chan),
         m \in Calls => m \notin Sent
  PROVE  Pipe!Push(m)
<1>1. PipePhase = "open" \/ (PipePhase = "ended" /\ m # Sentinel)
  BY DEF PipeInv, Receiver, HasRoom, PipePhase, Ending
<1>2. Len(PipeQueue) < Capacity + BatchRows + 1
  <2>1. /\ Len(PipeQueue) = Len(batch) + Len(Owed) + Len(chan)
        /\ Len(batch) \in Nat /\ Len(chan) \in Nat
        /\ Len(Owed) \in Nat /\ Len(Owed) <= 1
    BY QueueType
  <2>2. Len(batch) <= BatchRows /\ Len(chan) < Capacity
    BY DEF TypeOK, HasRoom
  <2>3. \A b, q, c, r, n \in Nat : b <= r /\ q <= 1 /\ c < n => b + q + c < n + r + 1
    OBVIOUS
  <2>4. PICK q \in Nat : q = Len(Owed) /\ q <= 1
    BY <2>1, Zenon
  <2>5. Capacity \in Nat /\ BatchRows \in Nat
    BY EngineAssumption
  <2> QED
    BY <2>1, <2>2, <2>3, <2>4, <2>5
<1>3. m \notin Elements(PipeQueue) \cup Elements(stored) \cup (refused \cup lost)
  <2>1. /\ Elements(Owed) \subseteq {Sentinel}
        /\ Ending \/ Elements(Owed) = {}
    BY ElementsOne DEF Owed, Ending
  <2>2. /\ Elements(stored) \subseteq Calls /\ Elements(batch) \subseteq Calls
        /\ refused \subseteq Calls /\ lost \subseteq Calls /\ Sentinel \notin Calls
    BY EngineAssumption DEF TypeOK, Elements
  <2>3. Elements(PipeQueue) = Elements(batch) \cup Elements(Owed) \cup Elements(chan)
    BY QueueType
  <2>4. CASE m = Sentinel
    BY <2>1, <2>2, <2>3, <2>4
  <2>5. CASE m \in Calls
    BY <2>1, <2>2, <2>3, <2>5 DEF PipeInv, OnePlace, Queued
  <2> QED
    BY <2>4, <2>5
<1>4. PipeQueue' = Append(PipeQueue, m)
  BY QueueSend
<1>5. PipePhase' = PipePhase /\ (refused \cup lost)' = refused \cup lost
  BY DEF PipePhase
<1> QED
  BY <1>1, <1>2, <1>3, <1>4, <1>5 DEF Pipe!Push, Pipe!Elements, Elements

(* Giving the channel up, after the sentinel or before the writer started, *)
(* closes the pipe.                                                        *)
LEMMA PipeMapClose ==
  ASSUME TypeOK, Inductive, PipeInv, writer \in {"none", "return"},
         writer' \in {"exited", "failed"}, chan' = <<>>,
         lost' = lost \cup (Elements(chan) \cap Calls),
         UNCHANGED <<batch, stored, refused>>
  PROVE  Pipe!Close
<1>1. batch = <<>> /\ Owed = <<>> /\ Owed' = <<>>
  BY DEF Inductive, NothingForgotten, Owed
<1>2. PipeQueue = chan /\ PipeQueue' = <<>>
  BY <1>1, QueueType, ConcatEmptySeq DEF PipeQueue
<1>3. PipePhase = (IF writer = "return" THEN "ended" ELSE "open") /\ PipePhase' = "closed"
  BY DEF PipePhase
<1>4. Elements(chan) \subseteq Calls \cup {Sentinel} /\ Sentinel \notin Calls
  BY EngineAssumption DEF TypeOK, Elements
<1>5. (refused \cup lost)' = (refused \cup lost) \cup (Elements(chan) \ {Sentinel})
  BY <1>4
<1>6. writer = "none" => stored = <<>> /\ refused \cup lost = {}
  BY DEF PipeInv, Receiver
<1> QED
  BY <1>2, <1>3, <1>5, <1>6 DEF Pipe!Close, Pipe!Elements, Elements

(* Every step is one step of the pipe or none.                             *)
LEMMA PipeMapStep ==
  TypeOK /\ Inductive /\ PipeInv /\ [Next]_vars => [Pipe!Next]_(Pipe!vars)
<1> SUFFICES ASSUME TypeOK, Inductive, PipeInv, [Next]_vars
             PROVE  Pipe!Next \/ UNCHANGED Pipe!vars
  OBVIOUS
<1>a. OneInit /\ OneShutdown /\ NothingForgotten /\ OnePlace /\ SentinelOnce /\ Receiver
  BY DEF PipeInv, Inductive
<1>1. CASE UNCHANGED <<batch, writer, chan, stored, refused, lost>>
  <2>1. PipeQueue' = PipeQueue /\ PipePhase' = PipePhase
    BY <1>1 DEF PipeQueue, PipePhase, Owed
  <2> QED
    BY <1>1, <2>1 DEF Pipe!vars
<1>2. ASSUME NEW c \in Calls, RecordSend(c) PROVE Pipe!Next \/ UNCHANGED Pipe!vars
  <2>1. UNCHANGED <<batch, writer, stored, refused, lost>>
    BY <1>2, Frame DEF RecordNext
  <2>2. CASE UNCHANGED chan
    BY <1>1, <2>1, <2>2
  <2>3. CASE HasRoom /\ chan' = Append(chan, c)
    <3>1. c \notin Sent /\ c # Sentinel
      BY <1>2, EngineAssumption DEF RecordSend, Sent
    <3>2. Pipe!Push(c)
      BY <2>1, <2>3, <3>1, PipeMapPush
    <3> QED
      BY <3>2 DEF Pipe!Next
  <2> QED
    BY <1>2, <2>2, <2>3 DEF RecordSend
<1>3. CASE WriterRecv \/ WriterDrain
  <2>1. PipeQueue' = PipeQueue
    BY <1>3, QueueMove
  <2>2. UNCHANGED <<stored, refused, lost>> /\ PipePhase' = PipePhase
    BY <1>3 DEF WriterRecv, WriterDrain, PipePhase
  <2> QED
    BY <2>1, <2>2 DEF Pipe!vars
<1>4. CASE WriterDrained
  <2>1. UNCHANGED <<batch, chan, stored, refused, lost>>
    BY <1>4 DEF WriterDrained, pipe
  <2>2. Owed' = Owed /\ PipePhase' = PipePhase
    BY <1>4 DEF WriterDrained, Owed, PipePhase
  <2> QED
    BY <2>1, <2>2 DEF Pipe!vars, PipeQueue
<1>5. CASE WriterInsert
  <2>1. /\ PipeQueue # <<>> /\ Head(PipeQueue) = Head(batch)
        /\ PipeQueue' = Tail(PipeQueue)
    BY <1>5, QueueDeliver
  <2>2. Head(batch) # Sentinel
    BY <1>5, RecvType, EngineAssumption DEF WriterInsert, TypeOK
  <2>3. PipePhase = "open" /\ PipePhase' = "open"
    BY <1>5 DEF WriterInsert, AfterFlush, PipePhase
  <2>4. \/ /\ stored' = Append(stored, Head(batch))
           /\ (refused \cup lost)' = refused \cup lost
        \/ /\ (refused \cup lost)' = (refused \cup lost) \cup {Head(batch)}
           /\ UNCHANGED stored
    BY <1>5 DEF WriterInsert, pipe
  <2>5. Pipe!Deliver
    BY <2>1, <2>2, <2>3, <2>4 DEF Pipe!Deliver
  <2> QED
    BY <2>5 DEF Pipe!Next
<1>6. CASE WriterPersist
  <2>1. /\ batch = <<>> /\ Owed = <<Sentinel>> /\ Owed' = <<>>
        /\ UNCHANGED <<batch, chan, stored, refused, lost>>
        /\ PipePhase = "open" /\ PipePhase' = "ended"
    BY <1>a, <1>6 DEF WriterPersist, NothingForgotten, Owed, PipePhase, pipe
  <2>2. PipeQueue = <<Sentinel>> \o chan /\ PipeQueue' = chan
    BY <2>1, QueueType, ConcatEmptySeq DEF PipeQueue
  <2>3. /\ <<Sentinel>> \o chan # <<>> /\ Head(<<Sentinel>> \o chan) = Sentinel
        /\ Tail(<<Sentinel>> \o chan) = chan
    BY QueueType
  <2>4. Pipe!End
    BY <2>1, <2>2, <2>3 DEF Pipe!End
  <2> QED
    BY <2>4 DEF Pipe!Next
<1>7. CASE WriterExit
  <2>1. Pipe!Close
    BY <1>7, PipeMapClose DEF WriterExit
  <2> QED
    BY <2>1 DEF Pipe!Next
<1>8. ASSUME NEW i \in Initers, InitSpawn(i) PROVE Pipe!Next \/ UNCHANGED Pipe!vars
  <2>1. writer = "none" /\ UNCHANGED <<batch, stored, refused>>
    BY <1>a, <1>8 DEF InitSpawn, OneInit, Published, Full
  <2>2. CASE writer' = "recv" /\ UNCHANGED pipe
    <3>1. Owed' = Owed /\ PipePhase' = PipePhase
      BY <2>1, <2>2 DEF Owed, PipePhase
    <3> QED
      BY <2>1, <2>2, <3>1 DEF Pipe!vars, PipeQueue, pipe
  <2>3. CASE writer' # "recv"
    <3>1. Pipe!Close
      BY <1>8, <2>1, <2>3, PipeMapClose DEF InitSpawn
    <3> QED
      BY <3>1 DEF Pipe!Next
  <2> QED
    BY <1>8, <2>2, <2>3 DEF InitSpawn
<1>9. ASSUME NEW s \in Stoppers, ShutdownSend(s) PROVE Pipe!Next \/ UNCHANGED Pipe!vars
  <2>1. UNCHANGED <<batch, writer, stored, refused, lost>>
    BY <1>9, Frame DEF ShutdownNext
  <2>2. CASE UNCHANGED chan
    BY <1>1, <2>1, <2>2
  <2>3. CASE HasRoom /\ chan' = Append(chan, Sentinel)
    <3>1. ~Ending /\ Sentinel \notin Elements(chan) /\ Sentinel \notin Calls
      BY <1>a, <1>9, EngineAssumption DEF ShutdownSend, SentinelOnce
    <3>2. Pipe!Push(Sentinel)
      BY <2>1, <2>3, <3>1, PipeMapPush
    <3> QED
      BY <3>2 DEF Pipe!Next
  <2> QED
    BY <1>9, <2>2, <2>3 DEF ShutdownSend
<1> QED
  BY <1>1, <1>2, <1>3, <1>4, <1>5, <1>6, <1>7, <1>8, <1>9, Frame DEF Next, RecordNext,
     WriterNext, InitNext, ShutdownNext

(* The ingestion path of the engine, all its threads together, is a        *)
(* bounded FIFO: whatever record(), the writer thread, init() and          *)
(* shutdown() do, samples leave it once, in the order of acceptance, and   *)
(* only what stands behind the sentinel is given up with the receiver.     *)
THEOREM EngineImplementsPipe == Spec => PipeSpec
BY PipeMapInit, PipeMapStep, PipeInvariance, PTL DEF Spec, PipeSpec, Pipe!Spec

-----------------------------------------------------------------------------
(* The drop counters.                                                      *)

(* Only record() counts, and only GLOBAL.set changes the handle.           *)
LEMMA AccountFrame ==
  /\ WriterNext => UNCHANGED <<producers, global>>
  /\ \A i \in Initers : InitStart(i) \/ InitNext(i) => UNCHANGED producers
  /\ \A p \in Spawners : SpawnStart(p) \/ SpawnSlot(p) => UNCHANGED <<producers, global>>
  /\ \A t \in Tasks : PassStart(t) \/ PassEnd(t) => UNCHANGED <<producers, global>>
  /\ \A s \in Stoppers : ShutdownBegin(s) \/ ShutdownNext(s) =>
       UNCHANGED <<producers, global>>
  /\ UNCHANGED vars => UNCHANGED <<producers, global>>
BY DEF vars, statics, pipe, consumer, producers, history,
   outsideWriter, outsideInit, outsideTasks, outsideHalt, WriterNext,
   WriterRecv, WriterDrain, WriterDrained, WriterInsert, WriterPersist,
   WriterExit, InitStart, InitNext, InitOpen, InitSet, InitSpawn, InitStore,
   InitCompact, InitSlot, SpawnStart, SpawnSlot, PassStart, PassEnd,
   ShutdownBegin, ShutdownNext, ShutdownSend, ShutdownRetry, ShutdownTake,
   ShutdownJoin, ShutdownAbort, ShutdownPersist

(* One call of record() goes from one place to the next.                   *)
LEMMA StandingMove ==
  ASSUME NEW places, NEW c \in Calls, NEW to, TypeOK,
         call' = [call EXCEPT ![c] = to]
  PROVE  /\ to \in places => Standing(places)' = Standing(places) \cup {c}
         /\ to \notin places /\ call[c] \notin places =>
              Standing(places)' = Standing(places)
         /\ call[c] \in places <=> c \in Standing(places)
BY DEF Standing, TypeOK

(* Every step of a record() is counted once.                               *)
LEMMA AccountedRecord ==
  ASSUME TypeOK, Accounted, NEW c \in Calls, RecordStart(c) \/ RecordNext(c)
  PROVE  Accounted'
<1> DEFINE Seen == {"done", "send", "sent", "count", "mirror", "dropped"}
           Counted == {"mirror", "dropped"}
           Mirrored == {"dropped"}
           Idle == {"idle", "noop"}
<1>a. /\ Standing(Idle) # Calls => global # None
      /\ Full => Standing({"done"}) = {}
      /\ updated = Standing(Seen) /\ IsFiniteSet(updated)
      /\ droppedTotal = Cardinality(Standing(Counted))
      /\ promDropped = Cardinality(Standing(Mirrored))
  BY DEF Accounted
<1>b. UNCHANGED global /\ Full' = Full
  BY Frame DEF Full
<1>c. /\ Standing(Counted) \subseteq updated /\ Standing(Mirrored) \subseteq updated
      /\ IsFiniteSet(Standing(Counted)) /\ IsFiniteSet(Standing(Mirrored))
  <2>1. Standing(Counted) \subseteq updated /\ Standing(Mirrored) \subseteq updated
    BY <1>a DEF Standing
  <2> QED
    BY <1>a, <2>1, FS_Subset
<1>d. call[c] \notin Idle => global # None
  BY <1>a DEF Standing
<1>1. CASE RecordStart(c)
  <2>1. PICK to \in {"noop", "update"} : /\ call' = [call EXCEPT ![c] = to]
                                         /\ to = "update" => global # None
    BY <1>1 DEF RecordStart
  <2>2. call[c] = "idle" /\ UNCHANGED <<updated, droppedTotal, promDropped>>
    BY <1>1 DEF RecordStart
  <2>3. /\ Standing(Seen)' = Standing(Seen)
        /\ Standing(Counted)' = Standing(Counted)
        /\ Standing(Mirrored)' = Standing(Mirrored)
        /\ Standing({"done"})' = Standing({"done"})
    BY <2>1, <2>2, StandingMove
  <2>4. to = "noop" => Standing(Idle)' = Standing(Idle) \cup {c} /\ c \in Standing(Idle)
    BY <2>1, <2>2, StandingMove
  <2>5. Standing(Idle)' # Calls => global' # None
    BY <1>a, <1>b, <2>1, <2>4
  <2> QED
    BY <1>a, <1>b, <2>2, <2>3, <2>5 DEF Accounted
<1>2. CASE RecordUpdate(c)
  <2>1. call[c] = "update" /\ UNCHANGED <<droppedTotal, promDropped>>
    BY <1>2 DEF RecordUpdate
  <2>2. global' # None
    BY <1>b, <1>d, <2>1
  <2>3. PICK to \in {"send", "done", "panicked"} :
             /\ call' = [call EXCEPT ![c] = to]
             /\ updated' = IF to = "panicked" THEN updated ELSE updated \cup {c}
             /\ to = "done" => ~Full
    BY <1>2 DEF RecordUpdate
  <2>4. /\ Standing(Seen)' = IF to = "panicked" THEN Standing(Seen)
                             ELSE Standing(Seen) \cup {c}
        /\ Standing(Counted)' = Standing(Counted)
        /\ Standing(Mirrored)' = Standing(Mirrored)
        /\ to # "done" => Standing({"done"})' = Standing({"done"})
    BY <2>1, <2>3, StandingMove
  <2>5. IsFiniteSet(updated')
    BY <1>a, <2>3, FS_AddElement
  <2> QED
    BY <1>a, <1>b, <2>1, <2>2, <2>3, <2>4, <2>5 DEF Accounted
<1>3. CASE RecordSend(c)
  <2>1. PICK to \in {"sent", "count"} : call' = [call EXCEPT ![c] = to]
    BY <1>3 DEF RecordSend
  <2>2. call[c] = "send" /\ UNCHANGED <<updated, droppedTotal, promDropped>>
    BY <1>3 DEF RecordSend
  <2>3. /\ Standing(Seen)' = Standing(Seen) \cup {c} /\ c \in Standing(Seen)
        /\ Standing(Counted)' = Standing(Counted)
        /\ Standing(Mirrored)' = Standing(Mirrored)
        /\ Standing({"done"})' = Standing({"done"})
    BY <2>1, <2>2, StandingMove
  <2> QED
    BY <1>a, <1>b, <1>d, <2>2, <2>3 DEF Accounted
<1>4. CASE RecordDropped(c)
  <2>1. /\ call[c] = "count" /\ \E to \in {"mirror"} : call' = [call EXCEPT ![c] = to]
        /\ droppedTotal' = droppedTotal + 1 /\ UNCHANGED <<updated, promDropped>>
    BY <1>4 DEF RecordDropped
  <2>2. /\ Standing(Seen)' = Standing(Seen) \cup {c} /\ c \in Standing(Seen)
        /\ Standing(Counted)' = Standing(Counted) \cup {c} /\ c \notin Standing(Counted)
        /\ Standing(Mirrored)' = Standing(Mirrored)
        /\ Standing({"done"})' = Standing({"done"})
    <3>1. /\ Standing(Seen)' = Standing(Seen) \cup {c} /\ c \in Standing(Seen)
          /\ Standing(Counted)' = Standing(Counted) \cup {c}
      BY <2>1, StandingMove
    <3>4. c \notin Standing(Counted)
      BY <2>1 DEF Standing
    <3>2. Standing(Mirrored)' = Standing(Mirrored)
      BY <2>1, StandingMove
    <3>3. Standing({"done"})' = Standing({"done"})
      BY <2>1, StandingMove
    <3> QED
      BY <3>1, <3>2, <3>3, <3>4
  <2>3. Cardinality(Standing(Counted)') = Cardinality(Standing(Counted)) + 1
    BY <1>c, <2>2, FS_AddElement
  <2> QED
    BY <1>a, <1>b, <1>d, <2>1, <2>2, <2>3 DEF Accounted
<1>5. CASE RecordMirror(c)
  <2>1. /\ call[c] = "mirror" /\ \E to \in {"dropped"} : call' = [call EXCEPT ![c] = to]
        /\ promDropped' = promDropped + 1 /\ UNCHANGED <<updated, droppedTotal>>
    BY <1>5 DEF RecordMirror
  <2>2. /\ Standing(Seen)' = Standing(Seen) \cup {c} /\ c \in Standing(Seen)
        /\ Standing(Counted)' = Standing(Counted) \cup {c} /\ c \in Standing(Counted)
        /\ Standing(Mirrored)' = Standing(Mirrored) \cup {c}
        /\ c \notin Standing(Mirrored)
        /\ Standing({"done"})' = Standing({"done"})
    <3>1. Standing(Seen)' = Standing(Seen) \cup {c} /\ c \in Standing(Seen)
      BY <2>1, StandingMove
    <3>2. Standing(Counted)' = Standing(Counted) \cup {c} /\ c \in Standing(Counted)
      BY <2>1, StandingMove
    <3>3. Standing(Mirrored)' = Standing(Mirrored) \cup {c}
      BY <2>1, StandingMove
    <3>5. c \notin Standing(Mirrored)
      BY <2>1 DEF Standing
    <3>4. Standing({"done"})' = Standing({"done"})
      BY <2>1, StandingMove
    <3> QED
      BY <3>1, <3>2, <3>3, <3>4, <3>5
  <2>3. Cardinality(Standing(Mirrored)') = Cardinality(Standing(Mirrored)) + 1
    BY <1>c, <2>2, FS_AddElement
  <2> QED
    BY <1>a, <1>b, <1>d, <2>1, <2>2, <2>3 DEF Accounted
<1> QED
  BY <1>1, <1>2, <1>3, <1>4, <1>5 DEF RecordNext

(* Both counters keep count through every step.                            *)
LEMMA AccountedStep == TypeOK /\ Accounted /\ [Next]_vars => Accounted'
<1> SUFFICES ASSUME TypeOK, Accounted, [Next]_vars PROVE Accounted'
  OBVIOUS
<1>1. CASE UNCHANGED <<producers, global>>
  BY <1>1 DEF Accounted, producers, Standing, Full
<1>2. ASSUME NEW i \in Initers, InitSet(i) PROVE Accounted'
  <2>1. UNCHANGED producers
    BY <1>2, AccountFrame DEF InitNext
  <2>2. CASE global = None
    <3>1. Standing({"idle", "noop"}) = Calls
      BY <2>2 DEF Accounted
    <3>2. Standing({"done"}) = {} /\ global' # None
      BY <1>2, <2>2, <3>1, EngineAssumption DEF InitSet, Standing
    <3> QED
      BY <2>1, <3>2 DEF Accounted, producers, Standing
  <2>3. CASE global # None
    <3>1. UNCHANGED global
      BY <1>2, <2>3 DEF InitSet
    <3> QED
      BY <1>1, <2>1, <3>1
  <2> QED
    BY <2>2, <2>3
<1> QED
  BY <1>1, <1>2, AccountedRecord, AccountFrame, Frame DEF Next, InitNext

(* Nothing is counted before anything is called.                           *)
LEMMA AccountedInit == Init => Accounted
<1> SUFFICES ASSUME Init PROVE Accounted
  OBVIOUS
<1>1. /\ Standing({"idle", "noop"}) = Calls /\ Standing({"done"}) = {}
      /\ Standing({"done", "send", "sent", "count", "mirror", "dropped"}) = {}
      /\ Standing({"mirror", "dropped"}) = {} /\ Standing({"dropped"}) = {}
  BY DEF Init, Standing
<1> QED
  BY <1>1, FS_EmptySet DEF Init, Accounted

(* A sequence without repetition is as long as it has elements.            *)
LEMMA UnrepeatedCount ==
  ASSUME NEW S, NEW seq \in Seq(S), Unrepeated(seq)
  PROVE  IsFiniteSet(Elements(seq)) /\ Cardinality(Elements(seq)) = Len(seq)
<1>1. Len(seq) \in Nat /\ DOMAIN seq = 1 .. Len(seq) /\ seq \in [1 .. Len(seq) -> S]
  BY LenProperties
<1>2. seq \in Bijection(1 .. Len(seq), Elements(seq))
  <2>1. seq \in [1 .. Len(seq) -> Elements(seq)]
    BY <1>1 DEF Elements
  <2>2. \A a, b \in 1 .. Len(seq) : seq[a] = seq[b] => a = b
    BY <1>1 DEF Unrepeated
  <2>3. \A t \in Elements(seq) : \E a \in 1 .. Len(seq) : seq[a] = t
    BY <1>1 DEF Elements
  <2>4. seq \in Injection(1 .. Len(seq), Elements(seq))
    BY <2>1, <2>2 DEF Injection, IsInjective
  <2>5. seq \in Surjection(1 .. Len(seq), Elements(seq))
    BY <2>1, <2>3 DEF Surjection
  <2> QED
    BY <2>4, <2>5 DEF Bijection
<1>3. ExistsBijection(1 .. Len(seq), Elements(seq))
  BY <1>2 DEF ExistsBijection
<1> QED
  BY <1>1, <1>3, FS_CountingElements, FS_NatBijection

(* Two sets that share nothing.                                            *)
LEMMA DisjointCount ==
  ASSUME NEW A, NEW B, IsFiniteSet(A), IsFiniteSet(B), A \cap B = {}
  PROVE  /\ Cardinality(A \cup B) = Cardinality(A) + Cardinality(B)
         /\ Cardinality(A) \in Nat /\ Cardinality(B) \in Nat
<1>1. /\ Cardinality(A \cup B) = Cardinality(A) + Cardinality(B) - Cardinality(A \cap B)
      /\ Cardinality(A \cap B) = 0
  BY FS_Union, FS_EmptySet
<1>2. Cardinality(A) \in Nat /\ Cardinality(B) \in Nat
  BY FS_CardinalityType
<1> QED
  BY <1>1, <1>2

(* Nothing is dropped in silence: whenever no record() is under way, the   *)
(* samples that went through the registry are the accepted ones plus       *)
(* exactly those that tonggeret_dropped_total counts, and both counters    *)
(* agree, whatever the channel did (EngineHandle::record).                 *)
THEOREM DropsCounted == Spec => []DropAccounting
<1>1. TypeOK /\ PipeInv /\ Accounted => DropAccounting
  <2> SUFFICES ASSUME TypeOK, PipeInv, Accounted, Resting, Full
               PROVE  /\ Cardinality(updated) = Len(stored)
                           + Cardinality(Queued \cup refused \cup lost) + droppedTotal
                      /\ promDropped = droppedTotal
    BY DEF DropAccounting
  <2> DEFINE Dropped == Standing({"dropped"})
             Kin == Queued \cup refused \cup lost
  <2>1. Standing({"mirror", "dropped"}) = Dropped
    BY DEF Resting, Standing
  <2>2. updated = Sent \cup Dropped /\ Sent \cap Dropped = {}
    <3>1. Standing({"done"}) = {}
      BY DEF Accounted
    <3> QED
      BY <3>1 DEF Accounted, Resting, Standing, Sent
  <2>3. Sent = Elements(stored) \cup Kin /\ Elements(stored) \cap Kin = {}
    BY DEF PipeInv, OnePlace, Disjoint
  <2>4. /\ IsFiniteSet(updated) /\ IsFiniteSet(Sent) /\ IsFiniteSet(Dropped)
        /\ IsFiniteSet(Elements(stored)) /\ IsFiniteSet(Kin)
    <3>1. IsFiniteSet(updated)
      BY DEF Accounted
    <3> QED
      BY <2>2, <2>3, <3>1, FS_Subset
  <2>5. Cardinality(updated) = Cardinality(Sent) + Cardinality(Dropped)
    BY <2>2, <2>4, DisjointCount
  <2>6. Cardinality(Sent) = Cardinality(Elements(stored)) + Cardinality(Kin)
    BY <2>3, <2>4, DisjointCount
  <2>7. Cardinality(Elements(stored)) = Len(stored)
    BY UnrepeatedCount DEF TypeOK, PipeInv, OnePlace
  <2> QED
    BY <2>1, <2>5, <2>6, <2>7 DEF Accounted
<1> QED
  BY <1>1, AccountedInit, AccountedStep, PipeInvariance, PTL DEF Spec
=============================================================================
