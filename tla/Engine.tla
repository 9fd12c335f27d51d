------------------------------- MODULE Engine -------------------------------
(***************************************************************************)
(* The ingestion engine of tonggeret: the lock-free hot path (record), the *)
(* bounded channel, the writer thread that drains it into Fjall, and the   *)
(* process-wide lifecycle around them (init, spawn_compaction_task,        *)
(* shutdown).  Every thread that may be inside one of these functions is a *)
(* member of a constant set with a program counter of its own; a step is   *)
(* one access to a shared static, to the channel or to the keyspace.       *)
(***************************************************************************)
EXTENDS Naturals, Sequences, FiniteSets

CONSTANTS
  Calls,      \* the calls of record(); each one carries its own sample
  Initers,    \* the calls of init()
  FullInits,  \* the ones whose config.fjall is Some
  Spawners,   \* the calls of spawn_compaction_task() by the application
  Stoppers,   \* the calls of shutdown()
  Capacity,   \* channel_capacity
  BatchRows,  \* FjallConfig::batch_rows
  Attempts,   \* try_send attempts for the sentinel (100 in the code)
  Sentinel,   \* PipelineMsg::Shutdown
  None        \* an empty slot

ASSUME EngineAssumption ==
  /\ FullInits \subseteq Initers
  /\ Capacity \in Nat \ {0}
  /\ BatchRows \in Nat \ {0}
  /\ Attempts \in Nat \ {0}
  /\ Sentinel \notin Calls
  /\ None \notin Initers \cup Spawners
  /\ Initers \cap Spawners = {}

Tasks == Initers \cup Spawners

VARIABLES
  \* the statics
  global,     \* GLOBAL: the init() call whose handle is installed, or None
  stop,       \* SHUTDOWN
  joinSlot,   \* WRITER_JOIN holds the writer's handle
  slot,       \* COMPACTION_TASK: the spawn whose task it holds, or None
  \* the channel of the installed handle
  chan,       \* messages in the channel
  rxOpen,     \* its receiver is alive
  lost,       \* accepted samples dropped with the receiver
  \* the writer thread and the keyspace it writes to
  writer,     \* its program counter
  batch,      \* the samples collected and not yet inserted
  stored,     \* the samples inserted, in order
  refused,    \* the samples whose insert failed (logged only)
  synced,     \* how many of stored the code has made durable
  opened,     \* the init() calls that hold an open keyspace handle
  \* the threads
  call,       \* program counter of each record()
  updated,    \* samples whose registry update returned
  droppedTotal, \* dropped_total of the handle
  promDropped,  \* tonggeret_dropped_total of the registry
  init,       \* program counter of each init()
  spawner,    \* program counter of each spawn_compaction_task()
  task,       \* state of each spawned compaction task
  halt,       \* program counter of each shutdown()
  tries,      \* sentinel attempts made so far
  \* history: what held when the winning shutdown() swapped SHUTDOWN
  before,     \* the samples accepted by then
  graceful    \* no init() was between publishing the handle and returning

statics   == <<global, stop, joinSlot, slot>>
pipe      == <<chan, rxOpen, lost>>
consumer  == <<writer, batch, stored, refused, synced>>
producers == <<call, updated, droppedTotal, promDropped>>
compactors == <<slot, spawner, task>>
history   == <<before, graceful>>
vars == <<global, stop, joinSlot, pipe, consumer, opened, producers, init,
          compactors, halt, tries, history>>

-----------------------------------------------------------------------------
Elements(seq) == {seq[k] : k \in DOMAIN seq}

Full == global \in FullInits

(* Where an init() stands that has published its handle and not returned.  *)
Published == {"spawn", "store", "compact", "slot"}

Init ==
  /\ global = None /\ stop = FALSE /\ joinSlot = FALSE /\ slot = None
  /\ chan = <<>> /\ rxOpen = TRUE /\ lost = {}
  /\ writer = "none" /\ batch = <<>> /\ stored = <<>> /\ refused = {}
  /\ synced = 0 /\ opened = {}
  /\ call = [c \in Calls |-> "idle"]
  /\ updated = {} /\ droppedTotal = 0 /\ promDropped = 0
  /\ init = [i \in Initers |-> "idle"]
  /\ spawner = [p \in Spawners |-> "idle"]
  /\ task = [t \in Tasks |-> "none"]
  /\ halt = [s \in Stoppers |-> "idle"] /\ tries = 0
  /\ before = {} /\ graceful = TRUE

-----------------------------------------------------------------------------
(* The hot path: global_record() and EngineHandle::record().               *)

outsideRecord == <<statics, rxOpen, lost, consumer, opened, init, spawner,
                   task, halt, tries, history>>

RecordStart(c) ==
  /\ call[c] = "idle"
  /\ call' = [call EXCEPT ![c] = IF global = None \/ stop THEN "noop"
                                 ELSE "update"]
  /\ UNCHANGED <<chan, updated, droppedTotal, promDropped, outsideRecord>>

(* PromRegistry::update() returns, or panics on a label mismatch and takes *)
(* the caller with it before the sample reaches the channel.               *)
RecordUpdate(c) ==
  /\ call[c] = "update"
  /\ \/ /\ updated' = updated \cup {c}
        /\ call' = [call EXCEPT ![c] = IF Full THEN "send" ELSE "done"]
     \/ call' = [call EXCEPT ![c] = "panicked"] /\ UNCHANGED updated
  /\ UNCHANGED <<chan, droppedTotal, promDropped, outsideRecord>>

HasRoomOffByOne == rxOpen /\ Len(chan) <= Capacity

HasRoom == rxOpen /\ Len(chan) < Capacity

(* Mutant: a full channel gives up its oldest message instead.             *)
RecordSendOverwrites(c) ==
  /\ call[c] = "send"
  /\ chan' = Append(IF HasRoom \/ chan = <<>> THEN chan ELSE Tail(chan), c)
  /\ call' = [call EXCEPT ![c] = "sent"]
  /\ UNCHANGED <<updated, droppedTotal, promDropped, outsideRecord>>

(* try_send: never waits; a full or closed channel drops the sample.       *)
RecordSend(c) ==
  /\ call[c] = "send"
  /\ \/ /\ HasRoom
        /\ chan' = Append(chan, c)
        /\ call' = [call EXCEPT ![c] = "sent"]
     \/ /\ ~HasRoom
        /\ call' = [call EXCEPT ![c] = "count"]
        /\ UNCHANGED chan
  /\ UNCHANGED <<updated, droppedTotal, promDropped, outsideRecord>>

(* Mutant: the sample is counted in the registry only.                     *)
RecordDroppedUncounted(c) ==
  /\ call[c] = "count"
  /\ call' = [call EXCEPT ![c] = "mirror"]
  /\ UNCHANGED <<chan, updated, droppedTotal, promDropped, outsideRecord>>

RecordDropped(c) ==
  /\ call[c] = "count"
  /\ droppedTotal' = droppedTotal + 1
  /\ call' = [call EXCEPT ![c] = "mirror"]
  /\ UNCHANGED <<chan, updated, promDropped, outsideRecord>>

RecordMirror(c) ==
  /\ call[c] = "mirror"
  /\ promDropped' = promDropped + 1
  /\ call' = [call EXCEPT ![c] = "dropped"]
  /\ UNCHANGED <<chan, updated, droppedTotal, outsideRecord>>

-----------------------------------------------------------------------------
(* The writer thread: writer_loop() and flush_batch().                     *)

outsideWriter == <<statics, opened, producers, init, spawner, task, halt,
                   tries, history>>

(* blocking_recv: the channel cannot be closed by its senders, the static  *)
(* GLOBAL keeps one for the life of the process.                           *)
WriterRecv ==
  /\ writer = "recv" /\ chan # <<>>
  /\ chan' = Tail(chan)
  /\ IF Head(chan) = Sentinel
       THEN writer' = "persist" /\ UNCHANGED batch
       ELSE writer' = "drain" /\ batch' = <<Head(chan)>>
  /\ UNCHANGED <<rxOpen, lost, stored, refused, synced, outsideWriter>>

(* Mutant: the sentinel ends the burst, not the loop.                      *)
WriterDrainSwallows ==
  /\ writer = "drain" /\ Len(batch) < BatchRows /\ chan # <<>>
  /\ chan' = Tail(chan)
  /\ IF Head(chan) = Sentinel
       THEN writer' = "flush" /\ UNCHANGED batch
       ELSE batch' = Append(batch, Head(chan)) /\ UNCHANGED writer
  /\ UNCHANGED <<rxOpen, lost, stored, refused, synced, outsideWriter>>

WriterDrain ==
  /\ writer = "drain" /\ Len(batch) < BatchRows /\ chan # <<>>
  /\ chan' = Tail(chan)
  /\ IF Head(chan) = Sentinel
       THEN writer' = "flushLast" /\ UNCHANGED batch
       ELSE batch' = Append(batch, Head(chan)) /\ UNCHANGED writer
  /\ UNCHANGED <<rxOpen, lost, stored, refused, synced, outsideWriter>>

(* Mutant: flush only a full batch.                                        *)
WriterDrainedFull ==
  /\ writer = "drain" /\ Len(batch) = BatchRows
  /\ writer' = "flush"
  /\ UNCHANGED <<pipe, batch, stored, refused, synced, outsideWriter>>

WriterDrained ==
  /\ writer = "drain"
  /\ Len(batch) = BatchRows \/ chan = <<>>
  /\ writer' = "flush"
  /\ UNCHANGED <<pipe, batch, stored, refused, synced, outsideWriter>>

AfterFlush == IF writer = "flush" THEN "recv" ELSE "persist"

(* One insert of flush_batch; a failed one is only logged.                 *)
WriterInsert ==
  /\ writer \in {"flush", "flushLast"}
  /\ batch # <<>>
  /\ batch' = Tail(batch)
  /\ \/ stored' = Append(stored, Head(batch)) /\ UNCHANGED refused
     \/ refused' = refused \cup {Head(batch)} /\ UNCHANGED stored
  /\ writer' = IF Len(batch) = 1 THEN AfterFlush ELSE writer
  /\ UNCHANGED <<pipe, synced, outsideWriter>>

(* persist_best_effort: a failure is only logged.                          *)
WriterPersist ==
  /\ writer = "persist"
  /\ synced' \in {synced, Len(stored)}
  /\ writer' = "return"
  /\ UNCHANGED <<pipe, batch, stored, refused, outsideWriter>>

(* Returning drops the receiver, and with it whatever was sent after the   *)
(* sentinel.                                                               *)
WriterExit ==
  /\ writer = "return"
  /\ writer' = "exited"
  /\ rxOpen' = FALSE
  /\ lost' = lost \cup (Elements(chan) \cap Calls)
  /\ chan' = <<>>
  /\ UNCHANGED <<batch, stored, refused, synced, outsideWriter>>

-----------------------------------------------------------------------------
(* init(): open the keyspace, publish the handle, start the threads.       *)

outsideInit == <<stop, producers, consumer, halt, tries, history, spawner>>

(* config.validate() or EngineHandle::new() may refuse.                    *)
InitStart(i) ==
  /\ init[i] = "idle"
  /\ \E next \in {IF i \in FullInits THEN "open" ELSE "set", "err"} :
       init' = [init EXCEPT ![i] = next]
  /\ UNCHANGED <<statics, pipe, opened, task, outsideInit>>

InitOpen(i) ==
  /\ init[i] = "open"
  /\ \/ opened' = opened \cup {i} /\ init' = [init EXCEPT ![i] = "set"]
     \/ init' = [init EXCEPT ![i] = "err"] /\ UNCHANGED opened
  /\ UNCHANGED <<statics, pipe, task, outsideInit>>

(* Mutant: the loser leaks its keyspace.                                   *)
InitSetLeaks(i) ==
  /\ init[i] = "set"
  /\ init' = [init EXCEPT ![i] = IF global # None THEN "err"
                                 ELSE IF i \in FullInits THEN "spawn" ELSE "ok"]
  /\ global' = IF global = None THEN i ELSE global
  /\ UNCHANGED <<opened, joinSlot, slot, pipe, task, outsideInit>>

(* GLOBAL.set: the loser's handle, and its keyspace, are dropped.          *)
InitSet(i) ==
  /\ init[i] = "set"
  /\ IF global = None
       THEN /\ global' = i
            /\ init' = [init EXCEPT ![i] = IF i \in FullInits THEN "spawn"
                                           ELSE "ok"]
            /\ UNCHANGED opened
       ELSE /\ init' = [init EXCEPT ![i] = "err"]
            /\ opened' = opened \ {i}
            /\ UNCHANGED global
  /\ UNCHANGED <<joinSlot, slot, pipe, task, outsideInit>>

(* A failed spawn drops the closure, and with it the receiver.             *)
InitSpawn(i) ==
  /\ init[i] = "spawn"
  /\ \/ /\ writer' = "recv"
        /\ init' = [init EXCEPT ![i] = "store"]
        /\ UNCHANGED pipe
     \/ /\ writer' = "failed"
        /\ init' = [init EXCEPT ![i] = "err"]
        /\ rxOpen' = FALSE
        /\ lost' = lost \cup (Elements(chan) \cap Calls)
        /\ chan' = <<>>
  /\ UNCHANGED <<statics, opened, task, stop, producers, batch, stored,
                 refused, synced, halt, tries, history, spawner>>

InitStore(i) ==
  /\ init[i] = "store"
  /\ joinSlot' = TRUE
  /\ init' = [init EXCEPT ![i] = "compact"]
  /\ UNCHANGED <<global, slot, pipe, opened, task, outsideInit>>

(* try_spawn_compaction: nothing when compaction is disabled or no runtime *)
(* is running.                                                             *)
InitCompact(i) ==
  /\ init[i] = "compact"
  /\ \/ task' = [task EXCEPT ![i] = "sleep"]
        /\ init' = [init EXCEPT ![i] = "slot"]
     \/ init' = [init EXCEPT ![i] = "ok"] /\ UNCHANGED task
  /\ UNCHANGED <<statics, pipe, opened, outsideInit>>

(* replace() drops the previous JoinHandle, which detaches its task.       *)
InitSlot(i) ==
  /\ init[i] = "slot"
  /\ slot' = i
  /\ init' = [init EXCEPT ![i] = "ok"]
  /\ UNCHANGED <<global, joinSlot, pipe, opened, task, outsideInit>>

-----------------------------------------------------------------------------
(* spawn_compaction_task() by the application, and the tasks it starts.    *)

outsideTasks == <<global, stop, joinSlot, pipe, consumer, opened, producers,
                  init, halt, tries, history>>

SpawnStart(p) ==
  /\ spawner[p] = "idle"
  /\ \/ /\ Full
        /\ task' = [task EXCEPT ![p] = "sleep"]
        /\ spawner' = [spawner EXCEPT ![p] = "slot"]
     \/ spawner' = [spawner EXCEPT ![p] = "refused"] /\ UNCHANGED task
  /\ UNCHANGED <<slot, outsideTasks>>

SpawnSlot(p) ==
  /\ spawner[p] = "slot"
  /\ slot' = p
  /\ spawner' = [spawner EXCEPT ![p] = "done"]
  /\ UNCHANGED <<task, outsideTasks>>

(* The interval elapsed: spawn_blocking starts a pass.                     *)
PassStart(t) ==
  /\ task[t] = "sleep"
  /\ task' = [task EXCEPT ![t] = "pass"]
  /\ UNCHANGED <<slot, spawner, outsideTasks>>

(* A blocking pass outlives the abort of the task that awaits it.          *)
PassEnd(t) ==
  /\ task[t] \in {"pass", "orphan"}
  /\ task' = [task EXCEPT ![t] = IF task[t] = "pass" THEN "sleep"
                                 ELSE "stopped"]
  /\ UNCHANGED <<slot, spawner, outsideTasks>>

-----------------------------------------------------------------------------
(* shutdown().                                                             *)

outsideHalt == <<global, pipe, batch, stored, refused, writer, opened,
                 producers, init, spawner>>

Queued == Elements(batch) \cup (Elements(chan) \cap Calls)
Sent == {c \in Calls : call[c] = "sent"}

ShutdownBegin(s) ==
  /\ halt[s] = "idle"
  /\ \/ /\ global = None
        /\ halt' = [halt EXCEPT ![s] = "notInit"]
        /\ UNCHANGED <<stop, history>>
     \/ /\ global # None /\ stop
        /\ halt' = [halt EXCEPT ![s] = "already"]
        /\ UNCHANGED <<stop, history>>
     \/ /\ global # None /\ ~stop
        /\ stop' = TRUE
        /\ halt' = [halt EXCEPT ![s] = IF Full THEN "send" ELSE "take"]
        /\ before' = Sent
        /\ graceful' = \A i \in Initers : init[i] \notin Published
  /\ UNCHANGED <<joinSlot, slot, synced, task, tries, outsideHalt>>

(* Mutant: the sentinel overtakes the samples.                             *)
ShutdownSendFirst(s) ==
  /\ halt[s] = "send"
  /\ \/ HasRoom /\ chan' = <<Sentinel>> \o chan
     \/ ~rxOpen /\ UNCHANGED chan
  /\ halt' = [halt EXCEPT ![s] = "take"]
  /\ UNCHANGED <<statics, rxOpen, lost, consumer, opened, producers, init,
                 spawner, task, tries, history>>

(* The sentinel is delivered, or there is no receiver left to want it.     *)
ShutdownSend(s) ==
  /\ halt[s] = "send"
  /\ \/ HasRoom /\ chan' = Append(chan, Sentinel)
     \/ ~rxOpen /\ UNCHANGED chan
  /\ halt' = [halt EXCEPT ![s] = "take"]
  /\ UNCHANGED <<statics, rxOpen, lost, consumer, opened, producers, init,
                 spawner, task, tries, history>>

(* The channel is full: sleep 10 ms and retry, Attempts times at most.     *)
ShutdownRetry(s) ==
  /\ halt[s] = "send"
  /\ rxOpen /\ Len(chan) = Capacity
  /\ tries' = tries + 1
  /\ halt' = [halt EXCEPT ![s] = IF tries + 1 = Attempts THEN "take"
                                 ELSE "send"]
  /\ UNCHANGED <<statics, synced, task, history, outsideHalt>>

(* Mutant: the handle is dropped, not joined.                              *)
ShutdownTakeDetaches(s) ==
  /\ halt[s] = "take"
  /\ joinSlot' = FALSE
  /\ halt' = [halt EXCEPT ![s] = "abort"]
  /\ UNCHANGED <<stop, slot, synced, task, tries, history, outsideHalt>>

ShutdownTake(s) ==
  /\ halt[s] = "take"
  /\ joinSlot' = FALSE
  /\ halt' = [halt EXCEPT ![s] = IF joinSlot THEN "join" ELSE "abort"]
  /\ UNCHANGED <<stop, slot, synced, task, tries, history, outsideHalt>>

ShutdownJoin(s) ==
  /\ halt[s] = "join"
  /\ writer = "exited"
  /\ halt' = [halt EXCEPT ![s] = "abort"]
  /\ UNCHANGED <<stop, joinSlot, slot, synced, task, tries, history,
                 outsideHalt>>

(* Mutant: the task's handle is dropped without abort().                   *)
ShutdownAbortDetaches(s) ==
  /\ halt[s] = "abort"
  /\ slot' = None
  /\ halt' = [halt EXCEPT ![s] = IF Full THEN "persist" ELSE "done"]
  /\ UNCHANGED <<task, stop, joinSlot, synced, tries, history, outsideHalt>>

(* abort() ends a sleeping task and orphans the pass of a working one.     *)
ShutdownAbort(s) ==
  /\ halt[s] = "abort"
  /\ slot' = None
  /\ task' = [t \in Tasks |->
                IF t # slot THEN task[t]
                ELSE IF task[t] = "pass" THEN "orphan" ELSE "stopped"]
  /\ halt' = [halt EXCEPT ![s] = IF Full THEN "persist" ELSE "done"]
  /\ UNCHANGED <<stop, joinSlot, synced, tries, history, outsideHalt>>

(* Mutant: no barrier of its own, the writer has persisted already.        *)
ShutdownPersistSkipped(s) ==
  /\ halt[s] = "persist"
  /\ halt' = [halt EXCEPT ![s] = "done"]
  /\ UNCHANGED <<synced, statics, task, tries, history, outsideHalt>>

(* The final barrier; its failure is logged and shutdown() still is Ok.    *)
ShutdownPersist(s) ==
  /\ halt[s] = "persist"
  /\ \/ synced' = Len(stored) /\ halt' = [halt EXCEPT ![s] = "done"]
     \/ halt' = [halt EXCEPT ![s] = "unsynced"] /\ UNCHANGED synced
  /\ UNCHANGED <<statics, task, tries, history, outsideHalt>>

-----------------------------------------------------------------------------
RecordNext(c) == \/ RecordUpdate(c) \/ RecordSend(c) \/ RecordDropped(c)
                 \/ RecordMirror(c)
WriterNext == \/ WriterRecv \/ WriterDrain \/ WriterDrained \/ WriterInsert
              \/ WriterPersist \/ WriterExit
InitNext(i) == \/ InitOpen(i) \/ InitSet(i) \/ InitSpawn(i) \/ InitStore(i)
               \/ InitCompact(i) \/ InitSlot(i)
ShutdownNext(s) == \/ ShutdownSend(s) \/ ShutdownRetry(s) \/ ShutdownTake(s)
                   \/ ShutdownJoin(s) \/ ShutdownAbort(s) \/ ShutdownPersist(s)

Next ==
  \/ \E c \in Calls : RecordStart(c) \/ RecordNext(c)
  \/ WriterNext
  \/ \E i \in Initers : InitStart(i) \/ InitNext(i)
  \/ \E p \in Spawners : SpawnStart(p) \/ SpawnSlot(p)
  \/ \E t \in Tasks : PassStart(t) \/ PassEnd(t)
  \/ \E s \in Stoppers : ShutdownBegin(s) \/ ShutdownNext(s)

Spec == Init /\ [][Next]_vars

(* The application decides whether and when a function is called; a thread *)
(* that is inside one goes on, and so does the writer.                     *)
Fairness ==
  /\ \A c \in Calls : WF_vars(RecordNext(c))
  /\ WF_vars(WriterNext)
  /\ \A i \in Initers : WF_vars(InitNext(i))
  /\ \A s \in Stoppers : WF_vars(ShutdownNext(s))

FairSpec == Spec /\ Fairness

=============================================================================
