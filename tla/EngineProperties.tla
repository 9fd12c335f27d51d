-------------------------- MODULE EngineProperties --------------------------
(***************************************************************************)
(* What the engine of module Engine keeps true, the abstract pipe it       *)
(* implements, what it eventually does, and a statement of the repository  *)
(* that it does not live up to.                                            *)
(***************************************************************************)
EXTENDS Engine

(* The types of the statics, the channel (never above channel_capacity),   *)
(* the writer's batch (never above batch_rows) and the threads.            *)
TypeOK ==
  /\ global \in Initers \cup {None} /\ stop \in BOOLEAN
  /\ joinSlot \in BOOLEAN /\ slot \in Tasks \cup {None}
  /\ chan \in Seq(Calls \cup {Sentinel}) /\ Len(chan) <= Capacity
  /\ rxOpen \in BOOLEAN /\ lost \subseteq Calls
  /\ writer \in {"none", "failed", "recv", "drain", "flush", "flushLast",
                 "persist", "return", "exited"}
  /\ batch \in Seq(Calls) /\ Len(batch) <= BatchRows
  /\ (writer = "drain" => batch # <<>>)
  /\ stored \in Seq(Calls) /\ refused \subseteq Calls
  /\ synced \in Nat /\ synced <= Len(stored)
  /\ opened \subseteq Initers
  /\ call \in [Calls -> {"idle", "noop", "update", "panicked", "done", "send",
                         "sent", "count", "mirror", "dropped"}]
  /\ updated \subseteq Calls
  /\ droppedTotal \in Nat /\ promDropped \in Nat
  /\ init \in [Initers -> {"idle", "open", "set", "spawn", "store", "compact",
                           "slot", "ok", "err"}]
  /\ spawner \in [Spawners -> {"idle", "slot", "done", "refused"}]
  /\ task \in [Tasks -> {"none", "sleep", "pass", "orphan", "stopped"}]
  /\ halt \in [Stoppers -> {"idle", "notInit", "already", "send", "take",
                            "join", "abort", "persist", "done", "unsynced"}]
  /\ tries \in Nat
  /\ before \subseteq Calls /\ graceful \in BOOLEAN

Unrepeated(seq) == \A j, k \in DOMAIN seq : seq[j] = seq[k] => j = k

(* A sample that record() handed to the channel is in exactly one place    *)
(* afterwards, once: queued, stored, refused by the keyspace or lost with  *)
(* the receiver.  No interleaving of senders, bursts, the sentinel and the *)
(* end of the writer duplicates or forgets one.                            *)
SampleOnce ==
  /\ Unrepeated(stored \o batch \o chan)
  /\ Elements(stored \o batch \o chan) \cap (refused \cup lost) = {}
  /\ refused \cap lost = {}
  /\ Sent = (Elements(stored) \cup Queued \cup refused \cup lost)

Resting == \A c \in Calls : call[c] \notin {"update", "send", "count", "mirror"}

(* Whenever no record() is under way, the samples that went through the    *)
(* registry are the accepted ones plus exactly those that                  *)
(* tonggeret_dropped_total counts, and both drop counters agree.           *)
DropAccounting ==
  Resting /\ Full =>
    /\ Cardinality(updated) =
         Len(stored) + Cardinality(Queued \cup refused \cup lost) + droppedTotal
    /\ promDropped = droppedTotal

(* shutdown() that won the swap has returned Ok.                           *)
Returned(s) == halt[s] \in {"done", "unsynced"}

(* "Flush + join the writer thread": when shutdown() returns, the writer   *)
(* is gone and everything accepted before the swap was written (or its     *)
(* insert was refused).  Only for a writer that could be spawned and a     *)
(* shutdown() that does not overlap init().                                *)
ShutdownFlushes ==
  \A s \in Stoppers :
    Returned(s) /\ Full /\ graceful /\ writer # "failed" =>
      /\ writer = "exited"
      /\ before \subseteq Elements(stored) \cup refused

(* When the final persist succeeds every sample the writer inserted is     *)
(* durable, whatever became of the writer's own persist.                   *)
ShutdownDurable ==
  \A s \in Stoppers :
    halt[s] = "done" /\ Full /\ graceful => synced = Len(stored)

(* The only accepted samples that vanish with the receiver are those of a  *)
(* record() that passed the SHUTDOWN check and sent after the swap, unless *)
(* the writer thread could not be spawned.                                 *)
OnlyStragglersLost ==
  writer # "failed" => (lost # {} => stop) /\ lost \cap before = {}

(* A failed or losing init() leaves no keyspace open, and the installed    *)
(* handle never loses its own.                                             *)
KeyspaceOwner ==
  /\ Full => global \in opened
  /\ \A i \in opened : i = global \/ init[i] = "set"

(* A shutdown() that does not overlap init() leaves no compaction loop of  *)
(* init() running, as long as the application spawned none itself.         *)
InitTaskStops ==
  \A s \in Stoppers :
    /\ Returned(s) /\ graceful
    /\ \A p \in Spawners : spawner[p] \in {"idle", "refused"}
    => \A t \in Tasks : task[t] \notin {"sleep", "pass"}

(* Once shutdown() returned, the keyspace gets no further samples, even    *)
(* from a record() still under way.                                        *)
QuietAfterShutdown ==
  [][(\E s \in Stoppers : Returned(s)) /\ graceful
       => UNCHANGED <<stored, refused>>]_vars

(* The engine is the bounded FIFO of module SamplePipe: what is inside the *)
(* pipe is the batch, the sentinel while the writer still owes its last    *)
(* flush, and the channel.                                                 *)
Owed == IF writer \in {"flushLast", "persist"} THEN <<Sentinel>> ELSE <<>>

PipeQueue == batch \o Owed \o chan
PipePhase == CASE writer \in {"exited", "failed"} -> "closed"
               [] writer = "return" -> "ended"
               [] OTHER -> "open"

Pipe == INSTANCE SamplePipe WITH
  Item <- Calls,
  Bound <- Capacity + BatchRows + 1,
  queue <- PipeQueue,
  discarded <- refused \cup lost,
  phase <- PipePhase

PipeSpec == Pipe!Spec

(* shutdown() returns once its sentinel is in the channel.                 *)
ShutdownReturns ==
  \A s \in Stoppers :
    (halt[s] = "take" /\ Sentinel \in Elements(chan)) ~> Returned(s)

(* No accepted sample waits forever: it is written, refused or, behind the *)
(* sentinel, lost.                                                         *)
SamplesDrain == \A c \in Calls : (c \in Queued) ~> (c \notin Queued)

-----------------------------------------------------------------------------
(* The inductive invariant behind ShutdownFlushes, OnlyStragglersLost and  *)
(* QuietAfterShutdown.                                                     *)

Winner(s) == halt[s] \notin {"idle", "notInit", "already"}
Joined(s) == halt[s] \in {"abort", "persist", "done", "unsynced"}
Ending == writer \in {"flushLast", "persist", "return", "exited"}
Kept == Elements(stored) \cup refused \cup Elements(batch) \cup Elements(chan)

OneShutdown ==
  /\ \A s \in Stoppers : Winner(s) => stop
  /\ \A s, u \in Stoppers : Winner(s) /\ Winner(u) => s = u
  /\ stop => global # None

OneInit ==
  /\ \A i \in Initers : init[i] \in Published => global = i /\ i \in FullInits
  /\ \A i \in Initers : init[i] \in {"idle", "open", "set"} => global # i
  /\ Full => (writer = "none" <=> init[global] = "spawn")
  /\ Full => (writer = "failed" <=> init[global] = "err")
  /\ ~Full => writer = "none"

(* The writer's handle is in WRITER_JOIN from InitStore to ShutdownTake.   *)
HandleStored ==
  /\ graceful /\ stop => \A i \in Initers : init[i] \notin Published
  /\ Full /\ writer \notin {"none", "failed"} /\ init[global] # "store"
       => joinSlot \/ \E s \in Stoppers : halt[s] = "join" \/ Joined(s)
  /\ Full /\ graceful /\ writer # "failed"
       => \A s \in Stoppers : Joined(s) => writer = "exited"

(* No sample accepted before the swap stands behind the sentinel.          *)
SentinelLast ==
  /\ before \subseteq Sent
  /\ ~stop => before = {} /\ ~Ending /\ Sentinel \notin Elements(chan)
  /\ \A j, k \in DOMAIN chan :
       j < k /\ chan[j] = Sentinel => chan[k] \notin before
  /\ Ending => \A k \in DOMAIN chan : chan[k] \notin before

(* The samples that a graceful shutdown() owes to the store are kept.      *)
NothingForgotten ==
  /\ writer \notin {"drain", "flush", "flushLast"} => batch = <<>>
  /\ writer # "failed" => before \subseteq Kept
  /\ writer # "failed" /\ ~stop => Sent \subseteq Kept

Inductive == /\ OneShutdown /\ OneInit /\ HandleStored
             /\ SentinelLast /\ NothingForgotten /\ OnlyStragglersLost

-----------------------------------------------------------------------------
(* The inductive invariant behind SampleOnce, PipeSpec and DropAccounting. *)

Disjoint(A, B) == A \cap B = {}

(* SampleOnce, place by place.                                             *)
OnePlace ==
  /\ Unrepeated(stored) /\ Unrepeated(batch) /\ Unrepeated(chan)
  /\ Disjoint(Elements(stored), Queued \cup refused \cup lost)
  /\ Disjoint(Elements(batch), Elements(chan))
  /\ Disjoint(Queued, refused \cup lost)
  /\ Disjoint(refused, lost)
  /\ Sent = Elements(stored) \cup Queued \cup refused \cup lost

(* The winning shutdown() sends one sentinel, and the writer receives one. *)
SentinelOnce ==
  /\ \A s \in Stoppers : halt[s] = "send" => Sentinel \notin Elements(chan) /\ ~Ending
  /\ Ending => Sentinel \notin Elements(chan)

(* The receiver lives as long as the writer, or its closure; a writer that *)
(* has not started has moved nothing.                                      *)
Receiver ==
  /\ rxOpen <=> writer \notin {"exited", "failed"}
  /\ writer = "none" => stored = <<>> /\ refused = {} /\ lost = {}

PipeInv == OnePlace /\ SentinelOnce /\ Receiver

(* Both drop counters, by where each record() stands.                      *)
Standing(places) == {c \in Calls : call[c] \in places}

Accounted ==
  /\ Standing({"idle", "noop"}) # Calls => global # None
  /\ Full => Standing({"done"}) = {}
  /\ updated = Standing({"done", "send", "sent", "count", "mirror", "dropped"})
  /\ IsFiniteSet(updated)
  /\ droppedTotal = Cardinality(Standing({"mirror", "dropped"}))
  /\ promDropped = Cardinality(Standing({"dropped"}))

-----------------------------------------------------------------------------
(* What the repository says and the code does not do.                      *)

(* engine.rs:240, "retry; never block forever".                            *)
NeverBlocksForever ==
  \A s \in Stoppers : (halt[s] = "send") ~> Returned(s)
=============================================================================
