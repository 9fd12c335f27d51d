------------------------------ MODULE Storage -------------------------------
(***************************************************************************)
(* Both tiers under one lifecycle: the pipe of module SamplePipe, which    *)
(* module Engine implements, delivers into the partition that the loops of *)
(* module Compaction empty, while callers shutdown() the engine and the    *)
(* process exits behind one of them.  The k-th row is the k-th sample that *)
(* was stored.                                                             *)
(***************************************************************************)
EXTENDS CompactionProperties

CONSTANTS
  Stoppers,   \* callers of shutdown()
  Slot,       \* the loop whose handle COMPACTION_TASK holds
  Sentinel, Bound

ASSUME StorageAssumption ==
  /\ Slot \in Loops /\ Bound \in Nat \ {0}
  /\ Sentinel \notin Nat

VARIABLES
  queue, stored, discarded, phase,   \* the pipe
  halt,      \* where each shutdown() stands
  before,    \* history: the samples accepted when the first began
  ended,     \* the caller behind whom the process exited
  collided   \* history: two passes met in one file name

pipe == <<queue, stored, discarded, phase>>
life == <<halt, before, ended>>

Pipe == INSTANCE SamplePipe WITH Item <- 1 .. MaxRows

Accepted == (Pipe!Elements(queue \o stored) \cup discarded) \ {Sentinel}
Stopping == \E s \in Stoppers : halt[s] \notin {"idle", "already"}
Aborted == \E s \in Stoppers : halt[s] = "done"

StorageInit ==
  /\ Init /\ Pipe!Init
  /\ halt = [s \in Stoppers |-> "idle"]
  /\ before = {} /\ ended = None /\ collided = FALSE

-----------------------------------------------------------------------------
(* The pipe.  A record() that passed the SHUTDOWN check may send late.     *)
Accept ==
  /\ \E m \in 1 .. MaxRows : m = Cardinality(Accepted) + 1 /\ Pipe!Push(m)
  /\ UNCHANGED <<vars, life>>

Deliver ==
  /\ Pipe!Deliver
  /\ IF stored' = stored THEN UNCHANGED vars ELSE Insert
  /\ UNCHANGED life

WriterEnd ==
  /\ Pipe!End \/ (phase = "ended" /\ Pipe!Close)
  /\ UNCHANGED <<vars, life>>

-----------------------------------------------------------------------------
(* shutdown()                                                              *)

Halt(s, from, to) == halt[s] = from /\ halt' = [halt EXCEPT ![s] = to]

(* The first caller wins the swap; any other returns Ok at once.           *)
ShutdownSwap(s) ==
  /\ Halt(s, "idle", IF Stopping THEN "already" ELSE "send")
  /\ before' = IF Stopping THEN before ELSE Accepted
  /\ UNCHANGED <<vars, pipe, ended>>

(* Retried while the channel is full.                                      *)
ShutdownSend(s) ==
  /\ Halt(s, "send", "join")
  /\ Pipe!Push(Sentinel)
  /\ UNCHANGED <<vars, before, ended>>

(* Mutant: the writer is not joined.                                       *)
ShutdownUnjoined(s) ==
  /\ Halt(s, "join", "done")
  /\ UNCHANGED <<vars, pipe, before, ended>>

(* The writer is joined, then the loop in the slot is aborted.             *)
ShutdownJoin(s) ==
  /\ Halt(s, "join", "done")
  /\ phase = "closed"
  /\ UNCHANGED <<vars, pipe, before, ended>>

(* main() returns once its shutdown() has, whatever still runs.            *)
Exit(s) ==
  /\ halt[s] \in {"already", "done"}
  /\ ended' = s
  /\ UNCHANGED <<vars, pipe, halt, before>>

-----------------------------------------------------------------------------
(* abort() keeps a sleeping loop from its next pass; a pass that runs goes *)
(* on in its blocking thread.  Loops outside the slot are never aborted.   *)
Loop(l) == PassNext(l) /\ (Aborted /\ l = Slot => pc[l] # "sleep")

Meet ==
  \/ \E s \in Seconds : cold[s] \notin {None, cold'[s]}
  \/ \E l \in Loops : out[l] = None /\ out'[l] # None /\ made' = made

StorageNext ==
  /\ ended = None
  /\ \/ Accept
     \/ Deliver
     \/ WriterEnd
     \/ (Tick \/ \E l \in Loops : Loop(l)) /\ UNCHANGED <<pipe, life>>
     \/ \E s \in Stoppers : \/ ShutdownSwap(s) \/ ShutdownSend(s)
                            \/ ShutdownJoin(s) \/ Exit(s)
  /\ collided' = (collided \/ Meet)

StorageSpec ==
  StorageInit /\ [][StorageNext]_<<vars, pipe, life, collided>>

-----------------------------------------------------------------------------
Survives == {stored[r] : r \in hot \cup Published}
InHand == {stored[r] : r \in Moving}

(* What an exit behind shutdown() costs.  Behind the caller that won: of   *)
(* the samples accepted before it, only those whose insert was refused and *)
(* those a pass had in hand, for abort() stops no blocking pass; nothing   *)
(* at all once no pass runs.  Behind a caller that returned at once: also  *)
(* what the writer had not stored yet.  Errors of a pass and two passes    *)
(* that meet in one file name cost their own rows (shutdown,               *)
(* compaction_loop, writer_loop).                                          *)
ExitCost ==
  ended # None /\ failed = {} /\ ~collided =>
    before \ (Survives \cup discarded) \subseteq
      InHand \cup IF halt[ended] = "done" THEN {} ELSE Pipe!Elements(queue)
=============================================================================
