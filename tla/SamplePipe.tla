----------------------------- MODULE SamplePipe -----------------------------
(***************************************************************************)
(* What the Fjall ingestion path promises, without its threads: a bounded  *)
(* FIFO between the hot path and the store.  A sample that was accepted    *)
(* leaves the pipe once, in the order of acceptance, into the store or     *)
(* into the set of discarded samples; the sentinel of shutdown() travels   *)
(* in the same order, and only what stands behind it when it comes out is  *)
(* given up wholesale.  Module Engine is shown to implement this module.   *)
(***************************************************************************)
EXTENDS Naturals, Sequences

CONSTANTS
  Item,       \* the samples
  Sentinel,   \* PipelineMsg::Shutdown
  Bound       \* the most messages that are ever inside the pipe

VARIABLES
  queue,      \* messages accepted and not yet out
  stored,     \* samples handed to the store, in order
  discarded,  \* accepted samples that will never be stored
  phase       \* "open", "ended" (the sentinel came out), "closed"

vars == <<queue, stored, discarded, phase>>

Elements(seq) == {seq[i] : i \in DOMAIN seq}

TypeOK ==
  /\ queue \in Seq(Item \cup {Sentinel})
  /\ Len(queue) <= Bound
  /\ stored \in Seq(Item)
  /\ discarded \subseteq Item
  /\ phase \in {"open", "ended", "closed"}

Init ==
  /\ queue = <<>>
  /\ stored = <<>>
  /\ discarded = {}
  /\ phase = "open"

(* No message enters twice, and nothing enters a closed pipe.              *)
Push(m) ==
  /\ phase = "open" \/ (phase = "ended" /\ m # Sentinel)
  /\ Len(queue) < Bound
  /\ m \notin Elements(queue) \cup Elements(stored) \cup discarded
  /\ queue' = Append(queue, m)
  /\ UNCHANGED <<stored, discarded, phase>>

(* The oldest sample reaches the store, or the store refuses it.           *)
Deliver ==
  /\ phase = "open"
  /\ queue # <<>>
  /\ Head(queue) # Sentinel
  /\ queue' = Tail(queue)
  /\ \/ stored' = Append(stored, Head(queue)) /\ UNCHANGED discarded
     \/ discarded' = discarded \cup {Head(queue)} /\ UNCHANGED stored
  /\ UNCHANGED phase

(* The sentinel comes out: everything accepted before it already has.      *)
End ==
  /\ phase = "open"
  /\ queue # <<>>
  /\ Head(queue) = Sentinel
  /\ queue' = Tail(queue)
  /\ phase' = "ended"
  /\ UNCHANGED <<stored, discarded>>

(* The pipe is given up with what is still inside: after the sentinel, or  *)
(* before it delivered anything at all (its consumer never started).       *)
Close ==
  /\ \/ phase = "ended"
     \/ phase = "open" /\ stored = <<>> /\ discarded = {}
  /\ phase' = "closed"
  /\ discarded' = discarded \cup (Elements(queue) \ {Sentinel})
  /\ queue' = <<>>
  /\ UNCHANGED stored

Next ==
  \/ \E m \in Item \cup {Sentinel} : Push(m)
  \/ Deliver
  \/ End
  \/ Close

Spec == Init /\ [][Next]_vars

=============================================================================
