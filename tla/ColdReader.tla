----------------------------- MODULE ColdReader -----------------------------
(***************************************************************************)
(* The route that serves the newest cold export (middleware/axum.rs), and  *)
(* a client that collects the exports by polling it while passes publish   *)
(* new ones.  The directory may be listed in part or not at all, and a     *)
(* download may break off or die with the process that serves it.          *)
(***************************************************************************)
EXTENDS CompactionProperties

CONSTANT Period   \* most ticks between two polls that reach the newest export

ASSUME ColdReaderAssumption == Period \in Nat \ {0}

VARIABLES
  asked,   \* the request in flight: the name serve_latest() resolved, and ...
           \* ... the time from which the client, once served, is up to date
  polled,  \* the time from which it is up to date so far
  got      \* the rows of the files it has read

reader == <<asked, polled, got>>

Names == {s \in Seconds : cold[s] # None}

(* Mutant: names are compared the other way round.                         *)
Oldest == CHOOSE s \in Names : \A t \in Names : s <= t

(* latest_cold_file(): stamps sort as the seconds they stand for, and no   *)
(* temporary name passes the filter.                                       *)
Newest == CHOOSE s \in Names : \A t \in Names : t <= s

ReaderInit == Init /\ asked = None /\ polled = 0 /\ got = {}

(* serve_latest(): 404 while there is no export.  A listing that breaks off*)
(* finds any name the newest, or none, and brings nobody up to date.       *)
Resolve ==
  /\ asked = None
  /\ \/ /\ asked' = IF Names = {} THEN None
                   ELSE [name |-> Newest, since |-> now]
        /\ polled' = IF Names = {} THEN now ELSE polled
     \/ /\ \E s \in Names : asked' = [name |-> s, since |-> polled]
        /\ UNCHANGED polled
  /\ UNCHANGED <<vars, got>>

(* ServeFile opens the name later, and reads what is there by then.        *)
Serve ==
  /\ asked # None
  /\ got' = IF cold[asked.name] \in whole THEN got \cup body[cold[asked.name]]
            ELSE got
  /\ polled' = asked.since
  /\ asked' = None
  /\ UNCHANGED vars

(* The file cannot be opened, or the download breaks off.                  *)
Fail == asked # None /\ asked' = None /\ UNCHANGED <<vars, polled, got>>

(* In every period the client is answered once, to the end and from a full *)
(* listing; what else it tries may fail.                                   *)
Due == now = polled + Period

ReaderNext ==
  \/ /\ \/ Tick /\ ~Due
        \/ Insert
        \/ \E l \in Loops : PassNext(l)
     /\ UNCHANGED reader
  \/ Crash /\ asked' = None /\ UNCHANGED <<polled, got>>
  \/ Resolve
  \/ Serve
  \/ Fail

ReaderSpec == ReaderInit /\ [][ReaderNext]_<<vars, reader>>

-----------------------------------------------------------------------------
(* Only the newest export can be downloaded, yet a client that is answered *)
(* more often than compaction_interval, each time from a full listing and  *)
(* to the end, has the rows of every export that was overtaken: a pass     *)
(* begins an interval after the last one ended or died, so that no two     *)
(* exports fall between two answers, whatever listings and downloads fail  *)
(* and whenever the process dies in between (latest_cold_file,             *)
(* serve_latest, compaction_loop, finalize_export).                        *)
PollerMissesNothing ==
  Period < Interval =>
    \A s \in Names :
      (\E t \in Names : s < t) => body[cold[s]] \subseteq got
=============================================================================
