------------------------------ MODULE Requests ------------------------------
(***************************************************************************)
(* The HTTP middleware of both frameworks around one visitor tracker.  A   *)
(* request passes the visitor layer, which observes its visit, waits for   *)
(* the inner service, and is recorded by the tracking layer when that      *)
(* returns.  Other visits come from direct calls of observe_visitor().     *)
(* Meanwhile the application may shutdown() the engine.                    *)
(***************************************************************************)
EXTENDS Visitors, Sequences

CONSTANTS
  Axum, Actix,  \* the requests, by framework
  Shapes,       \* what requests look like: headers and connection
  Blank,        \* an empty entry of X-Forwarded-For
  Digest        \* the hash of each visitor key

Requests == Axum \cup Actix

ASSUME RequestsAssumption ==
  /\ Requests \subseteq Visits /\ Axum \cap Actix = {}
  /\ None \notin Codes
  /\ \A s \in Shapes :
       s.country \in Seq(Codes \cup {Junk, None}) /\ Len(s.country) = 3

VARIABLES
  shape,    \* what each request looks like
  stage,    \* where it stands
  counted,  \* the requests in http_requests_total
  timed     \* the requests in http_request_duration_ms

web == <<shape, stage, counted, timed>>

(* The first of the CDN's country headers that holds a country code.       *)
(* Mutant: the first header that is there decides.                         *)
ParseRegionPresent(country) ==
  LET present == {i \in DOMAIN country : country[i] # None}
      first == CHOOSE i \in present : \A j \in present : i <= j
  IN IF present = {} \/ country[first] \notin Codes THEN Unknown
     ELSE country[first]

ParseRegion(country) ==
  LET valid == {i \in DOMAIN country : country[i] \in Codes}
  IN IF valid = {} THEN Unknown
     ELSE country[CHOOSE i \in valid : \A j \in valid : i <= j]

(* The first entry of X-Forwarded-For, else the peer, with the user agent. *)
VisitorKey(forwarded, peer, agent) ==
  <<IF forwarded \notin {None, Blank} THEN forwarded ELSE peer, agent>>

(* Axum takes the peer with its port; Actix-web the address that           *)
(* realip_remote_addr() finds in the proxies' headers, or the peer without.*)
AxumVisit(s) ==
  [hash |-> Digest[VisitorKey(s.forwarded, <<s.address, s.port>>, s.agent)],
   region |-> ParseRegion(s.country)]
ActixVisit(s) ==
  [hash |-> Digest[VisitorKey(s.forwarded, <<s.real>>, s.agent)],
   region |-> ParseRegion(s.country)]

ASSUME DigestAssumption ==
  \A s \in Shapes : {AxumVisit(s).hash, ActixVisit(s).hash} \subseteq Hash

WebInit ==
  /\ Init
  /\ shape \in [Requests -> Shapes]
  /\ \E direct \in [Visits \ Requests -> Arrivals] :
       visit = [v \in Visits |->
                  CASE v \in Axum -> AxumVisit(shape[v])
                    [] v \in Actix -> ActixVisit(shape[v])
                    [] OTHER -> direct[v]]
  /\ stage = [q \in Requests |-> "service"]
  /\ counted = {} /\ timed = {}

-----------------------------------------------------------------------------
(* track() and TonggeretService::call().                                   *)

Step(q, from, to) == stage[q] = from /\ stage' = [stage EXCEPT ![q] = to]

(* The inner service runs once the visit is observed.                      *)
Return(q) ==
  /\ pc[q] \in {"folded", "missed"}
  /\ Step(q, "service", "count")
  /\ UNCHANGED <<counted, timed>>

(* That of Actix-web may return Err: recorded all the same, under its own  *)
(* status.  Mutant: an Err is passed on unrecorded.                        *)
ErrPassed(q) ==
  /\ q \in Actix /\ pc[q] \in {"folded", "missed"}
  /\ Step(q, "service", "done")
  /\ UNCHANGED <<counted, timed>>

Err(q) == q \in Actix /\ Return(q)

(* A client that goes away, or a handler that panics, drops the future of  *)
(* the layer with it.                                                      *)
Drop(q) ==
  /\ pc[q] \in {"folded", "missed"}
  /\ Step(q, "service", "dropped")
  /\ UNCHANGED <<counted, timed>>

Count(q) ==
  /\ Step(q, "count", "time")
  /\ counted' = IF engine = "on" THEN counted \cup {q} ELSE counted
  /\ UNCHANGED timed

Time(q) ==
  /\ Step(q, "time", "done")
  /\ timed' = IF engine = "on" THEN timed \cup {q} ELSE timed
  /\ UNCHANGED counted

Track(q) ==
  /\ Return(q) \/ Err(q) \/ Drop(q) \/ Count(q) \/ Time(q)
  /\ UNCHANGED <<vars, shape>>

-----------------------------------------------------------------------------
(* shutdown() silences every record from then on.                          *)
EngineShutdown ==
  /\ engine = "on" /\ engine' = "down"
  /\ UNCHANGED <<sketches, lock, poisoned, total, gauge, pc, visit, clash,
                 todo, value, web>>

Next ==
  \/ \E v \in Visits : Observe(v) /\ UNCHANGED web
  \/ \E t \in Tasks : Snapshot(t) /\ UNCHANGED web
  \/ \E q \in Requests : Track(q)
  \/ EngineShutdown

Spec == WebInit /\ [][Next]_<<vars, web>>

(* Threads run on.  A snapshot that keeps missing the lock owes it to      *)
(* another that has it, so the tasks together are never starved.  Clients, *)
(* handlers and the application may stop.                                  *)
FairSpec ==
  /\ Spec
  /\ \A v \in Visits : WF_vars(Observe(v) /\ UNCHANGED web)
  /\ WF_vars(\E t \in Tasks : Snapshot(t) /\ UNCHANGED web)
=============================================================================
