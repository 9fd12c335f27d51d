------------------------ MODULE RequestsProperties --------------------------
(***************************************************************************)
(* What the tracker promises about its sketches and gauges, and what the   *)
(* series of the middleware promise together.                              *)
(***************************************************************************)
EXTENDS Requests

(* Every variable holds a value of its kind, and whoever is inside the     *)
(* critical section holds the lock.                                        *)
TypeOK ==
  /\ Held \subseteq Regions
  /\ sketches \in [Held -> Sketch]
  /\ lock \in Visits \cup Tasks \cup {None}
  /\ poisoned \in BOOLEAN /\ engine \in {"on", "down"}
  /\ total \in [Regions -> SUBSET Visits]
  /\ gauge \in [Regions -> Sketch \cup {None}]
  /\ pc \in [Visits \cup Tasks -> {"idle", "lock", "fold", "folded", "missed",
                                   "export", "panicked"}]
  /\ visit \in [Visits -> [hash : Hash, region : Regions \cup {Junk}]]
  /\ clash \in {"none", "labels", "kind"}
  /\ todo \in [Tasks -> SUBSET Held]
  /\ value \in [Tasks -> [region : Regions, sketch : Sketch] \cup {None}]
  /\ shape \in [Requests -> Shapes]
  /\ stage \in [Requests -> {"service", "count", "time", "done", "dropped"}]
  /\ counted \subseteq Requests /\ timed \subseteq Requests
  /\ \A x \in Visits \cup Tasks : pc[x] \in {"fold", "export"} <=> lock = x

(* The visits whose observe() returned true.                               *)
Folded == {v \in Visits : pc[v] = "folded"}
HashesOf(V) == {visit[v].hash : v \in V}

(* Each sketch is the sketch of exactly the visits it should stand for,    *)
(* whatever their order, repetitions and interleaving: a region that got a *)
(* sketch of its own has all its visits there, a region that met the cap   *)
(* has all of them in "other" (Hll::add_hash, VisitorsTracker::observe).   *)
SketchesExact ==
  \A r \in Held :
    sketches[r] = SketchOf(HashesOf(
      {v \in Folded : \/ Region(v) = r
                      \/ r = Other /\ Region(v) \notin Held}))

(* No folded visit is outside the sketches that are held, and the map is   *)
(* bounded: at most max_regions regions besides "other".                   *)
RegionsCapped ==
  /\ Cardinality(Held \ {Other}) <= MaxRegions
  /\ \A v \in Folded : Region(v) \in Held \/ Other \in Held

(* The sketch t has folded in whatever s has.                              *)
Below(s, t) == \A i \in Register : s[i] <= t[i]

(* No snapshot replaces the export of a region by that of an older sketch, *)
(* however many run at once: the lock is held across estimate() and        *)
(* record_gauge().  This orders the sketches, not the estimates: estimate()*)
(* may fall where it goes over from linear counting to the raw estimate.   *)
GaugeNeverStale ==
  [][\A r \in Regions :
       gauge[r] # None => gauge'[r] # None /\ Below(gauge[r], gauge'[r])]_vars

(* Once the visits are over, every region's gauge shows its sketch for     *)
(* good: no export is lost to contention for ever.  Only a snapshot that   *)
(* panicked inside record_gauge() ends the exports, by poisoning the lock, *)
(* an engine that is not on, or a metric of another kind under the gauge's *)
(* name.                                                                   *)
GaugesCatchUp ==
  <>[](\/ poisoned \/ engine # "on" \/ clash = "kind"
       \/ \A r \in Held : gauge[r] = sketches[r])

-----------------------------------------------------------------------------
(* "Every visit" is in visitors_total once, whether or not its sketch took *)
(* it, and that of a request under the first code the CDN's headers hold:  *)
(* junk in an earlier header does not hide it (observe, parse_region,      *)
(* track_visitors).                                                        *)
FirstCode(country, r) ==
  \E i \in 1 .. 4 :
    /\ \A j \in 1 .. i - 1 : country[j] \notin Codes
    /\ IF i = 4 THEN r = Unknown ELSE country[i] \in Codes /\ country[i] = r

VisitsByCountry ==
  /\ engine = "on" =>
       \A v \in Visits : pc[v] # "idle" =>
         Cardinality({r \in Regions : v \in total[r]}) = 1
  /\ \A r \in Regions, q \in Requests :
       q \in total[r] => FirstCode(shape[q].country, r)

(* The series of the middleware go together: no duration without its       *)
(* request, no request without its visit, which is counted before the      *)
(* inner service runs; and no answer that the application gave, Ok or Err, *)
(* is missing from any, unless it straddles shutdown() (track,             *)
(* TonggeretService::call, track_visitors).                                *)
SeriesAgree ==
  /\ timed \subseteq counted
  /\ counted \subseteq UNION {total[r] : r \in Regions}
  /\ \A q \in Requests : stage[q] = "done" /\ engine = "on" => q \in timed
=============================================================================
