------------------------------ MODULE Batcher -------------------------------
(***************************************************************************)
(* The batcher of internal/metrics/batcher.go with the Distribution        *)
(* metrics of model.go: metrics with the same name, tags and host are      *)
(* joined into one series until the batch is sent.  The batcher keeps      *)
(* pointers: a metric that is joined adds its point to the object of the   *)
(* first metric of the series.                                             *)
(*                                                                         *)
(* A string is a sequence of atoms, the parts between its colons, so that  *)
(* getTagKey, which joins the sorted tags with colons, is what it is in    *)
(* the code: a concatenation that may forget where a tag ends.  Atoms are  *)
(* numbers, and the order of strings is the order of sequences.  No tag is *)
(* the empty string, and no part of a key holds the ")-(" that stands      *)
(* between its parts in the code.                                          *)
(*                                                                         *)
(* The n-th metric carries one point, n (AddDistributionMetric makes a     *)
(* metric of each value), and is the n-th object.                          *)
(***************************************************************************)
EXTENDS Naturals, Sequences, FiniteSets, SequencesExt

CONSTANTS
  Names,       \* names of metrics
  TagLists,    \* tag lists: sequences of tags, a tag a sequence of atoms
  Hosts,       \* hosts; NoHost for a nil pointer
  NoHost,
  MaxMetrics   \* bound of the model: metrics that are added

ASSUME BatcherAssumption == NoHost \notin Hosts /\ MaxMetrics \in Nat

VARIABLES
  arrivals,  \* history: the metrics added, with their name, tags and host
  values,    \* the field Values of each object
  metrics,   \* the batcher's map from keys to objects
  gone       \* points of batches that have been sent or given up

vars == <<arrivals, values, metrics, gone>>

Distribution == [name : Names, tags : TagLists, host : Hosts \cup {NoHost}]

-----------------------------------------------------------------------------
(* sort.Strings: the arrangement of the tags in the order of Go's strings. *)
Before(s, t) ==
  \E i \in 1 .. Len(t) :
    /\ \A j \in 1 .. i - 1 : j <= Len(s) /\ s[j] = t[j]
    /\ i > Len(s) \/ s[i] < t[i]

Shuffles(n) == {p \in [1 .. n -> 1 .. n] : IsInjective(p)}

Arrangements(tags) ==
  {[i \in 1 .. Len(tags) |-> tags[p[i]]] : p \in Shuffles(Len(tags))}

InOrder(tags) == \A i, j \in 1 .. Len(tags) : i < j => ~Before(tags[j], tags[i])

Sorted(tags) == CHOOSE t \in Arrangements(tags) : InOrder(t)

(* getTagKey, and a variant that forgets to sort.                          *)
UnsortedTagKey(tags) == FlattenSeq(tags)
getTagKey(tags) == FlattenSeq(Sorted(tags))

(* getStringKey of ToBatchKey: the host is part of the key if there is one.*)
(* The tuple stands for the formatted string, whose parts can be told      *)
(* apart; within the part of the tags they cannot.                         *)
getStringKey(d) ==
  IF d.host = NoHost THEN <<d.name, getTagKey(d.tags)>>
                     ELSE <<d.name, getTagKey(d.tags), d.host>>

(* ToAPIMetrics: one API metric for each object in the map, with the tags  *)
(* of the first metric of the series.                                      *)
ToAPIMetric(object) ==
  [metric |-> arrivals[object].name, tags |-> arrivals[object].tags,
   host |-> arrivals[object].host, points |-> values[object]]

ToAPIMetrics == {ToAPIMetric(metrics[key]) : key \in DOMAIN metrics}

-----------------------------------------------------------------------------
(* MakeBatcher: an empty map. *)
MakeBatcher == <<>>

Init == arrivals = <<>> /\ values = <<>> /\ metrics = MakeBatcher /\ gone = {}

(* AddMetric: join the metric to an existing one with its key, or keep it. *)
Join(points, point) == Append(points, point)

AddMetric(d) ==
  LET n   == Len(arrivals) + 1
      key == getStringKey(d)
  IN  /\ n <= MaxMetrics
      /\ arrivals' = Append(arrivals, d)
      /\ IF key \in DOMAIN metrics
           THEN /\ values' = Append([values EXCEPT ![metrics[key]] = Join(@, n)], <<n>>)
                /\ UNCHANGED metrics
           ELSE /\ values' = Append(values, <<n>>)
                /\ metrics' = [k \in DOMAIN metrics \cup {key} |->
                                 IF k = key THEN n ELSE metrics[k]]
      /\ UNCHANGED gone

(* sendMetricsBatch with a batch that is not empty: a new batcher takes    *)
(* over when the batch was sent or is given up.  A batch that is to be     *)
(* retried comes back as it was, which is no step.                         *)
SendMetricsBatch ==
  /\ ToAPIMetrics # {}
  /\ gone' = gone \cup UNION {ToSet(series.points) : series \in ToAPIMetrics}
  /\ metrics' = MakeBatcher
  /\ UNCHANGED <<arrivals, values>>

Done == Len(arrivals) = MaxMetrics /\ metrics = <<>> /\ UNCHANGED vars

Next == (\E d \in Distribution : AddMetric(d)) \/ SendMetricsBatch \/ Done

Spec == Init /\ [][Next]_vars

-----------------------------------------------------------------------------
(* What "the same series" means: the name, the host, and the tags in any   *)
(* order.                                                                  *)
SameSeries(d, e) ==
  d.name = e.name /\ d.host = e.host /\ Sorted(d.tags) = Sorted(e.tags)

(* The points in ascending order. *)
Ascending(S) ==
  CHOOSE s \in [1 .. Cardinality(S) -> S] : \A i, j \in DOMAIN s : i < j => s[i] < s[j]

(* The reference: the metrics not yet gone, grouped into series, each with *)
(* the tags of its first metric and its points in the order of arrival.    *)
Waiting == {n \in DOMAIN arrivals : n \notin gone}

Series(n) == {m \in Waiting : SameSeries(arrivals[m], arrivals[n])}

Grouped ==
  {[metric |-> arrivals[n].name, tags |-> arrivals[n].tags, host |-> arrivals[n].host,
    points |-> Ascending(Series(n))] :
     n \in {m \in Waiting : \A k \in Series(m) : m <= k}}

(* The batch is what grouping by series asks for.                          *)
BatchIsGrouped == ToAPIMetrics = Grouped

(* Two metrics that wait have the same name and host and other tags, whose *)
(* sorted lists read the same when they are joined with colons.            *)
Colliding(d, e) ==
  /\ d.name = e.name /\ d.host = e.host
  /\ Sorted(d.tags) # Sorted(e.tags)
  /\ FlattenSeq(Sorted(d.tags)) = FlattenSeq(Sorted(e.tags))

Collision == \E m, n \in Waiting : Colliding(arrivals[m], arrivals[n])

(* Metrics are joined exactly when they belong to one series, whatever the *)
(* order of their tags, no series loses a point or takes one twice, and a  *)
(* new batch takes over none of the last one's, whose objects live on: all *)
(* that as long as no two metrics collide (batcher.go:77). From the first  *)
(* collision on until the batch is gone, it is not grouped as it should be.*)
GroupedUnlessCollision == BatchIsGrouped <=> ~Collision

=============================================================================
