------------------------- MODULE DetectionProperties -------------------------
(***************************************************************************)
(* What is claimed of DetectionWorker.  The reference below says what the  *)
(* metric state and the detections should be for a set F of flows of one   *)
(* entity, without batches, transactions or recurrences.                   *)
(***************************************************************************)
EXTENDS DetectionWorker

Bucket(f) == f.ts - (f.ts % Window)

\* The flows no earlier one of which had a later bucket.
OnTime(F) == {f \in F : \A g \in F : g.id < f.id => Bucket(g) <= Bucket(f)}

InBucket(F, b) == {f \in OnTime(F) : Bucket(f) = b}

ValueOf(d, G) ==
  IF d = "rate_deviation" THEN Cardinality(G) ELSE Cardinality({g.port : g \in G})

\* The buckets before b, from the entity's first one on, empty ones included.
Closed(F, b) == {c \in 0 .. b - 1 : c % Window = 0 /\ \E f \in OnTime(F) : Bucket(f) <= c}

History(d, F, b) == [c \in Closed(F, b) |-> ValueOf(d, InBucket(F, c))]

Size(h) == Cardinality(DOMAIN h)
Total(h) == MapThenSumSet(LAMBDA c : h[c], DOMAIN h)
Deviation(h) ==  \* size times the sum of the squared distances from the mean
  Size(h) * Total([c \in DOMAIN h |-> h[c] * h[c]]) - Total(h) * Total(h)

\* Flow f takes its bucket beyond what the history, or the threshold, allows.
Anomalous(d, F, f) ==
  LET v == ValueOf(d, {g \in InBucket(F, Bucket(f)) : g.id <= f.id})
      h == History(d, F, Bucket(f))
      x == Size(h) * v - Total(h)
  IN /\ f \in OnTime(F)
     /\ IF d = "port_velocity" THEN v > Threshold
        ELSE /\ Size(h) >= MinHistory /\ x > 0
             /\ x * x * (Size(h) - 1) >= ZTrigger * ZTrigger * Size(h) * Deviation(h)

FirstAnomalous(d, F, f) ==
  /\ Anomalous(d, F, f)
  /\ \A g \in InBucket(F, Bucket(f)) : g.id < f.id => ~Anomalous(d, F, g)

\* The flows of an entity that a detector has saved the effect of.
Saved(d, e) == FlowsOf(saved[d], e)

----------------------------------------------------------------------------
TypeOK ==
  /\ events \in Seq(EventRow) /\ Len(events) <= MaxEvents
  /\ detections \subseteq DetectionRow
  /\ metrics \in [Detector -> [Entity -> MetricState]]
  /\ cursor \in 0 .. Len(events)
  /\ pc \in {"idle", "open"} /\ (batch # {} <=> pc = "open")
  /\ batch \subseteq Visible
  /\ failures \in 0 .. MaxFailures /\ crashes \in 0 .. MaxCrashes
  /\ passed \cup overtaken \subseteq DOMAIN events
  /\ \A d \in Detector : saved[d] \cup dropped[d] \subseteq passed

\* However the events were cut into batches, whatever died or came late, the
\* stored state of an entity is the one its saved events define: live bucket,
\* history with its empty windows, mean and variance, fired flag.
\* (process, roll_buckets, update_welford, _load and _save.)
MetricsTellEvents ==
  \A d \in Detector, e \in Entity :
    LET s == metrics[d][e]
        F == Saved(d, e)
        h == History(d, F, s.start)
        live == InBucket(F, s.start)
    IN IF F = {} THEN s = Fresh
       ELSE /\ s.start = Max({Bucket(f) : f \in OnTime(F)})
            /\ s.value = ValueOf(d, live)
            /\ <<s.n, s.sum, s.dev>> = <<Size(h), Total(h), Deviation(h)>>
            /\ s.fired <=> \E f \in live : Anomalous(d, F, f)

\* An entity's bucket raises one detection, on the event that crossed the line,
\* in the commit that moved the cursor past it; only a detector that raised
\* loses its own. (process: fired; record_detections; the try of tick.)
DetectionsExact ==
  \A d \in Detector, e \in Entity :
    {o.event : o \in {o \in detections : o.detector = d /\ o.entity = e}}
      = {f.id : f \in {f \in Saved(d, e) : f.id \notin dropped[d] /\ FirstAnomalous(d, Saved(d, e), f)}}

\* The cursor leaves no committed event unseen behind it, except one that a
\* slower normalizer committed after a larger id had been fetched.
\* (_fetch_batch and set_cursor.)
CursorPassesSeen == {i \in Visible : i <= cursor} \subseteq passed \cup overtaken

\* The next batch holds a detection that cannot be stored.
Stuck == Unstorable(NextBatch)

\* Every committed event is passed in the end, crashes and raising detectors
\* included, unless a bucket above a history without variance stops the tick.
\* (main: the loop; tick: the commit; zscore: infinity.)
EventsReached ==
  \A n \in 1 .. MaxEvents : n \in Visible ~> (cursor >= n \/ Stuck)

=============================================================================
