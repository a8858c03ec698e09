------------------------------ MODULE Detectors ------------------------------
(***************************************************************************)
(* detectors/: the two streaming detectors and the metric state they keep  *)
(* for every entity.  A mean and a variance are kept exact: for a history  *)
(* of n finalized buckets, sum is n * mean and dev is n * m2, both         *)
(* integers, so that a z-score is compared with its trigger by comparing   *)
(* squares.  Scores, severities and the wording of details decide nothing  *)
(* here and are left out.                                                  *)
(***************************************************************************)
EXTENDS Integers, Sequences, FiniteSets, FiniteSetsExt

CONSTANTS
  Window,      \* settings.det_window_seconds, the length of a bucket
  ZTrigger,    \* settings.det_rate_z_trigger
  MinHistory,  \* settings.det_rate_min_history
  Threshold    \* settings.det_port_threshold

ASSUME DetectorsAssumption ==
  {Window, ZTrigger, MinHistory, Threshold} \subseteq Nat \ {0}

\* The registry, in the order the worker calls it.
Detector == {"rate_deviation", "port_velocity"}

NoBucket == -1

\* A row of entity_metric_state; of cur_extra the ports and the fired flag.
MetricState ==
  [start : {NoBucket} \cup Nat, value : Nat, ports : SUBSET Nat, fired : BOOLEAN,
   n : Nat, sum : Nat, dev : Nat]

\* What _load answers when there is no row.
Fresh == [start |-> NoBucket, value |-> 0, ports |-> {}, fired |-> FALSE,
          n |-> 0, sum |-> 0, dev |-> 0]

\* What a detector sees of an event: EventView.
Flow == [id : Nat, entity : Nat, ts : Nat, port : Nat]

BucketStart(ts) == ts - (ts % Window)

----------------------------------------------------------------------------
(* Buckets and history *)

\* One step of Welford's recurrence, multiplied by the new n.
UpdateWelford(s, v) ==
  [s EXCEPT !.n = @ + 1, !.sum = @ + v,
            !.dev = IF s.n = 0 THEN 0
                    ELSE ((s.n + 1) * @ + (s.n * v - s.sum) * (s.n * v - s.sum)) \div s.n]

OpenBucket(s, b) == [s EXCEPT !.start = b, !.value = 0, !.ports = {}, !.fired = FALSE]

CloseBucket(s) == OpenBucket(UpdateWelford(s, s.value), s.start + Window)

RollBucketsNoGaps(s, ts) ==  \* mutant: empty windows leave no trace
  IF s.start = NoBucket THEN OpenBucket(s, BucketStart(ts))
  ELSE IF s.start + Window <= ts THEN OpenBucket(CloseBucket(s), BucketStart(ts))
  ELSE s
RollBuckets(s, ts) ==
  LET Rolled[r \in MetricState] ==
        IF r.start + Window <= ts THEN Rolled[CloseBucket(r)] ELSE r
  IN IF s.start = NoBucket THEN OpenBucket(s, BucketStart(ts)) ELSE Rolled[s]

----------------------------------------------------------------------------
(* One event *)

\* Its bucket is already closed: skipped.
Late(s, ev) == s.start # NoBucket /\ BucketStart(ev.ts) < s.start

Count(det, s, ev) ==
  IF det = "rate_deviation"
  THEN [s EXCEPT !.value = @ + 1]
  ELSE [s EXCEPT !.ports = @ \cup {ev.port}, !.value = Cardinality(s.ports \cup {ev.port})]

\* The state that judges the event.
Counted(det, s, ev) == Count(det, RollBuckets(s, ev.ts), ev)

\* value - mean, times n.
Excess(s) == s.n * s.value - s.sum

\* zscore with no variance in the history: infinite.
InfiniteZ(s) == Excess(s) > 0 /\ s.dev = 0

\* z >= trigger, that is (value - mean)^2 >= trigger^2 * m2 / (n - 1).
ZTriggers(s) ==
  /\ Excess(s) > 0
  /\ Excess(s) * Excess(s) * (s.n - 1) >= ZTrigger * ZTrigger * s.n * s.dev

TriggersAtThreshold(det, s) ==  \* mutant: reaching the threshold is enough
  IF det = "rate_deviation" THEN s.n >= MinHistory /\ ZTriggers(s)
  ELSE s.value >= Threshold
Triggers(det, s) ==
  IF det = "rate_deviation" THEN s.n >= MinHistory /\ ZTriggers(s)
  ELSE s.value > Threshold

\* What process has of an entity's events so far: its state, the events it fired
\* on, and whether a detection holds z = Infinity, which JSONB does not store.
Progress == [state : MetricState, fires : SUBSET Nat, infinite : BOOLEAN]

Judge(det, ev, p) ==
  [c \in MetricState |->
    IF ~c.fired /\ Triggers(det, c)
    THEN [state |-> [c EXCEPT !.fired = TRUE], fires |-> p.fires \cup {ev.id},
          infinite |-> p.infinite \/ InfiniteZ(c)]
    ELSE [p EXCEPT !.state = c]]

Absorb(det, ev) ==
  [p \in Progress |->
    IF Late(p.state, ev) THEN p ELSE Judge(det, ev, p)[Counted(det, p.state, ev)]]

\* process: what a detector makes of an entity's events of a batch, in their order.
Process(det, s, evs) ==
  LET Upto[E \in SUBSET evs] ==
        IF E = {} THEN [state |-> s, fires |-> {}, infinite |-> FALSE]
        ELSE LET ev == CHOOSE x \in E : \A y \in E : y.id <= x.id
             IN Absorb(det, ev)[Upto[E \ {ev}]]
  IN Upto[evs]

=============================================================================
