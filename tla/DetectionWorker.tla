--------------------------- MODULE DetectionWorker ---------------------------
(***************************************************************************)
(* workers/detector.py over the tables it shares with the normalizers.  A  *)
(* normalizer inserts events in a transaction that takes ids from an       *)
(* IDENTITY sequence as it inserts and shows them when it commits; the     *)
(* worker fetches the events beyond its cursor, runs the detectors over    *)
(* them and commits detections, metric states and cursor together.         *)
(***************************************************************************)
EXTENDS Detectors

CONSTANTS
  Writer,       \* normalizer processes; docker-compose.yml runs one
  EventKind,    \* what an event may be: [entity, ts, port]
  BatchSize,    \* settings.det_batch_size
  MaxEvents,    \* bound: ids the sequence gives out
  MaxFailures,  \* bound: how often a detector raises
  MaxCrashes    \* bound: how often the worker dies by itself

ASSUME DetectionAssumption ==
  /\ BatchSize \in Nat \ {0}
  /\ {MaxEvents, MaxFailures, MaxCrashes} \subseteq Nat
  /\ EventKind \subseteq [entity : Nat, ts : Nat, port : Nat]
  /\ Writer \cap {"committed", "gone"} = {}

\* Entities are their ids, so that they are processed in order.
Entity == {k.entity : k \in EventKind}

VARIABLES
  events,      \* table events by id, with the transaction that holds the row
  detections,  \* table detections
  metrics,     \* table entity_metric_state
  cursor,      \* worker_cursors row of the detector
  pc,          \* "idle", or "open" inside a tick
  batch,       \* ids the tick fetched
  failures, crashes,
  passed,      \* history: ids of committed ticks
  overtaken,   \* history: ids still uncommitted when a larger one was fetched
  saved,       \* history: ids whose effect each detector saved ...
  dropped      \* history: ... and those of them in a call that raised

tables == <<detections, metrics, cursor>>
history == <<passed, saved, dropped>>
vars == <<events, tables, pc, batch, failures, crashes, overtaken, history>>

EventRow == [ev : EventKind, tx : Writer \cup {"committed", "gone"}]
DetectionRow == [event : 1 .. MaxEvents, entity : Entity, detector : Detector]

Init ==
  /\ events = <<>>
  /\ detections = {}
  /\ metrics = [d \in Detector |-> [e \in Entity |-> Fresh]]
  /\ cursor = 0
  /\ pc = "idle"
  /\ batch = {}
  /\ failures = 0 /\ crashes = 0
  /\ passed = {} /\ overtaken = {}
  /\ saved = [d \in Detector |-> {}] /\ dropped = [d \in Detector |-> {}]

----------------------------------------------------------------------------
(* The normalizers: persist_batch *)

HeldBy(w) == {i \in DOMAIN events : events[i].tx = w}

\* upsert_entities of another transaction has the entity's row locked.
EntityHeld(w, e) ==
  \E i \in DOMAIN events : events[i].tx \in Writer \ {w} /\ events[i].ev.entity = e

\* One row of the INSERT.
InsertEvent(w) ==
  /\ Len(events) < MaxEvents
  /\ \E k \in EventKind :
       /\ ~EntityHeld(w, k.entity)
       /\ events' = Append(events, [ev |-> k, tx |-> w])
  /\ UNCHANGED <<tables, pc, batch, failures, crashes, overtaken, history>>

\* COMMIT, or a rollback that gives no id back.
EndInsert(w) ==
  /\ HeldBy(w) # {}
  /\ \E end \in {"committed", "gone"} :
       events' = [i \in DOMAIN events |->
                    IF events[i].tx = w THEN [events[i] EXCEPT !.tx = end] ELSE events[i]]
  /\ UNCHANGED <<tables, pc, batch, failures, crashes, overtaken, history>>

----------------------------------------------------------------------------
(* DetectionWorker.tick *)

Visible == {i \in DOMAIN events : events[i].tx = "committed"}

\* _fetch_batch: the first rows beyond the cursor, by id.
NewestBatch ==  \* mutant: the newest rows first
  {i \in Visible : i > cursor /\ Cardinality({j \in Visible : j > i}) < BatchSize}
BatchWhenFull ==  \* mutant: waits for a full batch
  {i \in Visible : i > cursor /\ Cardinality({j \in Visible : cursor < j}) >= BatchSize
     /\ Cardinality({j \in Visible : cursor < j /\ j < i}) < BatchSize}
NextBatch ==
  {i \in Visible : i > cursor /\ Cardinality({j \in Visible : cursor < j /\ j < i}) < BatchSize}

Fetch ==
  /\ pc = "idle" /\ NextBatch # {}
  /\ pc' = "open"
  /\ batch' = NextBatch
  /\ overtaken' = overtaken \cup
       {i \in DOMAIN events : events[i].tx \in Writer /\ i < Max(NextBatch)}
  /\ UNCHANGED <<events, tables, failures, crashes, history>>

\* Nothing beyond the cursor: the worker sleeps.
Idle == pc = "idle" /\ NextBatch = {} /\ UNCHANGED vars

\* The batch grouped by entity, as EventViews.
IdsOf(b, e) == {i \in b : events[i].ev.entity = e}
FlowsOf(b, e) ==
  {[id |-> i, entity |-> e, ts |-> events[i].ev.ts, port |-> events[i].ev.port] :
     i \in IdsOf(b, e)}

Outcome(b, d, e) == Process(d, metrics[d][e], FlowsOf(b, e))

\* process: the detections of a batch.
Alarms(b, d) ==
  UNION {{[event |-> i, entity |-> e, detector |-> d] : i \in Outcome(b, d, e).fires} :
           e \in Entity}

Unstorable(b) == \E e \in Entity : Outcome(b, "rate_deviation", e).infinite

\* Entities are processed in order; one that raises keeps its state and that of
\* all after it, and the call yields nothing.
Stops(b) == {events[i].ev.entity : i \in b}
Finished(b, stop) ==
  {e \in Stops(b) : \A s \in stop : e < s}

\* stop[d]: the entity at which detector d raises, if any.
Raising(stop) == {d \in Detector : stop[d] # {}}
Found(b, stop) == UNION {Alarms(b, d) : d \in Detector \ Raising(stop)}

\* ON CONFLICT DO NOTHING on (event, detector, version).
Recorded(new) ==
  detections \cup {a \in new : \A o \in detections :
                     <<o.event, o.detector>> # <<a.event, a.detector>>}

CursorOneOff(b) == Max(b) + 1  \* mutant: it names the next id
CursorAfter(b) == Max(b)

Commit ==
  /\ pc = "open"
  /\ \E stop \in [Detector -> {{}} \cup {{e} : e \in Stops(batch)}] :
       /\ failures' = failures + Cardinality(Raising(stop))
       /\ failures' <= MaxFailures
       /\ Unstorable(batch) => "rate_deviation" \in Raising(stop)
       /\ detections' = Recorded(Found(batch, stop))
       /\ metrics' = [d \in Detector |-> [e \in Entity |->
            IF e \in Finished(batch, stop[d]) THEN Outcome(batch, d, e).state ELSE metrics[d][e]]]
       /\ saved' = [d \in Detector |-> saved[d] \cup
            UNION {IdsOf(batch, e) : e \in Finished(batch, stop[d])}]
       /\ dropped' = [d \in Detector |-> dropped[d] \cup
            IF stop[d] = {} THEN {} ELSE batch]
  /\ cursor' = CursorAfter(batch)
  /\ passed' = passed \cup batch
  /\ pc' = "idle"
  /\ batch' = {}
  /\ UNCHANGED <<events, crashes, overtaken>>

\* record_detections raises outside the try: the tick rolls back, the process
\* ends and is restarted.
Refused ==
  /\ pc = "open" /\ Unstorable(batch)
  /\ pc' = "idle"
  /\ batch' = {}
  /\ UNCHANGED <<events, tables, failures, crashes, overtaken, history>>

\* The worker dies in a tick.
Crash ==
  /\ pc = "open" /\ crashes < MaxCrashes
  /\ crashes' = crashes + 1
  /\ pc' = "idle"
  /\ batch' = {}
  /\ UNCHANGED <<events, tables, failures, overtaken, history>>

Next ==
  \/ \E w \in Writer : InsertEvent(w) \/ EndInsert(w)
  \/ Fetch \/ Idle \/ Commit \/ Refused \/ Crash

\* The loop of main, restarted when it dies.
Fairness == WF_vars(Fetch) /\ WF_vars(Commit)

Spec == Init /\ [][Next]_vars /\ Fairness

=============================================================================
