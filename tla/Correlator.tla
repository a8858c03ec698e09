------------------------------ MODULE Correlator ------------------------------
(***************************************************************************)
(* workers/correlator.py: the worker that turns detections into incidents. *)
(* One process; its only shared state is the database, where the detection *)
(* worker inserts rows while it runs.  A tick is one transaction: it       *)
(* selects a batch beyond the cursor whose event time has passed the       *)
(* watermark, asks the LLM agent about each cluster (minutes, at worst),   *)
(* and commits the incidents with the cursor.                              *)
(***************************************************************************)
EXTENDS CorrelationRules

CONSTANTS
  Entity, Detector, Score,  \* what a detection may carry
  AgentRisk,      \* risks the agent may return; none: it is unavailable
  BatchSize,      \* settings.corr_batch_size
  Forced,         \* the values tick(force) is called with
  MaxTime,        \* bound: the clock stops there
  MaxDetections,  \* bound: rows the detection worker inserts
  MaxCrashes      \* bound: how often the worker dies

ASSUME CorrelatorAssumption ==
  /\ BatchSize \in Nat \ {0} /\ Forced \subseteq BOOLEAN
  /\ MaxTime \in Nat /\ MaxDetections \in Nat /\ MaxCrashes \in Nat
  /\ Score \subseteq 0 .. 100 /\ AgentRisk \subseteq 0 .. 100

VARIABLES
  now,         \* the clock
  detections,  \* table detections joined with the events: id -> row
  incidents,   \* table incidents with their incident_detections rows
  llmCalls,    \* rows of llm_calls
  cursor,      \* worker_cursors row of the correlator
  pc,          \* "idle", or "open" inside a tick
  batch,       \* the rows the tick fetched
  crashes

vars == <<now, detections, incidents, llmCalls, cursor, pc, batch, crashes>>

Init ==
  /\ now = 0
  /\ detections = <<>>
  /\ incidents = {}
  /\ llmCalls = 0
  /\ cursor = 0
  /\ pc = "idle"
  /\ batch = {}
  /\ crashes = 0

----------------------------------------------------------------------------
(* Environment *)

\* Time passes.
Clock ==
  /\ now < MaxTime
  /\ now' = now + 1
  /\ UNCHANGED <<detections, incidents, llmCalls, cursor, pc, batch, crashes>>

\* The detection worker commits a detection.  Within its batch it inserts them
\* detector by detector, so an id says nothing of its event's time.  No event
\* comes so late that the clock's bound hides it.
Detect ==
  /\ Len(detections) < MaxDetections
  /\ \E e \in Entity, d \in Detector, s \in Score, t \in 0 .. now :
       /\ t + Window <= MaxTime
       /\ detections' = Append(detections,
            [id |-> Len(detections) + 1, entity |-> e, ts |-> t, detector |-> d, score |-> s])
  /\ UNCHANGED <<now, incidents, llmCalls, cursor, pc, batch, crashes>>

----------------------------------------------------------------------------
(* CorrelationWorker *)

\* _fetch: rows beyond the cursor, and not past the watermark unless forced.
CandidatesAfterNext(force) ==  \* mutant: the cursor taken for the next id
  {d \in Range(detections) : /\ d.id > cursor + 1
                             /\ force \/ d.ts <= now - Window}
Candidates(force) ==
  {d \in Range(detections) : /\ d.id > cursor
                             /\ force \/ d.ts <= now - Window}

\* The batch: the first BatchSize of them by id.
LastOf(rows) ==  \* mutant: newest first
  {d \in rows : Cardinality({e \in rows : e.id > d.id}) < BatchSize}
FirstOf(rows) ==
  {d \in rows : Cardinality({e \in rows : e.id < d.id}) < BatchSize}

Fetch ==
  /\ pc = "idle"
  /\ \E force \in Forced : batch' = FirstOf(Candidates(force))
  /\ pc' = IF batch' = {} THEN "idle" ELSE "open"
  /\ UNCHANGED <<now, detections, incidents, llmCalls, cursor, crashes>>

\* _create_incident: the agent may raise a cluster's risk, never lower it.
AgentsIncident(c, agent) ==  \* mutant: the agent's risk replaces the rules'
  [evidence |-> c, entity |-> (CHOOSE d \in c : TRUE).entity,
   risk |-> Max(IF agent = {} THEN {RulesRisk(c)} ELSE agent),
   mode |-> IF agent = {} THEN "rules" ELSE "llm"]
Incident(c, agent) ==
  [evidence |-> c, entity |-> (CHOOSE d \in c : TRUE).entity,
   risk |-> Max({RulesRisk(c)} \cup agent),
   mode |-> IF agent = {} THEN "rules" ELSE "llm"]

\* The agent's answer for a cluster: none, or one risk.
Answers == {{}} \cup {{r} : r \in AgentRisk}

CursorByCount(rows) == cursor + Cardinality(rows)  \* mutant: counts the rows
CursorAfter(rows)   == Max({d.id : d \in rows})

Commit ==
  /\ pc = "open"
  /\ \E agent \in [Clusters(batch) -> Answers] :
       incidents' = incidents \cup {Incident(c, agent[c]) : c \in Clusters(batch)}
  /\ llmCalls' = llmCalls + Cardinality(Clusters(batch))
  /\ cursor' = CursorAfter(batch)
  /\ pc' = "idle"
  /\ batch' = {}
  /\ UNCHANGED <<now, detections, crashes>>

\* The worker dies in a tick: the transaction rolls back.
Crash ==
  /\ pc = "open" /\ crashes < MaxCrashes
  /\ crashes' = crashes + 1
  /\ pc' = "idle"
  /\ batch' = {}
  /\ UNCHANGED <<now, detections, incidents, llmCalls, cursor>>

Next == Clock \/ Detect \/ Fetch \/ Commit \/ Crash

\* The loop of main polls, docker compose restarts it, and time passes.
Fairness == WF_vars(Clock) /\ WF_vars(Fetch) /\ WF_vars(Commit)

Spec == Init /\ [][Next]_vars /\ Fairness

----------------------------------------------------------------------------
(* What is claimed of it *)

Evidence == UNION {i.evidence : i \in incidents}

TypeOK ==
  /\ now \in 0 .. MaxTime /\ crashes \in 0 .. MaxCrashes /\ llmCalls \in Nat
  /\ cursor \in 0 .. Len(detections)
  /\ pc \in {"idle", "open"} /\ (batch # {}) <=> (pc = "open")
  /\ batch \subseteq Range(detections) /\ Evidence \subseteq Range(detections)
  /\ \A i \in incidents : i.risk \in RulesRisk(i.evidence) .. 100

\* Across crashes and overlapping inserts a detection is evidence of at most
\* one incident, and only if the cursor has passed it. (tick: the cursor
\* commits with the incidents.)
EvidenceOnce ==
  /\ \A i, j \in incidents : i # j => i.evidence \cap j.evidence = {}
  /\ \A d \in Evidence : d.id <= cursor

\* Whatever rows a batch holds, the walk over them in time order finds the
\* clusters the docstring of rules.py describes: rows of one entity a chain of
\* small gaps links, and no two clusters that touch. (cluster_by_entity_and_time.)
ClustersRight == IsClustering(Clusters(Range(detections)), Range(detections))

\* A detection the watermark held back is still ahead of the cursor, not
\* behind it: what the cursor has passed is evidence. (_fetch against tick.)
HeldBackNotLost ==
  \A d \in Range(detections) : d.id <= cursor => d \in Evidence

\* So it is as long as ids follow event times: then the batch is a prefix.
InOrder ==
  \A i, j \in DOMAIN detections : i < j => detections[i].ts <= detections[j].ts

HeldBackInOrder == InOrder => HeldBackNotLost

\* No tick takes a detection while one within a window of it, on the same entity
\* and still ahead of the cursor, stays behind: a row leaves the watermark when
\* its cluster is complete. (docstring of correlator.py; _fetch.)
ClustersFetchedWhole ==
  [][\A d \in batch', e \in Range(detections) :
       Near(d, e) /\ e.id > cursor => e \in batch']_batch

\* If ids follow event times every detection becomes evidence in the end,
\* crashes included. (main: the loop; tick: the cursor.)
AllCorrelated ==
  []InOrder => \A n \in 1 .. MaxDetections :
                 Len(detections) >= n ~> \E d \in Evidence : d.id = n

=============================================================================
