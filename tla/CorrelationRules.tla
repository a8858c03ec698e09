-------------------------- MODULE CorrelationRules --------------------------
(***************************************************************************)
(* correlation/rules.py: how detections become incidents.  A detection is  *)
(* a record [id, entity, ts, detector, score]; times are in units of the   *)
(* clock, scores and risks in percent.                                     *)
(***************************************************************************)
EXTENDS Integers, Sequences, FiniteSets, FiniteSetsExt, Functions

CONSTANT Window  \* settings.corr_window_seconds

ASSUME WindowAssumption == Window \in Nat

\* The order the rows of one entity are walked in.
Before(d, e) == d.ts < e.ts \/ (d.ts = e.ts /\ d.id < e.id)
InOrderOf(facts) ==
  CHOOSE s \in [1 .. Cardinality(facts) -> facts] :
    \A i, j \in DOMAIN s : i < j => Before(s[i], s[j])

\* Walking the rows s of one entity, a new cluster starts at position i.
CutsAtWindow(s, i) == i = 1 \/ s[i].ts - s[i - 1].ts >= Window  \* mutant: gap = window
Cuts(s, i)         == i = 1 \/ s[i].ts - s[i - 1].ts > Window

\* The runs between two cuts, as pairs of their first and last position.
RunsOf(s) ==
  {p \in (1 .. Len(s)) \X (1 .. Len(s)) :
     /\ p[1] <= p[2] /\ Cuts(s, p[1])
     /\ p[2] = Len(s) \/ Cuts(s, p[2] + 1)
     /\ \A k \in (p[1] + 1) .. p[2] : ~Cuts(s, k)}

\* cluster_by_entity_and_time: the rows of one entity, then of each.
ClustersOf(facts) ==
  LET s == InOrderOf(facts)
  IN {{s[k] : k \in p[1] .. p[2]} : p \in RunsOf(s)}

Clusters(facts) ==
  UNION {ClustersOf({d \in facts : d.entity = e}) : e \in {d.entity : d \in facts}}

\* What they are meant to be: the classes of the facts linked by steps of at
\* most a window within one entity.
Near(d, e) == d.entity = e.entity /\ d.ts - e.ts <= Window /\ e.ts - d.ts <= Window

Linked(c) ==
  \A part \in (SUBSET c) \ {{}, c} : \E d \in part, e \in c \ part : Near(d, e)

IsClustering(parts, facts) ==
  /\ UNION parts = facts /\ {} \notin parts
  /\ \A c \in parts : Linked(c)
  /\ \A b, c \in parts : b # c => \A d \in b, e \in c : ~Near(d, e)

\* build_incident_draft: the risk of a cluster.
RulesRisk(c) ==
  Min({100, Max({d.score : d \in c}) + 15 * (Cardinality({d.detector : d \in c}) - 1)})

=============================================================================
