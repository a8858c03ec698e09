------------------------- MODULE ResponseProperties -------------------------
(***************************************************************************)
(* What is claimed of ResponseOrchestrator, whatever transactions overlap. *)
(* ChainVerifies, ReplayTellsOutcome and ExecutedOnce are what its         *)
(* documents say, and overlap refutes (README.md).                         *)
(***************************************************************************)
EXTENDS ResponseOrchestrator

\* Every variable stays in its range, whatever overlaps and whatever dies.
TypeOK ==
  /\ actions   \in [Action -> Row]
  /\ stale     \subseteq Action
  /\ entities  \in [Entity -> Status]
  /\ ledger    \subseteq Entry
  /\ nextSeq   \in Nat \ {0}
  /\ incidents \in Seq(Profile)
  /\ cursor    \in 0 .. Len(incidents)
  /\ pc        \in [Process -> {"idle", "lookup", "select", "flush", "effect", "write",
                                "commit", "refresh", "expire", "respond", "done"}]
  /\ cur       \in [Process -> Action]
  /\ row       \in [Process -> Row]
  /\ goal      \in [Process -> State]
  /\ link      \in [Process -> Nat]
  /\ dirty     \in [Process -> [Action -> Row]]
  /\ own       \in [Process -> SUBSET Entry]
  /\ touched   \in [Process -> [Entity -> Status \cup {"none", "kept"}]]
  /\ same      \in [Process -> BOOLEAN]
  /\ work      \subseteq Action
  /\ upto      \in 0 .. Len(incidents)
  /\ job       \in [Request -> [user : User \cup {Nobody}, key : Key \cup {NoKey},
                                decision : {"approve", "reject"}]]
  /\ answer    \in [Request -> [code : {0, 200, 403, 404, 409, 500},
                                replayed : BOOLEAN, state : State]]
  /\ crashes   \in Nat

Records(a)   == {e \in ledger : e.action = a}
Last(E)      == CHOOSE e \in E : \A d \in E : d.seq <= e.seq
Decisions(a) == {e \in Records(a) : e.by \in User}

\* Human in the loop: the ledger shows no high-blast action starting to
\* execute without an approver's decision to queue it earlier in the ledger.
\* (ADR-007; decide, _execute and the role gate of approve_action.)
ApprovalGate ==
  \A e \in ledger :
    e.to = "executing" /\ Def(e.action).blast = "high" =>
      \E d \in ledger : /\ d.action = e.action /\ d.to = "queued"
                        /\ d.by \in Approver   /\ d.seq < e.seq

\* A committed row and the ledger tell the same story even when transactions
\* overwrite each other: the action's last entry names its state, the last
\* human decision names its decided_by, and an action in the middle of its
\* execution is never visible. (append_entry inside _transition's transaction.)
LedgerTellsRow ==
  \A a \in Action :
    /\ actions[a].state \notin {"queued", "executing"}
    /\ actions[a].state = IF Records(a) = {} THEN "none" ELSE Last(Records(a)).to
    /\ actions[a].decidedBy = IF Decisions(a) = {} THEN Nobody
                                                   ELSE Last(Decisions(a)).by

\* Containment is all or nothing with its record: an entity has the status of
\* an effector exactly if the ledger shows such an action executed on it, and
\* no executed action left its entity active. (the effectors, _execute.)
EffectsOnRecord ==
  LET Executed(e) == {r \in ledger : r.to = "executed" /\ EntityOf(r.action) = e}
  IN \A e \in Entity :
       IF Executed(e) = {} THEN entities[e] = "active"
       ELSE \E r \in Executed(e) : entities[e] = EffectOf[Def(r.action).type]

\* Through crashes and restarts no incident is skipped and none is answered
\* twice: the actions are those the policy selects for the incidents up to the
\* cursor, each created once. (tick: the cursor commits with the actions.)
EachIncidentOnce ==
  \A a \in Action :
    /\ (actions[a] # Absent) <=> (a[1] <= cursor /\ Matches(a[2], incidents[a[1]]))
    /\ Cardinality({e \in Records(a) : e.from = "none"}) <= 1

\* verify_chain accepts the ledger: every entry links to the one before it.
ChainVerifies ==
  \A e \in ledger : IsLast(e.prev, {d \in ledger : d.seq < e.seq})

\* However transactions overlap and roll back, the chain only ever breaks by
\* forking: an entry links back to one that is committed, or to GENESIS, never to
\* one that was rolled back or is still to come. (append_entry: SELECT and INSERT
\* in the transaction of the change it records.)
LinksResolve ==
  \A e \in ledger :
    /\ e.prev < e.seq
    /\ e.prev = 0 \/ \E d \in ledger : d.seq = e.prev

\* A retry with a recorded key gets the recorded outcome, never the state from
\* before the decision. (the comment of _decide on the idempotency key.)
ReplayTellsOutcome ==
  \A r \in Request : answer[r].replayed => answer[r].state # "pending_approval"

\* What callers were told is on record, and what is on record was told or its
\* answer was lost: each 200 that is no replay stands for one human decision in the
\* ledger; the decisions beyond those have an answer on its way or were cut off by a
\* crash after their commit, so 403, 404, 409 and the 500 of a duplicate key leave
\* none. A caller that lost its answer may then retry: once a decision is committed its
\* row has a key if one was sent, no other row has one, and the row is not pending
\* any more, so that the retry is replayed or refused and decides nothing.
\* (_decide: commit, refresh, response.)
AnswersOnRecord ==
  LET granted == {r \in Request : answer[r].code = 200 /\ ~answer[r].replayed}
      untold  == {r \in Request : pc[r] = "refresh"}
      told    == Cardinality(granted) + Cardinality(untold)
      decided == Cardinality({e \in ledger : e.by \in User})
  IN /\ told <= decided /\ decided <= told + crashes
     /\ \A a \in Action : /\ actions[a].idem # NoKey => Decisions(a) # {}
                          /\ Decisions(a) # {} => actions[a].state # "pending_approval"
     /\ \A r \in untold : job[r].key # NoKey => actions[cur[r]].idem # NoKey

\* An action's effector takes effect at most once. (docs/security.md: the state
\* machine prevents double execution.)
ExecutedOnce ==
  \A a \in Action : Cardinality({e \in Records(a) : e.to = "executed"}) <= 1

\* Nothing a request waits for keeps it waiting for ever: each row lock is
\* released, and the request is answered or dies.
RequestsEnd == \A r \in Request : pc[r] # "idle" ~> pc[r] = "done"

\* The worker gets to every incident, restarts included.
IncidentsReached ==
  \A i \in IncidentId : Len(incidents) >= i ~> cursor >= i

\* An approval nobody gives does not stay open: once stale it is settled.
ApprovalsLapse ==
  \A a \in Action : a \in stale ~> actions[a].state # "pending_approval"

----------------------------------------------------------------------------
(* The system does what ActionLifecycle says *)

Lifecycle == INSTANCE ActionLifecycle WITH
  HighBlast <- {a \in Action : Def(a).blast = "high"},
  st        <- [a \in Action |-> actions[a].state],
  decider   <- [a \in Action |-> actions[a].decidedBy],
  decided   <- [a \in Action |-> Cardinality(Decisions(a))],
  runs      <- [a \in Action |-> Cardinality({e \in Records(a) : e.to = "executed"})]

\* Whatever overlaps: each commit is one approver's decision, with one run of the
\* effector at most, or one pass of the worker; what was created or settled is never
\* created again nor pending. (decide and tick: commit, or roll back, as a whole.)
RefinesLifecycle == Lifecycle!Spec

=============================================================================
