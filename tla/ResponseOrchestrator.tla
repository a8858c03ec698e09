------------------------ MODULE ResponseOrchestrator ------------------------
(***************************************************************************)
(* Containment actions of Sentraxis: the orchestrator worker              *)
(* (workers/orchestrator.py), the approve/reject endpoints                 *)
(* (api/actions.py), the response policy (orchestration/policy.py) and the *)
(* hash-chained audit ledger (orchestration/audit.py), over the one        *)
(* PostgreSQL database they share.                                         *)
(*                                                                         *)
(* The worker and every HTTP request run each in a transaction of their    *)
(* own at READ COMMITTED.  A statement reads the last committed version of *)
(* a row, or the transaction's own; the ORM keeps the object it loaded and *)
(* never reads it again; an UPDATE waits for the row lock of another       *)
(* transaction and then overwrites what that one committed.                *)
(***************************************************************************)
EXTENDS Integers, Sequences, FiniteSets

CONSTANTS
  PlaybookDef,    \* playbook name -> its row of the playbooks table
  Profile,        \* what an incident may look like: entity, risk, detectors
  Entity,         \* entities incidents are about
  External,       \* the entities whose identifier is external
  MinRiskFloor,   \* settings.orch_min_risk, in percent
  User,           \* authenticated users
  Approver,       \* the users with role approver or admin
  Key,            \* values of the Idempotency-Key header
  Request,        \* HTTP requests, each a transaction of its own
  Orch,           \* the orchestrator worker
  Nobody, NoKey,  \* the SQL NULL of decided_by and idem_key
  BatchSize,      \* settings.orch_batch_size
  MaxIncidents,   \* bound: how many incidents the correlator opens
  MaxOpen,        \* bound: how many transactions may overlap
  MaxCrashes      \* bound: how many processes or connections die

Playbook   == DOMAIN PlaybookDef
IncidentId == 1 .. MaxIncidents
Process    == Request \cup {Orch}

\* The key of an action row: the policy selects at most one per playbook.
Action     == IncidentId \X Playbook
Def(a)     == PlaybookDef[a[2]]

\* The registered effectors, by action type, with the status each one sets.
EffectOf == [quarantine_host |-> "quarantined", block_ip |-> "blocked"]
Status   == {"active", "quarantined", "blocked"}

DefaultPlaybooks ==
  [isolate_compromised_host |->
     [triggers |-> {"port_velocity", "rate_deviation"}, external |-> TRUE,
      minRisk  |-> 50, blast |-> "high", type |-> "quarantine_host"],
   throttle_flood_source |->
     [triggers |-> {"rate_deviation"}, external |-> TRUE,
      minRisk  |-> 80, blast |-> "low", type |-> "block_ip"]]

State == {"none", "pending_approval", "queued", "executing", "executed",
          "failed", "rejected", "expired"}

\* "none" is no row yet; creation is not checked against the code's table.
Transitions ==
  {<<"none", "pending_approval">>, <<"none", "queued">>,
   <<"pending_approval", "queued">>, <<"pending_approval", "rejected">>,
   <<"pending_approval", "expired">>,
   <<"queued", "executing">>, <<"queued", "failed">>,
   <<"executing", "executed">>, <<"executing", "failed">>,
   <<"failed", "queued">>, <<"failed", "dead">>}

NewRow(s) ==
  [state |-> s, attempt |-> 0, decidedBy |-> Nobody, idem |-> NoKey]
Absent == NewRow("none")

Row == [state : State, attempt : Nat, decidedBy : User \cup {Nobody},
        idem : Key \cup {NoKey}]

\* prev stands for prev_hash: the seq of the entry whose hash it is, 0 for
\* GENESIS.  The hash covers prev_hash, so it identifies its entry.
Entry == [seq : Nat \ {0}, prev : Nat, action : Action, from : State,
          to : State, by : User \cup {Orch}]

Job == [action : Action, decision : {"approve", "reject"}, user : User,
        key : Key \cup {NoKey}]

NoAnswer == [code |-> 0, replayed |-> FALSE, state |-> "none"]
NoJob    == [user |-> Nobody, key |-> NoKey, decision |-> "approve"]

ASSUME ConstantsAssumption ==
  /\ \A pb \in Playbook : PlaybookDef[pb].blast \in {"low", "high"}
  /\ Approver \subseteq User
  /\ Orch \notin Request \cup User
  /\ Nobody \notin User /\ NoKey \notin Key
  /\ Playbook # {}
  /\ MaxIncidents \in Nat \ {0} /\ BatchSize \in Nat \ {0}
  /\ MaxOpen \in Nat \ {0} /\ MaxCrashes \in Nat

----------------------------------------------------------------------------
VARIABLES
  \* committed rows
  actions,    \* table actions
  stale,      \* actions whose created_at is before the approval cutoff
  entities,   \* entities.status
  ledger,     \* table audit_log
  nextSeq,    \* its IDENTITY sequence: never rolled back
  incidents,  \* table incidents, in id order
  cursor,     \* worker_cursors row of the orchestrator
  \* what each process holds
  pc,         \* where it is
  cur,        \* the action it works on
  row,        \* the ORM object of that action
  goal,       \* the state the transition under way moves it to
  link,       \* the last ledger entry that append_entry selected
  dirty,      \* rows flushed but not committed ("none": not touched)
  own,        \* ledger entries flushed but not committed
  touched,    \* entity status flushed but not committed ("none": not touched,
              \* "kept": another column written)
  same,       \* the entity the effector loaded already had the status it sets
  work,       \* tick: actions still to expire, or still to create
  upto,       \* tick: the last incident id fetched
  job,        \* request: its parameters
  answer,     \* request: the HTTP response
  crashes

db     == <<actions, entities, ledger>>
world  == <<stale, incidents, crashes>>
buffer == <<dirty, own, touched, same>>
tick   == <<work, upto, cursor>>
http   == <<job, answer>>
vars   == <<db, world, buffer, tick, http, nextSeq, pc, cur, row, goal, link>>

AnyAction  == CHOOSE a \in Action : TRUE
NoRows     == [a \in Action |-> Absent]
NoStatuses == [e \in Entity |-> "none"]

Init ==
  /\ actions   = NoRows
  /\ stale     = {}
  /\ entities  = [e \in Entity |-> "active"]
  /\ ledger    = {}
  /\ nextSeq   = 1
  /\ incidents = <<>>
  /\ cursor    = 0
  /\ pc        = [p \in Process |-> "idle"]
  /\ cur       = [p \in Process |-> AnyAction]
  /\ row       = [p \in Process |-> Absent]
  /\ goal      = [p \in Process |-> "none"]
  /\ link      = [p \in Process |-> 0]
  /\ dirty     = [p \in Process |-> NoRows]
  /\ own       = [p \in Process |-> {}]
  /\ touched   = [p \in Process |-> NoStatuses]
  /\ same      = [p \in Process |-> FALSE]
  /\ work      = {}
  /\ upto      = 0
  /\ job       = [r \in Request |-> NoJob]
  /\ answer    = [r \in Request |-> NoAnswer]
  /\ crashes   = 0

----------------------------------------------------------------------------
(* Policy *)

\* evaluate_response selects playbook pb for an incident of this profile.
Matches(pb, inc) ==
  LET def == PlaybookDef[pb]
  IN /\ inc.risk >= def.minRisk /\ inc.risk >= MinRiskFloor
     /\ def.external => inc.entity \in External
     /\ def.triggers \cap inc.detectors # {}

EntityOf(a) == incidents[a[1]].entity

(* Transactions *)

Open == {p \in Process : pc[p] \notin {"idle", "done"}}

\* Row locks are held from the flushed UPDATE to the end of the transaction.
LockedByAny(p, a) ==  \* mutant: decide opens a session for each transition
  \E q \in Request \cup (Process \ {p}) : dirty[q][a].state # "none"
ActionLocked(p, a) == \E q \in Process \ {p} : dirty[q][a].state # "none"
EntityLocked(p, e) == \E q \in Process \ {p} : touched[q][e] # "none"

\* An UPDATE writes the columns the transaction changed: those that still have
\* their default in its version were NULL or 0 when it loaded the row.
Overwrite(old, new) ==
  IF new.state = "none" THEN old
  ELSE [state     |-> new.state,
        attempt   |-> IF new.attempt = 0 THEN old.attempt ELSE new.attempt,
        decidedBy |-> IF new.decidedBy = Nobody THEN old.decidedBy
                                                ELSE new.decidedBy,
        idem      |-> IF new.idem = NoKey THEN old.idem ELSE new.idem]

Commit(p, rows) ==
  /\ actions'  = [a \in Action |-> Overwrite(actions[a], rows[a])]
  /\ entities' = [e \in Entity |-> IF touched[p][e] \in Status THEN touched[p][e]
                                                               ELSE entities[e]]
  /\ ledger'   = ledger \cup own[p]

\* Commit or rollback: locks and buffered writes are gone.  p goes on at l, with
\* action a.
Leave(p, l, a) ==
  /\ pc'      = [pc EXCEPT ![p] = l]
  /\ cur'     = [cur EXCEPT ![p] = a]
  /\ row'     = [row EXCEPT ![p] = Absent]
  /\ goal'    = [goal EXCEPT ![p] = "none"]
  /\ link'    = [link EXCEPT ![p] = 0]
  /\ dirty'   = [dirty EXCEPT ![p] = NoRows]
  /\ own'     = [own EXCEPT ![p] = {}]
  /\ touched' = [touched EXCEPT ![p] = NoStatuses]
  /\ same'    = [same EXCEPT ![p] = FALSE]

Close(p) == Leave(p, IF p = Orch THEN "idle" ELSE "done", AnyAction)

(* _transition and append_entry, _execute *)

\* The process starts the transition of r, its object for a, to state s.
Begin(p, a, r, s) ==
  /\ cur'  = [cur EXCEPT ![p] = a]
  /\ row'  = [row EXCEPT ![p] = r]
  /\ goal' = [goal EXCEPT ![p] = s]
  /\ pc'   = [pc EXCEPT ![p] = "select"]

\* The entries p's SELECT sees: the committed ones and its own.
VisibleDirty(p) ==  \* mutant: READ UNCOMMITTED
  ledger \cup UNION {own[q] : q \in Process}
Visible(p) == ledger \cup own[p]

\* Entry l, or GENESIS, is the one ORDER BY seq DESC LIMIT 1 returns from E.
IsLast(l, E) ==
  /\ l \in {0} \cup {e.seq : e \in E}
  /\ \A e \in E : e.seq <= l

\* append_entry selects the ledger's last entry among those p can see.
SelectLast(p) ==
  /\ pc[p] = "select"
  /\ <<row[p].state, goal[p]>> \in Transitions
  /\ \E l \in {0} \cup {e.seq : e \in Visible(p)} :
       /\ IsLast(l, Visible(p))
       /\ link' = [link EXCEPT ![p] = l]
  /\ pc'   = [pc EXCEPT ![p] = "flush"]
  /\ UNCHANGED <<db, world, buffer, tick, http, nextSeq, cur, row, goal>>

\* The actor append_entry records: decide names the user, the rest the worker.
AlwaysWorker(p) == Orch  \* mutant: decide does not pass its actor on
Actor(p) ==
  IF p \in Request /\ goal[p] \in {"queued", "rejected"} THEN job[p].user ELSE Orch

NewEntry(p) ==
  [seq  |-> nextSeq, prev |-> link[p], action |-> cur[p],
   from |-> row[p].state, to |-> goal[p], by |-> Actor(p)]

\* Where the code continues after the transition to s.
Stop      == [queued |-> "select", executing |-> "effect", executed |-> "write",
              expired |-> "expire"]
End(p)    == IF p \in Request THEN "commit" ELSE "respond"
AfterHalfDone(p, s) ==  \* mutant: an effector that raised has its effect
  IF s = "failed" THEN "write" ELSE IF s \in DOMAIN Stop THEN Stop[s] ELSE End(p)
AfterNoCommit(p, s) ==  \* mutant: the handler returns without db.commit
  IF s \in DOMAIN Stop THEN Stop[s] ELSE IF p = Orch THEN "respond" ELSE "refresh"
After(p, s) == IF s \in DOMAIN Stop THEN Stop[s] ELSE End(p)

\* UPDATE or INSERT of the action row, then INSERT of the ledger entry.
Flush(p) ==
  LET a   == cur[p]
      new == [row[p] EXCEPT !.state = goal[p]]
  IN /\ pc[p] = "flush"
     /\ ~ActionLocked(p, a)
     /\ row'     = [row EXCEPT ![p] = new]
     /\ dirty'   = [dirty EXCEPT ![p][a] = new]
     /\ own'     = [own EXCEPT ![p] = @ \cup {NewEntry(p)}]
     /\ nextSeq' = nextSeq + 1
     /\ goal'    = [goal EXCEPT ![p] = IF @ = "queued" THEN "executing" ELSE @]
     /\ link'    = [link EXCEPT ![p] = 0]
     /\ pc'      = [pc EXCEPT ![p] = After(p, goal[p])]
     /\ UNCHANGED <<db, world, touched, same, tick, http, cur>>

\* The status of entity e that p reads: its own version or the committed one.
StatusRead(p, e) == IF touched[p][e] \in Status THEN touched[p][e] ELSE entities[e]

\* The effector of the action's type loads the entity and returns, or raises;
\* without one, the action fails.
Effect(p) ==
  LET type == Def(cur[p]).type
  IN /\ pc[p] = "effect"
     /\ \E s \in IF type \in DOMAIN EffectOf THEN {"executed", "failed"} ELSE {"failed"} :
          Begin(p, cur[p], [row[p] EXCEPT !.attempt = @ + 1], s)
     /\ same' = [same EXCEPT ![p] = /\ type \in DOMAIN EffectOf
                                    /\ StatusRead(p, EntityOf(cur[p])) = EffectOf[type]]
     /\ UNCHANGED <<db, world, dirty, own, touched, tick, http, nextSeq, link>>

\* The entity the effector changed is flushed after the ledger entry: the columns
\* that changed, which may be the status, quarantined_until alone, or none.
WriteEntity(p) ==
  LET e == EntityOf(cur[p])
      s == EffectOf[Def(cur[p]).type]
  IN /\ pc[p] = "write"
     /\ \/ /\ ~same[p]
           /\ ~EntityLocked(p, e)
           /\ touched' = [touched EXCEPT ![p][e] = s]
        \/ /\ same[p] /\ s = "quarantined"
           /\ ~EntityLocked(p, e)
           /\ touched' = [touched EXCEPT ![p][e] = IF @ = "none" THEN "kept" ELSE @]
        \/ /\ same[p] /\ s # "quarantined"
           /\ UNCHANGED touched
     /\ same' = [same EXCEPT ![p] = FALSE]
     /\ pc'   = [pc EXCEPT ![p] = End(p)]
     /\ UNCHANGED <<db, world, dirty, own, tick, http, nextSeq, cur, row, goal, link>>

Transact(p) == SelectLast(p) \/ Flush(p) \/ Effect(p) \/ WriteEntity(p)

----------------------------------------------------------------------------
(* ResponseOrchestrator.tick *)

\* The rows _expire_pending_approvals selects.
NothingLapses == {}  \* mutant: no expiry
Lapsed == {a \in stale : actions[a].state = "pending_approval"}

\* The transaction begins; _expire_pending_approvals selects the stale rows.
StartTick ==
  /\ pc[Orch] = "idle"
  /\ Cardinality(Open) < MaxOpen
  /\ work' = Lapsed
  /\ pc'   = [pc EXCEPT ![Orch] = "expire"]
  /\ UNCHANGED <<db, world, buffer, upto, cursor, http, nextSeq, cur, row, goal, link>>

\* The object is the one StartTick loaded: pending, so never decided.
Expire ==
  /\ pc[Orch] = "expire"
  /\ \E a \in work :
       /\ work' = work \ {a}
       /\ Begin(Orch, a, NewRow("pending_approval"), "expired")
  /\ UNCHANGED <<db, world, buffer, upto, cursor, http, nextSeq, link>>

\* The last incident of the batch beyond the cursor.
BatchEnd == IF cursor + BatchSize < Len(incidents) THEN cursor + BatchSize
                                                   ELSE Len(incidents)

\* The actions the policy selects for the incidents of a batch up to last that
\* have none yet.
Selected(last) ==
  {a \in Action : /\ a[1] \in (cursor + 1) .. last
                  /\ \A b \in Action : b[1] = a[1] => actions[b] = Absent
                  /\ Matches(a[2], incidents[a[1]])}

FetchIncidents ==
  /\ pc[Orch] = "expire"
  /\ work = {}
  /\ upto' = BatchEnd
  /\ work' = Selected(upto')
  /\ pc'   = [pc EXCEPT ![Orch] = "respond"]
  /\ UNCHANGED <<db, world, buffer, cursor, http, nextSeq, cur, row, goal, link>>

\* _create_action, in incident order; a low-blast action is then executed.
CreateAction ==
  /\ pc[Orch] = "respond"
  /\ \E a \in work :
       /\ \A b \in work : a[1] <= b[1]
       /\ work' = work \ {a}
       /\ Begin(Orch, a, Absent,
                IF Def(a).blast = "high" THEN "pending_approval" ELSE "queued")
  /\ UNCHANGED <<db, world, buffer, upto, cursor, http, nextSeq, link>>

CursorLeft  == cursor    \* mutant: set_cursor forgotten
CursorPast  == upto + 1  \* mutant: the next id instead of the last
CursorMoved == upto

CommitTick ==
  /\ pc[Orch] = "respond"
  /\ work = {}
  /\ cursor' = CursorMoved
  /\ upto'   = 0
  /\ Commit(Orch, dirty[Orch])
  /\ Close(Orch)
  /\ UNCHANGED <<world, work, http, nextSeq>>

Tick == StartTick \/ Expire \/ FetchIncidents \/ CreateAction \/ CommitTick
          \/ Transact(Orch)

----------------------------------------------------------------------------
(* POST /actions/{id}/approve and /reject *)

Answer(r, code, replayed, s) ==
  answer' = [answer EXCEPT ![r] = [code |-> code, replayed |-> replayed, state |-> s]]

\* require_roles of the two endpoints.
AnyRole(u)   == TRUE  \* mutant: any authenticated user
MayDecide(u) == u \in Approver

\* Role gate passed; db.get loads the row.
Receive(r) ==
  /\ pc[r] = "idle"
  /\ Cardinality(Open) < MaxOpen
  /\ \E j \in Job :
       /\ MayDecide(j.user)
       /\ actions[j.action] # Absent
       /\ job' = [job EXCEPT ![r] = [user |-> j.user, key |-> j.key,
                                     decision |-> j.decision]]
       /\ cur' = [cur EXCEPT ![r] = j.action]
       /\ row' = [row EXCEPT ![r] = actions[j.action]]
  /\ pc' = [pc EXCEPT ![r] = "lookup"]
  /\ UNCHANGED <<db, world, buffer, tick, answer, nextSeq, goal, link>>

\* 403 without the role, 404 without the row.
TurnAway(r) ==
  /\ pc[r] = "idle"
  /\ \E j \in Job :
       \/ ~MayDecide(j.user)           /\ Answer(r, 403, FALSE, "none")
       \/ actions[j.action] = Absent    /\ Answer(r, 404, FALSE, "none")
  /\ pc' = [pc EXCEPT ![r] = "done"]
  /\ UNCHANGED <<db, world, buffer, tick, job, nextSeq, cur, row, goal, link>>

\* The rows recorded with a key.
Keyed(k) == {a \in Action : k # NoKey /\ actions[a].idem = k}

Finish(r) ==
  /\ Close(r)
  /\ job' = [job EXCEPT ![r] = NoJob]

\* The key is recorded: answer with that row.  The ORM hands out the object it
\* already holds for it, if it holds one.
Replay(r) ==
  /\ pc[r] = "lookup"
  /\ \E a \in Keyed(job[r].key) :
       Answer(r, 200, TRUE, IF a = cur[r] THEN row[r].state ELSE actions[a].state)
  /\ Finish(r)
  /\ UNCHANGED <<db, world, tick, nextSeq>>

\* 409: not pending any more when the row was loaded.
Conflict(r) ==
  /\ pc[r] = "lookup"
  /\ Keyed(job[r].key) = {}
  /\ row[r].state # "pending_approval"
  /\ Answer(r, 409, FALSE, row[r].state)
  /\ Finish(r)
  /\ UNCHANGED <<db, world, tick, nextSeq>>

\* decide signs the object it changes.
Unsigned(r) == row[r]  \* mutant: decided_by left out
Signed(r)   == [row[r] EXCEPT !.decidedBy = job[r].user]

Decide(r) ==
  /\ pc[r] = "lookup"
  /\ Keyed(job[r].key) = {}
  /\ row[r].state = "pending_approval"
  /\ Begin(r, cur[r], Signed(r),
           IF job[r].decision = "approve" THEN "queued" ELSE "rejected")
  /\ UNCHANGED <<db, world, buffer, tick, http, nextSeq, link>>

\* The key goes with the row, unless it has one.  The caller waits for its answer.
CommitDecision(r) ==
  LET a == cur[r]
      k == IF row[r].idem = NoKey THEN job[r].key ELSE NoKey
  IN /\ pc[r] = "commit"
     /\ Keyed(k) \subseteq {a}
     /\ Commit(r, [dirty[r] EXCEPT ![a].idem = k])
     /\ Leave(r, "refresh", a)
     /\ UNCHANGED <<world, tick, http, nextSeq>>

\* db.refresh reads the row again, by now perhaps another's, and its state is the
\* answer.
Refresh(r) ==
  /\ pc[r] = "refresh"
  /\ Answer(r, 200, FALSE, actions[cur[r]].state)
  /\ Finish(r)
  /\ UNCHANGED <<db, world, tick, nextSeq>>

\* The unique index on idem_key refuses the commit: an uncaught 500.
DuplicateKey(r) ==
  /\ pc[r] = "commit"
  /\ ~(Keyed(job[r].key) \subseteq {cur[r]})
  /\ Answer(r, 500, FALSE, "none")
  /\ Finish(r)
  /\ UNCHANGED <<db, world, tick, nextSeq>>

Handle(r) == Replay(r) \/ Conflict(r) \/ Decide(r) \/ CommitDecision(r)
               \/ Refresh(r) \/ DuplicateKey(r) \/ Transact(r)

----------------------------------------------------------------------------
(* Environment *)

\* The correlator opens an incident.
OpenIncident ==
  /\ Len(incidents) < MaxIncidents
  /\ \E inc \in Profile : incidents' = Append(incidents, inc)
  /\ UNCHANGED <<db, stale, crashes, buffer, tick, http, nextSeq, pc, cur, row, goal, link>>

\* orch_approval_timeout_min passes for a pending action.
TimeOut ==
  /\ \E a \in Action \ stale : /\ actions[a].state = "pending_approval"
                               /\ stale' = stale \cup {a}
  /\ UNCHANGED <<db, incidents, crashes, buffer, tick, http, nextSeq, pc, cur, row, goal, link>>

\* A process dies, or its connection to the database: what it did not commit is
\* rolled back.  NoAnswer is what the caller of a request gets, be it nothing at
\* all or the bare 500 of a lost connection.
Crash(p) ==
  /\ pc[p] \notin {"idle", "done"}
  /\ crashes < MaxCrashes
  /\ crashes' = crashes + 1
  /\ Close(p)
  /\ IF p = Orch THEN work' = {} /\ upto' = 0 /\ UNCHANGED job
                 ELSE job' = [job EXCEPT ![p] = NoJob] /\ UNCHANGED <<work, upto>>
  /\ UNCHANGED <<db, stale, incidents, cursor, answer, nextSeq>>

Next ==
  \/ Tick
  \/ \E r \in Request : Receive(r) \/ TurnAway(r) \/ Handle(r)
  \/ \E p \in Process : Crash(p)
  \/ OpenIncident \/ TimeOut

\* docker compose restarts the worker, and the API server runs every request it
\* accepted; nobody is obliged to send one.
Fairness ==
  /\ WF_vars(Tick)
  /\ \A r \in Request : WF_vars(Handle(r))

Spec == Init /\ [][Next]_vars /\ Fairness

=============================================================================
