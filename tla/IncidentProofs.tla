--------------------------- MODULE IncidentProofs ---------------------------
(***************************************************************************)
(* The orchestrator answers every incident once: for any playbooks, any     *)
(* number of requests, overlaps and crashes, the actions are those the      *)
(* policy selects for the incidents up to the cursor, each created once.    *)
(***************************************************************************)
EXTENDS ResponseProofs, FiniteSetTheorems

Exists(a) == actions[a].state # "none"
Written(p, a) == dirty[p][a].state # "none"

\* The tick is still expiring approvals, or is at the incidents.
Expiring == pc[Orch] = "expire" \/ (InTransition(Orch) /\ goal[Orch] = "expired")
Responding == pc[Orch] # "idle" /\ ~Expiring

\* The tick is to do, does or has done something about an action.
Begun(a) == a \in work \/ Written(Orch, a) \/ (InTransition(Orch) /\ cur[Orch] = a)

UpTo(a, last) == a[1] <= last /\ Matches(a[2], incidents[a[1]])

\* Only the worker at the incidents creates rows, each not there yet.
CreatesFresh(p) ==
  /\ InTransition(p) => goal[p] # "none"
  /\ pc[p] = "effect" => row[p].state # "none"
  /\ InTransition(p) /\ row[p].state = "none" =>
       p = Orch /\ Responding /\ ~Exists(cur[p]) /\ ~Written(p, cur[p])
  /\ \A e \in own[p] : e.from = "none" =>
       p = Orch /\ Written(p, e.action) /\ ~Exists(e.action)

\* A request works on a row that exists.
Decides(r) ==
  \A a \in Action : Written(r, a) \/ (pc[r] \notin {"idle", "done"} /\ cur[r] = a) => Exists(a)

\* At the incidents, the actions there and begun are those of the batch.
TickInv ==
  /\ ~Responding => \A a \in Action : Begun(a) => Exists(a)
  /\ Responding =>
       /\ cursor <= upto
       /\ \A a \in Action : Exists(a) \/ Begun(a) <=> UpTo(a, upto)
       /\ \A a \in work : ~Exists(a) /\ ~Written(Orch, a)
       /\ pc[Orch] # "respond" => cur[Orch] \notin work
       /\ pc[Orch] = "effect" => Written(Orch, cur[Orch])

OneCreation(E) ==
  \A d, e \in E : d.from = "none" /\ e.from = "none" /\ d.action = e.action => d = e

LedgerInv ==
  /\ \A e \in ledger : e.from = "none" => Exists(e.action)
  /\ OneCreation(ledger)
  /\ OneCreation(own[Orch])

RowsInv ==
  /\ \A a \in Action : Exists(a) \/ actions[a] = Absent
  /\ \A a \in Action : Exists(a) <=> UpTo(a, cursor)

IncidentInv ==
  /\ \A p \in Process : CreatesFresh(p)
  /\ \A r \in Request : Decides(r)
  /\ TickInv /\ LedgerInv /\ RowsInv


----------------------------------------------------------------------------
(* What a step leaves alone *)

\* Nothing of what process p holds changes.
Kept(p) ==
  /\ pc'[p] = pc[p] /\ cur'[p] = cur[p] /\ row'[p] = row[p] /\ goal'[p] = goal[p]
  /\ dirty'[p] = dirty[p] /\ own'[p] = own[p]

LEMMA AbsentState == Absent.state = "none"
BY DEF Absent, NewRow

LEMMA OrchProcess == Orch \in Process /\ Orch \notin Request /\ Request \subseteq Process
BY ConstantsAssumption DEF Process

\* A process that is kept, while no row appears, creates what it created.
LEMMA OthersFresh ==
  ASSUME NEW p \in Process, CreatesFresh(p), Kept(p),
         p = Orch => \A a \in Action : Exists(a)' <=> Exists(a),
         cur[p] \in Action, \A e \in own[p] : e.action \in Action
  PROVE  CreatesFresh(p)'
BY OrchProcess DEF CreatesFresh, Kept, InTransition, Responding, Expiring, Written

LEMMA LeaveKeeps ==
  ASSUME TypeOK, NEW p \in Process, NEW l, NEW b, Leave(p, l, b)
  PROVE  /\ \A q \in Process \ {p} : Kept(q)
         /\ pc'[p] = l /\ cur'[p] = b
         /\ own'[p] = {} /\ \A a \in Action : ~Written(p, a)'
<1>1. NoRows \in [Action -> Row] /\ \A a \in Action : NoRows[a] = Absent
  BY NewRowType DEF NoRows, Absent, State
<1>2. \A q \in Process \ {p} : Kept(q)
  BY DEF TypeOK, Leave, Kept
<1>3. pc'[p] = l /\ cur'[p] = b /\ own'[p] = {} /\ dirty'[p] = NoRows
  BY DEF TypeOK, Leave
<1>. QED
  BY <1>1, <1>2, <1>3, AbsentState DEF Written

LEMMA CloseKeeps ==
  ASSUME TypeOK, NEW p \in Process, Close(p)
  PROVE  /\ \A q \in Process \ {p} : Kept(q)
         /\ pc'[p] = IF p = Orch THEN "idle" ELSE "done"
         /\ own'[p] = {} /\ \A a \in Action : ~Written(p, a)'
BY LeaveKeeps DEF Close

LEMMA BeginKeeps ==
  ASSUME TypeOK, NEW p \in Process, NEW a, NEW r, NEW s, Begin(p, a, r, s),
         UNCHANGED <<dirty, own>>
  PROVE  /\ \A q \in Process \ {p} : Kept(q)
         /\ pc'[p] = "select" /\ cur'[p] = a /\ row'[p] = r /\ goal'[p] = s
         /\ dirty'[p] = dirty[p] /\ own'[p] = own[p]
BY DEF TypeOK, Begin, Kept

\* A request's step leaves the rows there and the worker alone.
LEMMA RequestStep ==
  ASSUME TypeInv, IncidentInv, NEW r \in Request,
         \A q \in Process \ {r} : Kept(q),
         UNCHANGED <<work, upto, cursor, incidents>>,
         \A a \in Action : /\ Exists(a)' <=> Exists(a)
                           /\ Exists(a)' \/ actions'[a] = Absent,
         \A e \in ledger' : e.from = "none" => e \in ledger,
         ledger' \subseteq Entry,
         CreatesFresh(r)', Decides(r)'
  PROVE  IncidentInv'
<1>1. Kept(Orch)
  BY OrchProcess
<1>2. /\ \A p \in Process : cur[p] \in Action /\ own[p] \subseteq Entry
      /\ \A e \in Entry : e.action \in Action
      /\ work \subseteq Action /\ ledger \subseteq Entry
  BY DEF TypeInv, TypeOK, Entry
<1>3. \A p \in Process : CreatesFresh(p)'
  <2>. SUFFICES ASSUME NEW p \in Process \ {r} PROVE CreatesFresh(p)'
    OBVIOUS
  <2>. QED
    BY <1>2, OthersFresh DEF IncidentInv
<1>4. \A q \in Request : Decides(q)'
  BY OrchProcess DEF IncidentInv, Decides, Kept, Written
<1>5. /\ Responding' <=> Responding
      /\ \A a \in Action : /\ Begun(a)' <=> Begun(a)
                           /\ Written(Orch, a)' <=> Written(Orch, a)
                           /\ UpTo(a, upto)' <=> UpTo(a, upto)
                           /\ UpTo(a, cursor)' <=> UpTo(a, cursor)
  BY <1>1 DEF Responding, Expiring, Begun, InTransition, Written, Kept, UpTo, Matches
<1>6. TickInv'
  BY <1>1, <1>2, <1>5, OrchProcess DEF IncidentInv, TickInv, Kept
<1>7. LedgerInv'
  BY <1>1, <1>2 DEF IncidentInv, LedgerInv, OneCreation, Kept
<1>8. RowsInv'
  BY <1>5 DEF IncidentInv, RowsInv
<1>. QED
  BY <1>3, <1>4, <1>6, <1>7, <1>8 DEF IncidentInv

\* The worker's step leaves the requests alone, and no row goes.
LEMMA WorkerStep ==
  ASSUME TypeInv, IncidentInv,
         \A q \in Process \ {Orch} : Kept(q),
         \A a \in Action : Exists(a) => Exists(a)',
         CreatesFresh(Orch)', TickInv', LedgerInv', RowsInv'
  PROVE  IncidentInv'
<1>1. /\ \A p \in Process : cur[p] \in Action /\ own[p] \subseteq Entry
      /\ \A e \in Entry : e.action \in Action
  BY DEF TypeInv, TypeOK, Entry
<1>2. \A p \in Process : CreatesFresh(p)'
  <2>. SUFFICES ASSUME NEW p \in Process \ {Orch} PROVE CreatesFresh(p)'
    OBVIOUS
  <2>. QED
    BY <1>1, OthersFresh DEF IncidentInv
<1>3. \A q \in Request : Decides(q)'
  BY OrchProcess DEF IncidentInv, Decides, Kept, Written
<1>. QED
  BY <1>2, <1>3 DEF IncidentInv

----------------------------------------------------------------------------
(* The requests *)

\* A request creates nothing.
LEMMA RequestFresh ==
  ASSUME NEW r \in Request
  PROVE  CreatesFresh(r) <=>
           /\ InTransition(r) => goal[r] # "none" /\ row[r].state # "none"
           /\ pc[r] = "effect" => row[r].state # "none"
           /\ \A e \in own[r] : e.from # "none"
BY OrchProcess DEF CreatesFresh

\* Reading a row, or turning away: nothing is written.
LEMMA ReceiveInc ==
  ASSUME TypeInv, IncidentInv, NEW r \in Request, Receive(r) \/ TurnAway(r)
  PROVE  IncidentInv'
<1>. r \in Process /\ TypeOK /\ CreatesFresh(r) /\ Decides(r)
  BY OrchProcess DEF TypeInv, IncidentInv
<1>1. /\ \A q \in Process \ {r} : Kept(q)
      /\ UNCHANGED <<work, upto, cursor, incidents, actions, ledger>>
      /\ dirty'[r] = dirty[r] /\ own'[r] = own[r]
      /\ pc'[r] \in {"lookup", "done"}
      /\ pc'[r] = "lookup" => actions[cur'[r]] # Absent
  <2>1. CASE Receive(r)
    <3>1. PICK j \in Job : /\ actions[j.action] # Absent
                           /\ cur' = [cur EXCEPT ![r] = j.action]
                           /\ row' = [row EXCEPT ![r] = actions[j.action]]
      BY <2>1 DEF Receive
    <3>2. pc' = [pc EXCEPT ![r] = "lookup"]
          /\ UNCHANGED <<goal, dirty, own, work, upto, cursor, incidents, actions, ledger>>
      BY <2>1 DEF Receive, db, world, buffer, tick
    <3>. QED
      BY <3>1, <3>2 DEF TypeOK, Kept
  <2>2. CASE TurnAway(r)
    <3>1. pc' = [pc EXCEPT ![r] = "done"]
          /\ UNCHANGED <<cur, row, goal, dirty, own, work, upto, cursor, incidents, actions, ledger>>
      BY <2>2 DEF TurnAway, db, world, buffer, tick
    <3>. QED
      BY <3>1 DEF TypeOK, Kept
  <2>. QED
    BY <2>1, <2>2
<1>2. CreatesFresh(r)'
  BY <1>1, RequestFresh DEF CreatesFresh, InTransition
<1>3. Decides(r)'
  BY <1>1 DEF Decides, Written, Exists, IncidentInv, RowsInv
<1>4. ledger' \subseteq Entry
  BY <1>1 DEF TypeOK
<1>. QED
  BY <1>1, <1>2, <1>3, <1>4, RequestStep DEF IncidentInv, RowsInv, Exists

\* The end of a request's transaction; if its answer is still to come, the
\* request keeps its action.
LEMMA ClosedInc ==
  ASSUME TypeInv, IncidentInv, NEW r \in Request,
         Close(r) \/ (pc[r] = "commit" /\ Leave(r, "refresh", cur[r])),
         UNCHANGED <<work, upto, cursor, incidents>>,
         \A a \in Action : /\ Exists(a)' <=> Exists(a)
                           /\ Exists(a)' \/ actions'[a] = Absent,
         \A e \in ledger' : e.from = "none" => e \in ledger,
         ledger' \subseteq Entry
  PROVE  IncidentInv'
<1>1. /\ \A q \in Process \ {r} : Kept(q)
      /\ own'[r] = {} /\ \A a \in Action : ~Written(r, a)'
      /\ \/ pc'[r] = "done"
         \/ pc[r] = "commit" /\ pc'[r] = "refresh" /\ cur'[r] = cur[r]
  BY OrchProcess, CloseKeeps, LeaveKeeps DEF TypeInv
<1>2. CreatesFresh(r)'
  BY <1>1 DEF CreatesFresh, InTransition
<1>3. Decides(r)'
  BY <1>1 DEF Decides, IncidentInv
<1>. QED
  BY <1>1, <1>2, <1>3, RequestStep

LEMMA FinishInc ==
  ASSUME TypeInv, IncidentInv, NEW r \in Request,
         Replay(r) \/ Conflict(r) \/ Refresh(r) \/ DuplicateKey(r) \/ Crash(r)
  PROVE  IncidentInv'
<1>1. Close(r) /\ UNCHANGED <<work, upto, cursor, incidents, actions, ledger>>
  BY OrchProcess DEF Replay, Conflict, Refresh, DuplicateKey, Crash, Finish, db, world, tick
<1>2. ledger' \subseteq Entry
  BY <1>1 DEF TypeInv, TypeOK
<1>. QED
  BY <1>1, <1>2, ClosedInc DEF IncidentInv, RowsInv, Exists

LEMMA DecideInc ==
  ASSUME TypeInv, IncidentInv, NEW r \in Request, Decide(r)
  PROVE  IncidentInv'
<1>. r \in Process /\ TypeOK /\ CreatesFresh(r) /\ Decides(r)
  BY OrchProcess DEF TypeInv, IncidentInv
<1>. DEFINE s == IF job[r].decision = "approve" THEN "queued" ELSE "rejected"
<1>1. /\ Begin(r, cur[r], Signed(r), s) /\ pc[r] = "lookup"
      /\ row[r].state = "pending_approval" /\ UNCHANGED <<dirty, own>>
      /\ UNCHANGED <<work, upto, cursor, incidents, actions, ledger>>
  BY DEF Decide, db, world, buffer, tick
<1>2. Signed(r).state = "pending_approval"
  BY <1>1 DEF Signed, TypeOK, Row
<1>3. /\ \A q \in Process \ {r} : Kept(q)
      /\ pc'[r] = "select" /\ cur'[r] = cur[r] /\ row'[r] = Signed(r) /\ goal'[r] = s
      /\ dirty'[r] = dirty[r] /\ own'[r] = own[r]
  BY <1>1, BeginKeeps
<1>4. CreatesFresh(r)'
  BY <1>2, <1>3, OrchProcess DEF CreatesFresh, InTransition
<1>5. Decides(r)'
  BY <1>1, <1>3 DEF Decides, Written, Exists
<1>6. ledger' \subseteq Entry
  BY <1>1 DEF TypeOK
<1>. QED
  BY <1>1, <1>3, <1>4, <1>5, <1>6, RequestStep DEF IncidentInv, RowsInv, Exists

\* What a commit leaves in the table.
LEMMA CommitRows ==
  ASSUME TypeOK, NEW p \in Process, NEW rows \in [Action -> Row], Commit(p, rows),
         \A a \in Action : rows[a].state = dirty[p][a].state
  PROVE  /\ \A a \in Action : Exists(a)' <=> Exists(a) \/ Written(p, a)
         /\ \A a \in Action : ~Written(p, a) => actions'[a] = actions[a]
         /\ ledger' = ledger \cup own[p]
BY DEF TypeOK, Commit, Overwrite, Exists, Written, Row

LEMMA CommitDecisionInc ==
  ASSUME TypeInv, IncidentInv, NEW r \in Request, CommitDecision(r)
  PROVE  IncidentInv'
<1>. r \in Process /\ TypeOK /\ CreatesFresh(r) /\ Decides(r)
  BY OrchProcess DEF TypeInv, IncidentInv
<1>. DEFINE k == IF row[r].idem = NoKey THEN job[r].key ELSE NoKey
            rows == [dirty[r] EXCEPT ![cur[r]].idem = k]
<1>1. /\ Commit(r, rows) /\ pc[r] = "commit" /\ Leave(r, "refresh", cur[r])
      /\ UNCHANGED <<work, upto, cursor, incidents>>
  BY DEF CommitDecision, world, tick
<1>2. rows \in [Action -> Row] /\ \A a \in Action : rows[a].state = dirty[r][a].state
  <2>1. dirty[r] \in [Action -> Row] /\ k \in Key \cup {NoKey} /\ cur[r] \in Action
    BY DEF TypeOK
  <2>. QED
    BY <2>1, RowKeyType DEF Row
<1>3. /\ \A a \in Action : Exists(a)' <=> Exists(a) \/ Written(r, a)
      /\ \A a \in Action : ~Written(r, a) => actions'[a] = actions[a]
      /\ ledger' = ledger \cup own[r]
  BY <1>1, <1>2, CommitRows
<1>4. \A a \in Action : (Exists(a)' <=> Exists(a)) /\ (Exists(a)' \/ actions'[a] = Absent)
  BY <1>3 DEF Decides, IncidentInv, RowsInv
<1>5. \A e \in ledger' : e.from = "none" => e \in ledger
  BY <1>3, RequestFresh
<1>6. ledger' \subseteq Entry
  BY <1>1, <1>2, CommitType
<1>. QED
  BY <1>1, <1>4, <1>5, <1>6, ClosedInc

----------------------------------------------------------------------------
(* A transition *)

\* What a process does between two statements that change rows.
LEMMA MovesKeep ==
  ASSUME TypeOK, NEW p \in Process, Transact(p)
  PROVE  /\ \A q \in Process \ {p} : Kept(q)
         /\ cur'[p] = cur[p]
         /\ UNCHANGED <<work, upto, cursor, incidents, actions, ledger>>
<1>1. CASE SelectLast(p)
  BY <1>1 DEF SelectLast, TypeOK, Kept, db, world, buffer, tick
<1>2. CASE Flush(p)
  <2>1. /\ row' = [row EXCEPT ![p] = [row[p] EXCEPT !.state = goal[p]]]
        /\ dirty' = [dirty EXCEPT ![p][cur[p]] = [row[p] EXCEPT !.state = goal[p]]]
        /\ own' = [own EXCEPT ![p] = @ \cup {NewEntry(p)}]
        /\ goal' = [goal EXCEPT ![p] = IF @ = "queued" THEN "executing" ELSE @]
        /\ pc' = [pc EXCEPT ![p] = After(p, goal[p])]
        /\ UNCHANGED <<cur, work, upto, cursor, incidents, actions, ledger>>
    BY <1>2 DEF Flush, db, world, tick
  <2>. QED
    BY <2>1 DEF TypeOK, Kept
<1>3. CASE Effect(p)
  <2>1. PICK s : Begin(p, cur[p], [row[p] EXCEPT !.attempt = @ + 1], s)
    BY <1>3 DEF Effect
  <2>2. UNCHANGED <<dirty, own, work, upto, cursor, incidents, actions, ledger>>
    BY <1>3 DEF Effect, db, world, tick
  <2>. QED
    BY <2>1, <2>2, BeginKeeps
<1>4. CASE WriteEntity(p)
  <2>1. pc' = [pc EXCEPT ![p] = End(p)]
        /\ UNCHANGED <<cur, row, goal, dirty, own, work, upto, cursor, incidents, actions, ledger>>
    BY <1>4 DEF WriteEntity, db, world, tick
  <2>. QED
    BY <2>1 DEF TypeOK, Kept
<1>. QED
  BY <1>1, <1>2, <1>3, <1>4 DEF Transact

\* The statement that writes the row and the ledger entry.
LEMMA FlushFacts ==
  ASSUME TypeOK, NEW p \in Process, Flush(p)
  PROVE  /\ pc[p] = "flush" /\ row'[p].state = goal[p]
         /\ pc'[p] = After(p, goal[p])
         /\ goal'[p] = IF goal[p] = "queued" THEN "executing" ELSE goal[p]
         /\ dirty'[p][cur[p]].state = goal[p]
         /\ \A a \in Action \ {cur[p]} : dirty'[p][a] = dirty[p][a]
         /\ own'[p] = own[p] \cup {NewEntry(p)}
         /\ NewEntry(p).action = cur[p] /\ NewEntry(p).from = row[p].state
<1>. DEFINE new == [row[p] EXCEPT !.state = goal[p]]
<1>1. /\ pc[p] = "flush"
      /\ row' = [row EXCEPT ![p] = new]
      /\ dirty' = [dirty EXCEPT ![p][cur[p]] = new]
      /\ own' = [own EXCEPT ![p] = @ \cup {NewEntry(p)}]
      /\ goal' = [goal EXCEPT ![p] = IF @ = "queued" THEN "executing" ELSE @]
      /\ pc' = [pc EXCEPT ![p] = After(p, goal[p])]
  BY DEF Flush
<1>2. new.state = goal[p] /\ row[p] \in Row
  BY DEF TypeOK, Row
<1>3. /\ dirty[p] \in [Action -> Row] /\ cur[p] \in Action
      /\ dirty'[p] = [dirty[p] EXCEPT ![cur[p]] = new]
  BY <1>1 DEF TypeOK
<1>4. NewEntry(p).action = cur[p] /\ NewEntry(p).from = row[p].state
  BY DEF NewEntry
<1>. HIDE DEF new
<1>5. dirty'[p][cur[p]] = new /\ \A a \in Action \ {cur[p]} : dirty'[p][a] = dirty[p][a]
  BY <1>3
<1>6. row'[p] = new
  BY <1>1 DEF TypeOK
<1>. QED
  BY <1>1, <1>2, <1>4, <1>5, <1>6 DEF TypeOK

LEMMA EffectFacts ==
  ASSUME TypeOK, NEW p \in Process, Effect(p)
  PROVE  /\ pc[p] = "effect" /\ pc'[p] = "select"
         /\ row'[p].state = row[p].state /\ goal'[p] \in {"executed", "failed"}
         /\ dirty'[p] = dirty[p] /\ own'[p] = own[p]
<1>1. PICK s \in {"executed", "failed"} : Begin(p, cur[p], [row[p] EXCEPT !.attempt = @ + 1], s)
  BY DEF Effect
<1>2. UNCHANGED <<dirty, own>> /\ pc[p] = "effect"
  BY DEF Effect
<1>3. [row[p] EXCEPT !.attempt = @ + 1].state = row[p].state
  BY DEF TypeOK, Row
<1>. QED
  BY <1>1, <1>2, <1>3, BeginKeeps

LEMMA SelectFacts ==
  ASSUME TypeOK, NEW p \in Process, SelectLast(p)
  PROVE  /\ pc[p] = "select" /\ pc'[p] = "flush" /\ row'[p] = row[p] /\ goal'[p] = goal[p]
         /\ dirty'[p] = dirty[p] /\ own'[p] = own[p]
BY DEF SelectLast, TypeOK, buffer

LEMMA WriteFacts ==
  ASSUME TypeOK, NEW p \in Process, WriteEntity(p)
  PROVE  /\ pc[p] = "write" /\ pc'[p] = End(p) /\ row'[p] = row[p] /\ goal'[p] = goal[p]
         /\ dirty'[p] = dirty[p] /\ own'[p] = own[p]
BY DEF WriteEntity, TypeOK

LEMMA RequestMoveInc ==
  ASSUME TypeInv, IncidentInv, NEW r \in Request, Transact(r)
  PROVE  IncidentInv'
<1>. r \in Process /\ TypeOK /\ CreatesFresh(r) /\ Decides(r) /\ r # Orch
  BY OrchProcess DEF TypeInv, IncidentInv
<1>0. /\ InTransition(r) => goal[r] # "none" /\ row[r].state # "none"
      /\ pc[r] = "effect" => row[r].state # "none"
      /\ \A e \in own[r] : e.from # "none"
  BY RequestFresh
<1>1. /\ \A q \in Process \ {r} : Kept(q)
      /\ cur'[r] = cur[r]
      /\ UNCHANGED <<work, upto, cursor, incidents, actions, ledger>>
  BY MovesKeep
<1>2. /\ pc[r] \notin {"idle", "done"}
      /\ InTransition(r)' => goal'[r] # "none" /\ row'[r].state # "none"
      /\ pc'[r] = "effect" => row'[r].state # "none"
      /\ \A e \in own'[r] : e.from # "none"
      /\ \A a \in Action : Written(r, a)' => Written(r, a) \/ a = cur[r]
  <2>1. CASE SelectLast(r)
    BY <2>1, <1>0, SelectFacts DEF InTransition, Written
  <2>2. CASE Flush(r)
    BY <2>2, <1>0, FlushFacts DEF InTransition, Written
  <2>3. CASE Effect(r)
    BY <2>3, <1>0, EffectFacts DEF InTransition, Written
  <2>4. CASE WriteEntity(r)
    BY <2>4, <1>0, WriteFacts DEF InTransition, Written, End
  <2>. QED
    BY <2>1, <2>2, <2>3, <2>4 DEF Transact
<1>3. CreatesFresh(r)'
  BY <1>2 DEF CreatesFresh
<1>4. Decides(r)'
  BY <1>1, <1>2 DEF Decides, Exists
<1>5. ledger' \subseteq Entry
  BY <1>1 DEF TypeOK
<1>. QED
  BY <1>1, <1>3, <1>4, <1>5, RequestStep DEF IncidentInv, RowsInv, Exists

----------------------------------------------------------------------------
(* The worker *)

\* What the tick's begun actions, existing rows and cursor say of a later state in
\* which no row appeared: enough for a step inside a tick.
LEMMA InsideTick ==
  ASSUME TypeInv, IncidentInv,
         \A q \in Process \ {Orch} : Kept(q),
         UNCHANGED <<cursor, incidents, actions, ledger>>,
         CreatesFresh(Orch)', TickInv', OneCreation(own[Orch])'
  PROVE  IncidentInv'
<1>1. LedgerInv'
  BY DEF IncidentInv, LedgerInv, OneCreation, Exists
<1>2. RowsInv'
  BY DEF IncidentInv, RowsInv, Exists, UpTo, Matches
<1>. QED
  BY <1>1, <1>2, WorkerStep DEF Exists

LEMMA WorkerMoveInc ==
  ASSUME TypeInv, IncidentInv, Transact(Orch)
  PROVE  IncidentInv'
<1>. Orch \in Process /\ TypeOK /\ CreatesFresh(Orch) /\ TickInv /\ OneCreation(own[Orch])
  BY OrchProcess DEF TypeInv, IncidentInv, LedgerInv
<1>. cur[Orch] \in Action /\ work \subseteq Action
  BY DEF TypeOK
<1>1. /\ \A q \in Process \ {Orch} : Kept(q)
      /\ cur'[Orch] = cur[Orch]
      /\ UNCHANGED <<work, upto, cursor, incidents, actions, ledger>>
  BY MovesKeep
<1>2. \A a \in Action : (Exists(a)' <=> Exists(a)) /\ (UpTo(a, upto)' <=> UpTo(a, upto))
  BY <1>1 DEF Exists, UpTo, Matches
<1>3. CASE Flush(Orch)
  <2>1. /\ goal[Orch] # "none" /\ InTransition(Orch)
        /\ \A a \in Action : Written(Orch, a)' <=> Written(Orch, a) \/ a = cur[Orch]
    BY <1>3, FlushFacts DEF CreatesFresh, InTransition, Written
  <2>2. Responding' <=> Responding
    BY <1>3, <2>1, FlushFacts, OrchProcess
       DEF Responding, Expiring, InTransition, After, Stop, End
  <2>3. \A a \in Action : Begun(a)' <=> Begun(a)
    BY <1>1, <1>3, <2>1, FlushFacts DEF Begun
  <2>4. /\ InTransition(Orch)' => goal'[Orch] # "none" /\ row'[Orch].state # "none"
        /\ pc'[Orch] = "effect" => row'[Orch].state # "none"
    BY <1>3, <2>1, FlushFacts
  <2>5. \A e \in own'[Orch] : e.from = "none" => Written(Orch, e.action)' /\ ~Exists(e.action)'
    <3>1. \A e \in own[Orch] : e.action \in Action
      BY DEF TypeOK, Entry
    <3>. QED
      BY <1>2, <1>3, <2>1, <3>1, FlushFacts DEF CreatesFresh
  <2>6. CreatesFresh(Orch)'
    BY <2>4, <2>5 DEF CreatesFresh
  <2>7. OneCreation(own[Orch])'
    BY <1>3, <2>1, FlushFacts DEF OneCreation, CreatesFresh
  <2>8. Responding => cur[Orch] \notin work
    BY <2>1 DEF TickInv, InTransition
  <2>9. TickInv'
    BY <1>1, <1>2, <2>1, <2>2, <2>3, <2>8 DEF TickInv
  <2>. QED
    BY <1>1, <2>6, <2>7, <2>9, InsideTick
<1>4. CASE ~Flush(Orch)
  <2>1. /\ pc[Orch] \in {"select", "effect", "write"}
        /\ pc'[Orch] \in {"select", "flush", "respond"}
        /\ row'[Orch].state = row[Orch].state
        /\ dirty'[Orch] = dirty[Orch] /\ own'[Orch] = own[Orch]
        /\ pc[Orch] = "select" => pc'[Orch] = "flush" /\ goal'[Orch] = goal[Orch]
        /\ pc[Orch] = "effect" => pc'[Orch] = "select" /\ goal'[Orch] \in {"executed", "failed"}
        /\ pc[Orch] = "write" => pc'[Orch] = "respond"
    BY <1>4, SelectFacts, EffectFacts, WriteFacts, OrchProcess DEF Transact, End
  <2>2. Responding' <=> Responding
    BY <2>1 DEF Responding, Expiring, InTransition
  <2>3. \A a \in Action : Written(Orch, a)' <=> Written(Orch, a)
    BY <2>1 DEF Written
  <2>4. \A a \in Action : Begun(a)' <=> Begun(a)
    <3>1. pc[Orch] = "effect" => Responding
      BY DEF Responding, Expiring, InTransition
    <3>. QED
      BY <1>1, <2>1, <2>3, <3>1 DEF Begun, InTransition, TickInv
  <2>5. CreatesFresh(Orch)'
    <3>1. \A e \in own[Orch] : e.action \in Action
      BY DEF TypeOK, Entry
    <3>. QED
      BY <1>1, <1>2, <2>1, <2>2, <2>3, <3>1 DEF CreatesFresh, InTransition
  <2>6. OneCreation(own[Orch])'
    BY <2>1 DEF OneCreation
  <2>7. TickInv'
    BY <1>1, <1>2, <2>1, <2>2, <2>3, <2>4 DEF TickInv
  <2>. QED
    BY <1>1, <2>5, <2>6, <2>7, InsideTick
<1>. QED
  BY <1>3, <1>4

LEMMA StartTickInc ==
  ASSUME TypeInv, IncidentInv, StartTick
  PROVE  IncidentInv'
<1>. Orch \in Process /\ TypeOK /\ CreatesFresh(Orch) /\ TickInv /\ OneCreation(own[Orch])
  BY OrchProcess DEF TypeInv, IncidentInv, LedgerInv
<1>1. /\ pc[Orch] = "idle" /\ pc' = [pc EXCEPT ![Orch] = "expire"] /\ work' = Lapsed
      /\ UNCHANGED <<cur, row, goal, dirty, own, upto, cursor, incidents, actions, ledger>>
  BY DEF StartTick, db, world, buffer
<1>2. pc'[Orch] = "expire" /\ \A q \in Process \ {Orch} : Kept(q)
  BY <1>1 DEF TypeOK, Kept
<1>3. CreatesFresh(Orch)'
  BY <1>1, <1>2 DEF CreatesFresh, InTransition, Written, Exists
<1>4. \A a \in Action : Begun(a)' => Exists(a)'
  BY <1>1, <1>2 DEF Begun, TickInv, InTransition, Written, Exists, Responding, Lapsed
<1>5. TickInv'
  BY <1>2, <1>4 DEF TickInv, Responding, Expiring
<1>. QED
  BY <1>1, <1>2, <1>3, <1>5, InsideTick

LEMMA ExpireInc ==
  ASSUME TypeInv, IncidentInv, Expire
  PROVE  IncidentInv'
<1>. Orch \in Process /\ TypeOK /\ CreatesFresh(Orch) /\ TickInv /\ OneCreation(own[Orch])
  BY OrchProcess DEF TypeInv, IncidentInv, LedgerInv
<1>1. PICK a \in work : /\ work' = work \ {a}
                        /\ Begin(Orch, a, NewRow("pending_approval"), "expired")
  BY DEF Expire
<1>2. /\ pc[Orch] = "expire" /\ UNCHANGED <<dirty, own>>
      /\ UNCHANGED <<upto, cursor, incidents, actions, ledger>>
  BY DEF Expire, db, world, buffer
<1>3. /\ \A q \in Process \ {Orch} : Kept(q)
      /\ pc'[Orch] = "select" /\ cur'[Orch] = a /\ row'[Orch] = NewRow("pending_approval")
      /\ goal'[Orch] = "expired" /\ dirty'[Orch] = dirty[Orch] /\ own'[Orch] = own[Orch]
  BY <1>1, <1>2, BeginKeeps
<1>4. NewRow("pending_approval").state = "pending_approval"
  BY DEF NewRow
<1>5. CreatesFresh(Orch)'
  BY <1>2, <1>3, <1>4 DEF CreatesFresh, InTransition, Written, Exists
<1>6. \A b \in Action : Begun(b)' => Exists(b)'
  BY <1>1, <1>2, <1>3 DEF Begun, TickInv, InTransition, Written, Exists, Responding, Expiring
<1>7. TickInv'
  BY <1>3, <1>6 DEF TickInv, Responding, Expiring, InTransition
<1>. QED
  BY <1>2, <1>3, <1>5, <1>7, InsideTick DEF OneCreation

LEMMA FetchInc ==
  ASSUME TypeInv, IncidentInv, FetchIncidents
  PROVE  IncidentInv'
<1>. Orch \in Process /\ TypeOK /\ CreatesFresh(Orch) /\ TickInv /\ OneCreation(own[Orch])
  BY OrchProcess DEF TypeInv, IncidentInv, LedgerInv
<1>1. /\ pc[Orch] = "expire" /\ pc' = [pc EXCEPT ![Orch] = "respond"]
      /\ upto' = BatchEnd /\ work' = Selected(upto')
      /\ UNCHANGED <<cur, row, goal, dirty, own, cursor, incidents, actions, ledger>>
  BY DEF FetchIncidents, db, world, buffer
<1>2. pc'[Orch] = "respond" /\ \A q \in Process \ {Orch} : Kept(q)
  BY <1>1 DEF TypeOK, Kept
<1>3. CreatesFresh(Orch)'
  BY <1>1, <1>2 DEF CreatesFresh, InTransition, Written, Exists
<1>4. cursor \in Nat /\ upto' \in Nat /\ cursor <= upto'
  BY <1>1, ConstantsAssumption DEF BatchEnd, TypeOK
<1>5. \A a \in Action : a[1] \in Nat
  BY ConstantsAssumption DEF Action, IncidentId
<1>6. ~Responding /\ Responding'
  BY <1>1, <1>2 DEF Responding, Expiring, InTransition
<1>7. /\ \A a \in Action : Exists(a)' <=> Exists(a)
      /\ \A a \in Action : Written(Orch, a)' <=> Written(Orch, a)
      /\ \A a \in Action : Written(Orch, a) => Exists(a)
      /\ \A a \in Action : Exists(a) <=> UpTo(a, cursor)
      /\ \A a \in Action : Exists(a) <=> actions[a] # Absent
  BY <1>1, <1>6, AbsentState DEF Exists, Written, TickInv, Begun, IncidentInv, RowsInv
<1>8. \A a \in Action : UpTo(a, upto)' <=> a[1] <= upto' /\ Matches(a[2], incidents[a[1]])
  BY <1>1 DEF UpTo, Matches
<1>9. \A a \in Action : a \in work' <=> /\ a[1] > cursor /\ a[1] <= upto'
                                        /\ Matches(a[2], incidents[a[1]])
  <2>. SUFFICES ASSUME NEW a \in Action
                PROVE  a \in work' <=> /\ a[1] > cursor /\ a[1] <= upto'
                                       /\ Matches(a[2], incidents[a[1]])
    OBVIOUS
  <2>1. a[1] \in (cursor + 1) .. upto' <=> a[1] > cursor /\ a[1] <= upto'
    BY <1>4, <1>5
  <2>2. a[1] > cursor => \A b \in Action : b[1] = a[1] => actions[b] = Absent
    BY <1>4, <1>5, <1>7 DEF UpTo
  <2>. QED
    BY <1>1, <2>1, <2>2 DEF Selected
<1>10. \A a \in Action : Exists(a)' \/ Begun(a)' <=> UpTo(a, upto)'
  <2>1. \A a \in Action : Begun(a)' <=> a \in work' \/ Written(Orch, a)'
    BY <1>2 DEF Begun, InTransition
  <2>. QED
    BY <2>1, <1>4, <1>5, <1>7, <1>8, <1>9 DEF UpTo
<1>11. \A a \in work' : ~Exists(a)' /\ ~Written(Orch, a)'
  BY <1>1, <1>4, <1>5, <1>7, <1>9 DEF UpTo, Selected
<1>12. TickInv'
  BY <1>1, <1>2, <1>4, <1>6, <1>10, <1>11 DEF TickInv
<1>. QED
  BY <1>1, <1>2, <1>3, <1>12, InsideTick

LEMMA CreateInc ==
  ASSUME TypeInv, IncidentInv, CreateAction
  PROVE  IncidentInv'
<1>. Orch \in Process /\ TypeOK /\ CreatesFresh(Orch) /\ TickInv /\ OneCreation(own[Orch])
  BY OrchProcess DEF TypeInv, IncidentInv, LedgerInv
<1>. DEFINE s(a) == IF Def(a).blast = "high" THEN "pending_approval" ELSE "queued"
<1>1. PICK a \in work : work' = work \ {a} /\ Begin(Orch, a, Absent, s(a))
  BY DEF CreateAction
<1>2. /\ pc[Orch] = "respond" /\ UNCHANGED <<dirty, own>>
      /\ UNCHANGED <<upto, cursor, incidents, actions, ledger>>
  BY DEF CreateAction, db, world, buffer
<1>3. /\ \A q \in Process \ {Orch} : Kept(q)
      /\ pc'[Orch] = "select" /\ cur'[Orch] = a /\ row'[Orch] = Absent
      /\ goal'[Orch] = s(a) /\ dirty'[Orch] = dirty[Orch] /\ own'[Orch] = own[Orch]
  BY <1>1, <1>2, BeginKeeps
<1>4. Responding /\ Responding' /\ s(a) # "none"
  BY <1>2, <1>3 DEF Responding, Expiring, InTransition
<1>5. a \in Action /\ ~Exists(a) /\ ~Written(Orch, a)
  BY <1>4 DEF TickInv, TypeOK
<1>6. \A b \in Action : /\ Exists(b)' <=> Exists(b)
                        /\ Written(Orch, b)' <=> Written(Orch, b)
                        /\ UpTo(b, upto)' <=> UpTo(b, upto)
  BY <1>2 DEF Exists, Written, UpTo, Matches
<1>7. CreatesFresh(Orch)'
  <2>1. \A e \in own[Orch] : e.action \in Action
    BY DEF TypeOK, Entry
  <2>. QED
    BY <1>2, <1>3, <1>4, <1>5, <1>6, <2>1 DEF CreatesFresh
<1>8. \A b \in Action : Begun(b)' <=> Begun(b)
  BY <1>1, <1>2, <1>3, <1>5, <1>6 DEF Begun, InTransition
<1>9. TickInv'
  <2>1. work \subseteq Action
    BY DEF TypeOK
  <2>. QED
    BY <1>1, <1>2, <1>3, <1>4, <1>6, <1>8, <2>1 DEF TickInv
<1>. QED
  BY <1>2, <1>3, <1>7, <1>9, InsideTick DEF OneCreation

LEMMA CommitTickInc ==
  ASSUME TypeInv, IncidentInv, CommitTick
  PROVE  IncidentInv'
<1>. Orch \in Process /\ TypeOK /\ CreatesFresh(Orch) /\ TickInv /\ LedgerInv /\ RowsInv
  BY OrchProcess DEF TypeInv, IncidentInv
<1>1. /\ pc[Orch] = "respond" /\ work = {} /\ cursor' = upto
      /\ Commit(Orch, dirty[Orch]) /\ Close(Orch) /\ UNCHANGED <<incidents, work>>
  BY DEF CommitTick, CursorMoved, world
<1>2. /\ \A a \in Action : Exists(a)' <=> Exists(a) \/ Written(Orch, a)
      /\ \A a \in Action : ~Written(Orch, a) => actions'[a] = actions[a]
      /\ ledger' = ledger \cup own[Orch]
  BY <1>1, CommitRows DEF TypeOK
<1>3. /\ \A q \in Process \ {Orch} : Kept(q)
      /\ pc'[Orch] = "idle" /\ own'[Orch] = {} /\ \A a \in Action : ~Written(Orch, a)'
  BY <1>1, CloseKeeps
<1>4. Responding /\ ~Responding'
  BY <1>1, <1>3 DEF Responding, Expiring, InTransition
<1>5. CreatesFresh(Orch)'
  BY <1>3 DEF CreatesFresh, InTransition
<1>6. TickInv'
  BY <1>1, <1>3, <1>4 DEF TickInv, Begun, InTransition
<1>7. \A e \in ledger \cup own[Orch] : e.action \in Action
  BY DEF TypeOK, Entry
<1>8. LedgerInv'
  <2>1. \A e \in ledger' : e.from = "none" => Exists(e.action)'
    BY <1>2, <1>7 DEF LedgerInv, CreatesFresh
  <2>2. OneCreation(ledger')
    BY <1>2, <1>7 DEF LedgerInv, CreatesFresh, OneCreation
  <2>3. OneCreation(own'[Orch])
    BY <1>3 DEF OneCreation
  <2>. QED
    BY <2>1, <2>2, <2>3 DEF LedgerInv, OneCreation
<1>9. RowsInv'
  <2>1. \A a \in Action : Exists(a)' \/ actions'[a] = Absent
    BY <1>2 DEF RowsInv
  <2>2. \A a \in Action : Begun(a) <=> Written(Orch, a)
    BY <1>1 DEF Begun, InTransition
  <2>3. \A a \in Action : UpTo(a, cursor)' <=> UpTo(a, upto)
    BY <1>1 DEF UpTo, Matches
  <2>. QED
    BY <1>2, <1>4, <2>1, <2>2, <2>3 DEF RowsInv, TickInv
<1>. QED
  BY <1>2, <1>3, <1>5, <1>6, <1>8, <1>9, WorkerStep

LEMMA WorkerCrashInc ==
  ASSUME TypeInv, IncidentInv, Crash(Orch)
  PROVE  IncidentInv'
<1>. Orch \in Process /\ TypeOK
  BY OrchProcess DEF TypeInv
<1>1. Close(Orch) /\ work' = {} /\ UNCHANGED <<incidents, cursor, actions, ledger>>
  BY DEF Crash, db
<1>2. /\ \A q \in Process \ {Orch} : Kept(q)
      /\ pc'[Orch] = "idle" /\ own'[Orch] = {} /\ \A a \in Action : ~Written(Orch, a)'
  BY <1>1, CloseKeeps
<1>3. CreatesFresh(Orch)' /\ OneCreation(own[Orch])'
  BY <1>2 DEF CreatesFresh, InTransition, OneCreation
<1>4. TickInv'
  BY <1>1, <1>2 DEF TickInv, Begun, InTransition, Responding
<1>. QED
  BY <1>1, <1>2, <1>3, <1>4, InsideTick

----------------------------------------------------------------------------
(* The environment, and all steps *)

\* A new incident lies beyond the cursor and the batch of an open tick.
LEMMA OpenIncidentInc ==
  ASSUME TypeInv, IncidentInv, OpenIncident
  PROVE  IncidentInv'
<1>. TypeOK
  BY DEF TypeInv
<1>1. /\ UNCHANGED <<actions, ledger, cursor, work, upto, pc, cur, row, goal, dirty, own>>
      /\ \E inc \in Profile : incidents' = Append(incidents, inc)
  BY DEF OpenIncident, db, buffer, tick
<1>2. \A i \in 1 .. Len(incidents) : incidents'[i] = incidents[i]
  BY <1>1 DEF TypeOK
<1>3. \A a \in Action : a[1] \in Nat \ {0}
  BY ConstantsAssumption DEF Action, IncidentId
<1>4. \A a \in Action : /\ UpTo(a, upto)' <=> UpTo(a, upto)
                        /\ UpTo(a, cursor)' <=> UpTo(a, cursor)
  <2>. SUFFICES ASSUME NEW a \in Action, NEW last \in 0 .. Len(incidents), a[1] <= last
                PROVE  incidents'[a[1]] = incidents[a[1]]
    BY <1>1 DEF UpTo, Matches, TypeOK
  <2>. QED
    BY <1>2, <1>3
<1>. HIDE DEF IncidentInv
<1>5. (\A p \in Process : CreatesFresh(p)') /\ (\A r \in Request : Decides(r)')
  BY <1>1 DEF IncidentInv, CreatesFresh, Decides, InTransition, Responding, Expiring,
              Written, Exists
<1>6. TickInv'
  BY <1>1, <1>4 DEF IncidentInv, TickInv, Begun, InTransition, Responding, Expiring, Written, Exists
<1>7. LedgerInv' /\ RowsInv'
  BY <1>1, <1>4 DEF IncidentInv, LedgerInv, RowsInv, OneCreation, Exists
<1>. QED
  BY <1>5, <1>6, <1>7 DEF IncidentInv

LEMMA StutterInc ==
  ASSUME IncidentInv, TimeOut \/ UNCHANGED vars
  PROVE  IncidentInv'
<1>1. UNCHANGED <<actions, ledger, cursor, incidents, work, upto, pc, cur, row, goal, dirty, own>>
  BY DEF TimeOut, db, buffer, tick, vars, world
<1>. QED
  BY <1>1 DEF IncidentInv, CreatesFresh, Decides, TickInv, LedgerInv, RowsInv, OneCreation, Begun,
              InTransition, Responding, Expiring, Written, Exists, UpTo, Matches

LEMMA InitInc == Init => IncidentInv
<1>. SUFFICES ASSUME Init PROVE IncidentInv
  OBVIOUS
<1>1. \A a \in Action : NoRows[a] = Absent
  BY DEF NoRows
<1>2. /\ \A a \in Action : ~Exists(a) /\ actions[a] = Absent
      /\ \A p \in Process : pc[p] = "idle" /\ own[p] = {} /\ \A a \in Action : ~Written(p, a)
      /\ work = {} /\ cursor = 0 /\ ledger = {}
  BY <1>1, AbsentState DEF Init, Exists, Written
<1>3. \A a \in Action : ~UpTo(a, cursor)
  BY <1>2, ConstantsAssumption DEF UpTo, Action, IncidentId
<1>. QED
  BY <1>2, <1>3, OrchProcess DEF IncidentInv, CreatesFresh, Decides, TickInv, LedgerInv, RowsInv,
     OneCreation, Begun, InTransition, Responding

LEMMA NextInc == TypeInv /\ IncidentInv /\ [Next]_vars => IncidentInv'
<1>. SUFFICES ASSUME TypeInv, IncidentInv, [Next]_vars PROVE IncidentInv'
  OBVIOUS
<1>1. CASE Tick
  BY <1>1, StartTickInc, ExpireInc, FetchInc, CreateInc, CommitTickInc, WorkerMoveInc DEF Tick
<1>2. ASSUME NEW r \in Request, Receive(r) \/ TurnAway(r) \/ Handle(r) PROVE IncidentInv'
  BY <1>2, ReceiveInc, FinishInc, DecideInc, CommitDecisionInc, RequestMoveInc DEF Handle
<1>3. ASSUME NEW p \in Process, Crash(p) PROVE IncidentInv'
  BY <1>3, WorkerCrashInc, FinishInc DEF Process
<1>4. CASE OpenIncident \/ TimeOut \/ UNCHANGED vars
  BY <1>4, OpenIncidentInc, StutterInc
<1>. QED
  BY <1>1, <1>2, <1>3, <1>4 DEF Next

\* What the invariant says of the committed rows and ledger.
LEMMA IncidentInvSuffices == IncidentInv => EachIncidentOnce
<1>. SUFFICES ASSUME IncidentInv, NEW a \in Action
              PROVE  /\ (actions[a] # Absent) <=> (a[1] <= cursor /\ Matches(a[2], incidents[a[1]]))
                     /\ Cardinality({e \in Records(a) : e.from = "none"}) <= 1
  BY DEF EachIncidentOnce
<1>1. (actions[a] # Absent) <=> (a[1] <= cursor /\ Matches(a[2], incidents[a[1]]))
  BY AbsentState DEF IncidentInv, RowsInv, Exists, UpTo
<1>. DEFINE C == {e \in Records(a) : e.from = "none"}
<1>2. \A d, e \in C : d = e
  BY DEF IncidentInv, LedgerInv, OneCreation, Records
<1>3. C = {} \/ \E e : C = {e}
  BY <1>2
<1>4. Cardinality(C) <= 1
  <2>1. Cardinality({}) = 0
    BY FS_EmptySet
  <2>2. \A e : Cardinality({e}) = 1
    BY FS_Singleton
  <2>3. CASE C = {}
    BY <2>1, <2>3
  <2>4. ASSUME NEW e, C = {e} PROVE Cardinality(C) <= 1
    <3>1. Cardinality({e}) = 1
      BY <2>2
    <3>. HIDE DEF C
    <3>2. Cardinality(C) = 1
      BY <2>4, <3>1
    <3>. QED
      BY <3>2
  <2>. QED
    BY <1>3, <2>3, <2>4
<1>. QED
  BY <1>1, <1>4

\* Through crashes, restarts and overlapping requests no incident is skipped and none
\* is answered twice, for any playbooks, batch size and number of incidents.
\* (ResponseOrchestrator.tick: the cursor commits with the actions.)
THEOREM EachIncidentOnceHolds == Spec => []EachIncidentOnce
<1>1. TypeInv /\ IncidentInv /\ [Next]_vars => TypeInv' /\ IncidentInv'
  BY TypeNext, NextInc
<1>. QED
  BY <1>1, TypeInit, InitInc, IncidentInvSuffices, PTL DEF Spec
=============================================================================
