--------------------------- MODULE ResponseProofs ---------------------------
(***************************************************************************)
(* Proofs about ResponseOrchestrator, for every value of its constants and *)
(* any number of overlapping transactions: type correctness, and that no   *)
(* high-blast action executes without an approval in the ledger.           *)
(***************************************************************************)
EXTENDS ResponseProperties, TLAPS

\* TypeOK is not inductive alone: WriteEntity needs an effector to exist.
EffectorKnown ==
  \A p \in Process :
    \/ pc[p] \in {"select", "flush"} /\ goal[p] = "executed"
    \/ pc[p] = "write"
    => Def(cur[p]).type \in DOMAIN EffectOf

\* A request past its role gate was sent by an approver.
SenderApproved ==
  \A r \in Request : pc[r] \notin {"idle", "done"} => job[r].user \in Approver

TypeInv == TypeOK /\ EffectorKnown /\ SenderApproved

----------------------------------------------------------------------------
\* Starting a transition keeps the types: of p's action, object and goal.
LEMMA BeginType ==
  ASSUME TypeOK, NEW p \in Process, NEW a \in Action, NEW r \in Row,
         NEW s \in State, Begin(p, a, r, s)
  PROVE  /\ cur'  \in [Process -> Action]
         /\ row'  \in [Process -> Row]
         /\ goal' \in [Process -> State]
         /\ pc'   = [pc EXCEPT ![p] = "select"]
         /\ pc'   \in [Process -> {"idle", "lookup", "select", "flush", "effect", "write",
                                   "commit", "refresh", "expire", "respond", "done"}]
BY DEF TypeOK, Begin

\* A fresh row object of any state has the type of a row.
LEMMA NewRowType == ASSUME NEW s \in State PROVE NewRow(s) \in Row
BY DEF NewRow, Row

\* Changing a column of a row object to a value of its type keeps its type.
LEMMA RowMoveType ==
  ASSUME NEW r \in Row, NEW s \in State
  PROVE  [r EXCEPT !.state = s] \in Row /\ [r EXCEPT !.attempt = @ + 1] \in Row
BY DEF Row

LEMMA RowSignType ==
  ASSUME NEW r \in Row, NEW u \in User PROVE [r EXCEPT !.decidedBy = u] \in Row
BY DEF Row

LEMMA RowKeyType ==
  ASSUME NEW r \in Row, NEW k \in Key \cup {NoKey} PROVE [r EXCEPT !.idem = k] \in Row
BY DEF Row

\* What an UPDATE leaves in the table is a row.
LEMMA OverwriteType ==
  ASSUME NEW old \in Row, NEW new \in Row PROVE Overwrite(old, new) \in Row
BY DEF Overwrite, Row

\* The default of cur exists.
LEMMA AnyActionType == AnyAction \in Action
<1>1. PICK pb \in Playbook : TRUE
  BY ConstantsAssumption
<1>2. <<1, pb>> \in Action
  BY <1>1, ConstantsAssumption DEF Action, IncidentId
<1> QED
  BY <1>2 DEF AnyAction

\* A transaction that ends leaves its process at one of these.
Ended(p) == \E l \in {"idle", "done", "refresh"}, a \in Action : Leave(p, l, a)

LEMMA CloseEnds == ASSUME NEW p, Close(p) PROVE Ended(p)
<1>1. PICK l \in {"idle", "done"} : Leave(p, l, AnyAction)
  BY DEF Close
<1> QED
  BY <1>1, AnyActionType DEF Ended

\* Ending a transaction keeps the types of all it resets.
LEMMA EndType ==
  ASSUME TypeOK, NEW p \in Process, Ended(p)
  PROVE  /\ pc'      \in [Process -> {"idle", "lookup", "select", "flush", "effect",
                                      "write", "commit", "refresh", "expire", "respond", "done"}]
         /\ cur'     \in [Process -> Action]
         /\ row'     \in [Process -> Row]
         /\ goal'    \in [Process -> State]
         /\ link'    \in [Process -> Nat]
         /\ dirty'   \in [Process -> [Action -> Row]]
         /\ own'     \in [Process -> SUBSET Entry]
         /\ touched' \in [Process -> [Entity -> Status \cup {"none", "kept"}]]
         /\ same'    \in [Process -> BOOLEAN]
<1>1. Absent \in Row /\ "none" \in State
  BY NewRowType DEF Absent, State
<1>2. NoRows \in [Action -> Row] /\ NoStatuses \in [Entity -> Status \cup {"none", "kept"}]
  BY <1>1 DEF NoRows, NoStatuses
<1>3. PICK l \in {"idle", "done", "refresh"}, a \in Action : Leave(p, l, a)
  BY DEF Ended
<1> QED
  BY <1>1, <1>2, <1>3 DEF TypeOK, Leave

\* A commit of well-typed rows keeps the tables well typed.
LEMMA CommitType ==
  ASSUME TypeOK, NEW p \in Process, NEW rows \in [Action -> Row], Commit(p, rows)
  PROVE  /\ actions'  \in [Action -> Row]
         /\ entities' \in [Entity -> Status]
         /\ ledger'   \subseteq Entry
<1>1. actions' \in [Action -> Row]
  BY OverwriteType DEF TypeOK, Commit
<1>2. entities' \in [Entity -> Status]
  <2>1. touched[p] \in [Entity -> Status \cup {"none", "kept"}] /\ entities \in [Entity -> Status]
    BY DEF TypeOK
  <2>2. \A e \in Entity : (IF touched[p][e] \in Status THEN touched[p][e]
                                                       ELSE entities[e]) \in Status
    BY <2>1
  <2> QED
    BY <2>2 DEF Commit
<1>3. ledger' \subseteq Entry
  BY DEF TypeOK, Commit
<1> QED
  BY <1>1, <1>2, <1>3

----------------------------------------------------------------------------
LEMMA TypeInit == Init => TypeInv
<1> SUFFICES ASSUME Init PROVE TypeInv
  OBVIOUS
<1>1. Absent \in Row /\ "none" \in State
  BY NewRowType DEF Absent, State
<1>2. NoRows \in [Action -> Row] /\ NoStatuses \in [Entity -> Status \cup {"none", "kept"}]
  BY <1>1 DEF NoRows, NoStatuses
<1>3. \A r \in Request : NoJob \in [user : User \cup {Nobody}, key : Key \cup {NoKey},
                                    decision : {"approve", "reject"}]
  BY DEF NoJob
<1>4. \A r \in Request : NoAnswer \in [code : {0, 200, 403, 404, 409, 500},
                                       replayed : BOOLEAN, state : State]
  BY <1>1 DEF NoAnswer
<1>5. "active" \in Status
  BY DEF Status
<1>6. TypeOK
  BY <1>1, <1>2, <1>3, <1>4, <1>5, AnyActionType DEF Init, TypeOK
<1>7. EffectorKnown
  BY DEF Init, EffectorKnown
<1>8. SenderApproved
  BY DEF Init, SenderApproved, Process
<1> QED
  BY <1>6, <1>7, <1>8 DEF TypeInv

\* One step of a transition, of an effector, or of its write to the entity.
LEMMA TransactType ==
  ASSUME TypeInv, NEW p \in Process, Transact(p) PROVE TypeInv'
<1> USE DEF db, world, buffer, tick, http
<1>0. TypeOK /\ EffectorKnown /\ SenderApproved
  BY DEF TypeInv
<1>r. row[p] \in Row /\ goal[p] \in State /\ cur[p] \in Action
  BY <1>0 DEF TypeOK
<1>s. ASSUME pc[p] \notin {"idle", "done"}, UNCHANGED job,
             \E v : pc' = [pc EXCEPT ![p] = v]
      PROVE  SenderApproved'
  BY <1>0, <1>s DEF SenderApproved, TypeOK
<1>1. CASE SelectLast(p)
  <2>1. PICK l \in {0} \cup {e.seq : e \in ledger \cup own[p]} :
          link' = [link EXCEPT ![p] = l]
    BY <1>1 DEF SelectLast, Visible
  <2>2. link' \in [Process -> Nat]
    <3>1. ledger \cup own[p] \subseteq Entry
      BY <1>0 DEF TypeOK
    <3>2. l \in Nat
      BY <2>1, <3>1 DEF Entry
    <3> QED
      BY <1>0, <2>1, <3>2 DEF TypeOK
  <2>3. TypeOK'
    BY <1>0, <1>1, <2>2 DEF SelectLast, TypeOK
  <2>4. EffectorKnown'
    BY <1>0, <1>1 DEF SelectLast, EffectorKnown, TypeOK
  <2>5. SenderApproved'
    BY <1>1, <1>s DEF SelectLast
  <2> QED
    BY <2>3, <2>4, <2>5 DEF TypeInv
<1>2. CASE Flush(p)
  <2>1. [row[p] EXCEPT !.state = goal[p]] \in Row
    BY <1>r, RowMoveType
  <2>2. Actor(p) \in User \cup {Orch}
    BY <1>0, <1>2, ConstantsAssumption DEF Flush, Actor, SenderApproved
  <2>3. NewEntry(p) \in Entry
    <3>1. row[p].state \in State
      BY <1>r DEF Row
    <3>2. nextSeq \in Nat \ {0} /\ link[p] \in Nat
      BY <1>0 DEF TypeOK
    <3> QED
      BY <1>r, <2>2, <3>1, <3>2 DEF NewEntry, Entry
  <2>4. dirty' \in [Process -> [Action -> Row]] /\ own' \in [Process -> SUBSET Entry]
    BY <1>0, <1>r, <1>2, <2>1, <2>3 DEF Flush, TypeOK
  <2>5. row' \in [Process -> Row]
    BY <1>0, <1>2, <2>1 DEF Flush, TypeOK
  <2>6. pc' \in [Process -> {"idle", "lookup", "select", "flush", "effect", "write",
                             "commit", "refresh", "expire", "respond", "done"}]
    BY <1>0, <1>2 DEF Flush, TypeOK, After, Stop, End
  <2>7. goal' \in [Process -> State] /\ link' \in [Process -> Nat]
    BY <1>0, <1>2 DEF Flush, TypeOK, State
  <2>8. TypeOK'
    BY <1>0, <1>2, <2>4, <2>5, <2>6, <2>7 DEF Flush, TypeOK
  <2>9. EffectorKnown'
    BY <1>0, <1>2 DEF Flush, EffectorKnown, TypeOK, After, Stop, End
  <2>10. SenderApproved'
    BY <1>2, <1>s DEF Flush
  <2> QED
    BY <2>8, <2>9, <2>10 DEF TypeInv
<1>3. CASE Effect(p)
  <2>1. PICK s \in {"executed", "failed"} :
          /\ s = "executed" => Def(cur[p]).type \in DOMAIN EffectOf
          /\ Begin(p, cur[p], [row[p] EXCEPT !.attempt = @ + 1], s)
    BY <1>3 DEF Effect
  <2>2. [row[p] EXCEPT !.attempt = @ + 1] \in Row /\ s \in State
    BY <1>r, RowMoveType DEF State
  <2>3. TypeOK'
    <3> HIDE DEF db, world, buffer, tick, http
    <3>1. /\ cur'  \in [Process -> Action]
          /\ row'  \in [Process -> Row]
          /\ goal' \in [Process -> State]
          /\ pc'   \in [Process -> {"idle", "lookup", "select", "flush", "effect", "write",
                                    "commit", "refresh", "expire", "respond", "done"}]
      BY <1>0, <1>r, <2>1, <2>2, BeginType
    <3> QED
      BY <1>0, <1>3, <3>1 DEF Effect, TypeOK, db, world, buffer, tick, http
  <2>4. EffectorKnown'
    BY <1>0, <2>1 DEF Begin, EffectorKnown, TypeOK
  <2>5. SenderApproved'
    BY <1>3, <2>1, <1>s DEF Begin, Effect
  <2> QED
    BY <2>3, <2>4, <2>5 DEF TypeInv
<1>4. CASE WriteEntity(p)
  <2> DEFINE e == EntityOf(cur[p])
             s == EffectOf[Def(cur[p]).type]
  <2>1. s \in Status
    BY <1>0, <1>4 DEF WriteEntity, EffectorKnown, EffectOf, Status
  <2>2. \/ touched' = touched
        \/ \E v \in Status \cup {"kept"} : touched' = [touched EXCEPT ![p][e] = v]
    <3>1. touched = [touched EXCEPT ![p][e] = @]
      BY <1>0 DEF TypeOK
    <3> QED
      BY <1>4, <2>1, <3>1 DEF WriteEntity
  <2>3. touched' \in [Process -> [Entity -> Status \cup {"none", "kept"}]]
    <3> HIDE DEF e, s
    <3>1. touched \in [Process -> [Entity -> Status \cup {"none", "kept"}]]
      BY <1>0 DEF TypeOK
    <3>2. ASSUME NEW v \in Status \cup {"kept"}, touched' = [touched EXCEPT ![p][e] = v]
          PROVE  touched' \in [Process -> [Entity -> Status \cup {"none", "kept"}]]
      BY <3>1, <3>2
    <3> QED
      BY <2>2, <3>1, <3>2
  <2>4. TypeOK'
    BY <1>0, <1>4, <2>3 DEF WriteEntity, TypeOK, After, Stop, End
  <2>5. EffectorKnown'
    BY <1>0, <1>4 DEF WriteEntity, EffectorKnown, TypeOK, After, Stop, End
  <2>6. SenderApproved'
    BY <1>4, <1>s DEF WriteEntity
  <2> QED
    BY <2>4, <2>5, <2>6 DEF TypeInv
<1> QED
  BY <1>1, <1>2, <1>3, <1>4 DEF Transact

\* One step of the worker's own.
LEMMA TickType == ASSUME TypeInv, Tick PROVE TypeInv'
<1> USE DEF db, world, buffer, tick, http
<1>0. TypeOK /\ EffectorKnown /\ SenderApproved
  BY DEF TypeInv
<1>o. Orch \in Process /\ Orch \notin Request
  BY ConstantsAssumption DEF Process
<1>s. ASSUME UNCHANGED job, \E v : pc' = [pc EXCEPT ![Orch] = v]
      PROVE  SenderApproved'
  BY <1>0, <1>o, <1>s DEF SenderApproved, TypeOK
<1>1. CASE StartTick
  <2>1. TypeOK'
    BY <1>0, <1>1 DEF StartTick, TypeOK, Lapsed
  <2>2. EffectorKnown'
    BY <1>0, <1>1 DEF StartTick, EffectorKnown, TypeOK
  <2>3. SenderApproved'
    BY <1>1, <1>s DEF StartTick
  <2> QED
    BY <2>1, <2>2, <2>3 DEF TypeInv
<1>2. CASE Expire
  <2>1. PICK a \in work : /\ work' = work \ {a}
                          /\ Begin(Orch, a, NewRow("pending_approval"), "expired")
    BY <1>2 DEF Expire
  <2>2. /\ a \in Action /\ NewRow("pending_approval") \in Row /\ "expired" \in State
        /\ work' \subseteq Action
    BY <1>0, <2>1, NewRowType DEF TypeOK, State
  <2>3. TypeOK'
    BY <1>0, <1>o, <1>2, <2>1, <2>2, BeginType DEF Expire, TypeOK
  <2>4. EffectorKnown'
    BY <1>0, <2>1 DEF Begin, EffectorKnown, TypeOK
  <2>5. SenderApproved'
    BY <1>2, <2>1, <1>s DEF Begin, Expire
  <2> QED
    BY <2>3, <2>4, <2>5 DEF TypeInv
<1>3. CASE FetchIncidents
  <2>1. work' \subseteq Action
    BY <1>3 DEF FetchIncidents, Selected
  <2>2. upto' \in 0 .. Len(incidents)
    BY <1>0, <1>3, ConstantsAssumption DEF FetchIncidents, TypeOK, BatchEnd
  <2>3. TypeOK'
    BY <1>0, <1>3, <2>1, <2>2 DEF FetchIncidents, TypeOK, BatchEnd
  <2>4. EffectorKnown'
    BY <1>0, <1>3 DEF FetchIncidents, EffectorKnown, TypeOK
  <2>5. SenderApproved'
    BY <1>3, <1>s DEF FetchIncidents
  <2> QED
    BY <2>3, <2>4, <2>5 DEF TypeInv
<1>4. CASE CreateAction
  <2>1. PICK a \in work, s \in {"pending_approval", "queued"} :
          work' = work \ {a} /\ Begin(Orch, a, Absent, s)
    BY <1>4 DEF CreateAction
  <2>2. /\ a \in Action /\ Absent \in Row /\ s \in State
        /\ work' \subseteq Action
    BY <1>0, <2>1, NewRowType DEF TypeOK, State, Absent
  <2>3. TypeOK'
    BY <1>0, <1>o, <1>4, <2>1, <2>2, BeginType DEF CreateAction, TypeOK
  <2>4. EffectorKnown'
    BY <1>0, <2>1 DEF Begin, EffectorKnown, TypeOK
  <2>5. SenderApproved'
    BY <1>4, <2>1, <1>s DEF Begin, CreateAction
  <2> QED
    BY <2>3, <2>4, <2>5 DEF TypeInv
<1>5. CASE CommitTick
  <2>1. dirty[Orch] \in [Action -> Row]
    BY <1>0, <1>o DEF TypeOK
  <2>2. Commit(Orch, dirty[Orch]) /\ Close(Orch)
    BY <1>5 DEF CommitTick
  <2>3. TypeOK'
    BY <1>0, <1>o, <1>5, <2>1, <2>2, CommitType, EndType, CloseEnds DEF CommitTick, CursorMoved, TypeOK
  <2>4. EffectorKnown'
    BY <1>0, <2>2 DEF Close, Leave, EffectorKnown, TypeOK
  <2>5. SenderApproved'
    BY <1>5, <2>2, <1>s DEF Close, Leave, CommitTick
  <2> QED
    BY <2>3, <2>4, <2>5 DEF TypeInv
<1>6. CASE Transact(Orch)
  BY <1>6, <1>o, TransactType
<1> QED
  BY <1>1, <1>2, <1>3, <1>4, <1>5, <1>6 DEF Tick

\* The HTTP responses.
Response == [code : {0, 200, 403, 404, 409, 500}, replayed : BOOLEAN, state : State]

\* A request that ends keeps the types of what it resets.
LEMMA FinishType ==
  ASSUME TypeInv, NEW r \in Request, Finish(r)
  PROVE  /\ job' \in [Request -> [user : User \cup {Nobody}, key : Key \cup {NoKey},
                                  decision : {"approve", "reject"}]]
         /\ EffectorKnown' /\ SenderApproved'
<1>0. TypeOK /\ EffectorKnown /\ SenderApproved /\ r \in Process /\ r # Orch
  BY ConstantsAssumption DEF TypeInv, Process
<1>1. Close(r) /\ job' = [job EXCEPT ![r] = NoJob]
  BY DEF Finish
<1>2. job' \in [Request -> [user : User \cup {Nobody}, key : Key \cup {NoKey},
                            decision : {"approve", "reject"}]]
  BY <1>0, <1>1 DEF TypeOK, NoJob
<1>3. EffectorKnown'
  BY <1>0, <1>1 DEF Close, Leave, EffectorKnown, TypeOK
<1>4. SenderApproved'
  BY <1>0, <1>1 DEF Close, Leave, SenderApproved, TypeOK
<1> QED
  BY <1>2, <1>3, <1>4

\* A request that answers and ends.
LEMMA AnsweredType ==
  ASSUME TypeInv, NEW r \in Request, Finish(r),
         answer' \in [Request -> Response], actions' \in [Action -> Row],
         entities' \in [Entity -> Status],
         ledger' \subseteq Entry, UNCHANGED <<world, tick, nextSeq>>
  PROVE  TypeInv'
<1>1. TypeOK /\ r \in Process /\ Close(r)
  BY DEF TypeInv, Process, Finish
<1>2. /\ pc'      \in [Process -> {"idle", "lookup", "select", "flush", "effect",
                                   "write", "commit", "refresh", "expire", "respond", "done"}]
      /\ cur'     \in [Process -> Action]
      /\ row'     \in [Process -> Row]
      /\ goal'    \in [Process -> State]
      /\ link'    \in [Process -> Nat]
      /\ dirty'   \in [Process -> [Action -> Row]]
      /\ own'     \in [Process -> SUBSET Entry]
      /\ touched' \in [Process -> [Entity -> Status \cup {"none", "kept"}]]
      /\ same'    \in [Process -> BOOLEAN]
  BY <1>1, EndType, CloseEnds
<1>3. /\ stale' \subseteq Action /\ nextSeq' \in Nat \ {0} /\ crashes' \in Nat
      /\ incidents' \in Seq(Profile) /\ cursor' \in 0 .. Len(incidents')
      /\ work' \subseteq Action /\ upto' \in 0 .. Len(incidents')
  BY <1>1 DEF TypeOK, world, tick
<1>4. TypeOK'
  BY <1>2, <1>3, FinishType DEF TypeOK, Response
<1> QED
  BY <1>4, FinishType DEF TypeInv

\* One step of a request.
LEMMA RequestType ==
  ASSUME TypeInv, NEW r \in Request, Receive(r) \/ TurnAway(r) \/ Handle(r)
  PROVE  TypeInv'
<1>0. TypeOK /\ EffectorKnown /\ SenderApproved
  BY DEF TypeInv
<1>r. /\ r \in Process /\ r # Orch
      /\ row[r] \in Row /\ cur[r] \in Action
  BY <1>0, ConstantsAssumption DEF TypeOK, Process
<1>t. row[r].state \in State /\ \A a \in Action : actions[a].state \in State
  BY <1>0, <1>r DEF TypeOK, Row
<1>1. CASE Receive(r)
  <2>1. PICK j \in Job :
          /\ j.user \in Approver
          /\ job' = [job EXCEPT ![r] = [user |-> j.user, key |-> j.key,
                                        decision |-> j.decision]]
          /\ cur' = [cur EXCEPT ![r] = j.action]
          /\ row' = [row EXCEPT ![r] = actions[j.action]]
    BY <1>1 DEF Receive, MayDecide
  <2>2. /\ j.action \in Action /\ actions[j.action] \in Row
        /\ [user |-> j.user, key |-> j.key, decision |-> j.decision] \in
             [user : User \cup {Nobody}, key : Key \cup {NoKey},
              decision : {"approve", "reject"}]
    BY <1>0 DEF Job, TypeOK
  <2>3. TypeOK'
    <3>1. /\ job' \in [Request -> [user : User \cup {Nobody}, key : Key \cup {NoKey},
                                   decision : {"approve", "reject"}]]
          /\ cur' \in [Process -> Action] /\ row' \in [Process -> Row]
      BY <1>0, <2>1, <2>2 DEF TypeOK
    <3> QED
      BY <1>0, <1>r, <1>1, <3>1 DEF Receive, db, world, buffer, tick, http, TypeOK
  <2>4. EffectorKnown'
    BY <1>0, <1>1, <2>1 DEF Receive, db, world, buffer, tick, http, EffectorKnown, TypeOK
  <2>5. SenderApproved'
    BY <1>0, <1>1, <2>1 DEF Receive, db, world, buffer, tick, http, SenderApproved, TypeOK
  <2> QED
    BY <2>3, <2>4, <2>5 DEF TypeInv
<1>2. CASE TurnAway(r)
  <2>1. answer' \in [Request -> Response]
    <3>1. PICK c \in {403, 404} :
            answer' = [answer EXCEPT ![r] =
                         [code |-> c, replayed |-> FALSE, state |-> "none"]]
      BY <1>2 DEF TurnAway, Answer
    <3>2. [code |-> c, replayed |-> FALSE, state |-> "none"] \in Response
      BY DEF Response, State
    <3>3. answer \in [Request -> Response]
      BY <1>0 DEF TypeOK, Response
    <3> QED
      BY <3>1, <3>2, <3>3
  <2>2. TypeOK'
    BY <1>0, <1>2, <2>1 DEF TurnAway, db, world, buffer, tick, Response, TypeOK
  <2>3. EffectorKnown' /\ SenderApproved'
    BY <1>0, <1>2 DEF TurnAway, db, world, buffer, tick, http, EffectorKnown, SenderApproved, TypeOK
  <2> QED
    BY <2>2, <2>3 DEF TypeInv
<1>3. CASE Replay(r)
  <2>1. answer' \in [Request -> Response]
    BY <1>0, <1>3, <1>t DEF Replay, Keyed, Answer, Response, TypeOK
  <2>2. Finish(r) /\ UNCHANGED <<db, world, tick, nextSeq>>
    BY <1>3 DEF Replay
  <2>3. /\ actions' \in [Action -> Row] /\ entities' \in [Entity -> Status]
        /\ ledger' \subseteq Entry
    BY <1>0, <2>2 DEF TypeOK, db
  <2> QED
    BY <2>1, <2>2, <2>3, AnsweredType
<1>4. CASE Conflict(r)
  <2>1. answer' \in [Request -> Response]
    BY <1>0, <1>4, <1>t DEF Conflict, Answer, Response, TypeOK
  <2>2. Finish(r) /\ UNCHANGED <<db, world, tick, nextSeq>>
    BY <1>4 DEF Conflict
  <2>3. /\ actions' \in [Action -> Row] /\ entities' \in [Entity -> Status]
        /\ ledger' \subseteq Entry
    BY <1>0, <2>2 DEF TypeOK, db
  <2> QED
    BY <2>1, <2>2, <2>3, AnsweredType
<1>5. CASE Decide(r)
  <2>1. PICK s \in {"queued", "rejected"} :
          Begin(r, cur[r], Signed(r), s)
    BY <1>5 DEF Decide
  <2>2. job[r].user \in User
    BY <1>0, <1>5, ConstantsAssumption DEF Decide, db, world, buffer, tick, http, SenderApproved
  <2>3. Signed(r) \in Row /\ s \in State
    BY <1>r, <2>2, RowSignType DEF State, Signed
  <2>4. TypeOK'
    BY <1>0, <1>r, <1>5, <2>1, <2>3, BeginType DEF Decide, db, world, buffer, tick, http, TypeOK
  <2>5. EffectorKnown'
    BY <1>0, <2>1 DEF Begin, EffectorKnown, TypeOK
  <2>6. SenderApproved'
    BY <1>0, <1>5, <2>1 DEF Begin, Decide, SenderApproved, TypeOK, http
  <2> QED
    BY <2>4, <2>5, <2>6 DEF TypeInv
<1>6. CASE CommitDecision(r)
  <2> DEFINE k == IF row[r].idem = NoKey THEN job[r].key ELSE NoKey
             rows == [dirty[r] EXCEPT ![cur[r]].idem = k]
  <2>1. k \in Key \cup {NoKey} /\ dirty[r] \in [Action -> Row]
    BY <1>0, <1>r DEF TypeOK
  <2>2. rows \in [Action -> Row]
    <3>1. [dirty[r][cur[r]] EXCEPT !.idem = k] \in Row
      BY <1>r, <2>1, RowKeyType
    <3> QED
      BY <1>r, <2>1, <3>1
  <2>3. /\ Commit(r, rows) /\ Leave(r, "refresh", cur[r])
        /\ UNCHANGED <<world, tick, http, nextSeq>>
    BY <1>6 DEF CommitDecision
  <2>4. Ended(r)
    BY <1>r, <2>3 DEF Ended
  <2>5. TypeOK'
    <3> HIDE DEF rows, k
    <3> QED
      BY <1>0, <1>r, <2>2, <2>3, <2>4, CommitType, EndType DEF world, tick, http, TypeOK
  <2>6. EffectorKnown'
    BY <1>0, <2>3 DEF Leave, EffectorKnown, TypeOK
  <2>7. SenderApproved'
    BY <1>0, <1>6, <2>3 DEF CommitDecision, Leave, http, SenderApproved, TypeOK
  <2> QED
    BY <2>5, <2>6, <2>7 DEF TypeInv
<1>7. CASE DuplicateKey(r)
  <2>1. answer' \in [Request -> Response]
    BY <1>0, <1>7 DEF DuplicateKey, Answer, Response, State, TypeOK
  <2>2. Finish(r) /\ UNCHANGED <<db, world, tick, nextSeq>>
    BY <1>7 DEF DuplicateKey
  <2>3. /\ actions' \in [Action -> Row] /\ entities' \in [Entity -> Status]
        /\ ledger' \subseteq Entry
    BY <1>0, <2>2 DEF TypeOK, db
  <2> QED
    BY <2>1, <2>2, <2>3, AnsweredType
<1>8. CASE Refresh(r)
  <2>1. answer' \in [Request -> Response]
    BY <1>0, <1>r, <1>t, <1>8 DEF Refresh, Answer, Response, TypeOK
  <2>2. Finish(r) /\ UNCHANGED <<db, world, tick, nextSeq>>
    BY <1>8 DEF Refresh
  <2>3. /\ actions' \in [Action -> Row] /\ entities' \in [Entity -> Status]
        /\ ledger' \subseteq Entry
    BY <1>0, <2>2 DEF TypeOK, db
  <2> QED
    BY <2>1, <2>2, <2>3, AnsweredType
<1>9. CASE Transact(r)
  BY <1>9, <1>r, TransactType
<1> QED
  BY <1>1, <1>2, <1>3, <1>4, <1>5, <1>6, <1>7, <1>8, <1>9 DEF Handle

\* A step of the environment, or the death of a process.
LEMMA EnvironmentType ==
  ASSUME TypeInv, OpenIncident \/ TimeOut \/ \E p \in Process : Crash(p)
  PROVE  TypeInv'
<1>0. TypeOK /\ EffectorKnown /\ SenderApproved
  BY DEF TypeInv
<1>1. CASE OpenIncident
  <2>1. PICK inc \in Profile : incidents' = Append(incidents, inc)
    BY <1>1 DEF OpenIncident
  <2>2. incidents' \in Seq(Profile) /\ Len(incidents') = Len(incidents) + 1
    BY <1>0, <2>1 DEF TypeOK
  <2>3. cursor' \in 0 .. Len(incidents') /\ upto' \in 0 .. Len(incidents')
    BY <1>0, <1>1, <2>2 DEF OpenIncident, tick, TypeOK
  <2>4. TypeOK'
    BY <1>0, <1>1, <2>2, <2>3 DEF OpenIncident, db, buffer, tick, http, TypeOK
  <2>5. EffectorKnown' /\ SenderApproved'
    BY <1>0, <1>1 DEF OpenIncident, http, EffectorKnown, SenderApproved
  <2> QED
    BY <2>4, <2>5 DEF TypeInv
<1>2. CASE TimeOut
  <2>1. TypeOK'
    BY <1>0, <1>2 DEF TimeOut, db, buffer, tick, http, TypeOK
  <2>2. EffectorKnown' /\ SenderApproved'
    BY <1>0, <1>2 DEF TimeOut, http, EffectorKnown, SenderApproved
  <2> QED
    BY <2>1, <2>2 DEF TypeInv
<1>3. ASSUME NEW p \in Process, Crash(p) PROVE TypeInv'
  <2>1. Close(p) /\ pc[p] \notin {"idle", "done"}
    BY <1>3 DEF Crash
  <2>2. /\ work' \subseteq Action /\ upto' \in 0 .. Len(incidents)
        /\ crashes' \in Nat
    BY <1>0, <1>3 DEF Crash, TypeOK
  <2>3. job' \in [Request -> [user : User \cup {Nobody}, key : Key \cup {NoKey},
                              decision : {"approve", "reject"}]]
    <3>1. CASE p = Orch
      BY <1>0, <1>3, <3>1 DEF Crash, TypeOK
    <3>2. CASE p # Orch
      <4>1. NoJob \in [user : User \cup {Nobody}, key : Key \cup {NoKey},
                       decision : {"approve", "reject"}]
        BY DEF NoJob
      <4>2. job' = [job EXCEPT ![p] = NoJob]
        BY <1>3, <3>2 DEF Crash
      <4> QED
        BY <1>0, <4>1, <4>2 DEF TypeOK
    <3> QED
      BY <3>1, <3>2
  <2>4. /\ pc'      \in [Process -> {"idle", "lookup", "select", "flush", "effect",
                                     "write", "commit", "refresh", "expire", "respond", "done"}]
        /\ cur'     \in [Process -> Action]
        /\ row'     \in [Process -> Row]
        /\ goal'    \in [Process -> State]
        /\ link'    \in [Process -> Nat]
        /\ dirty'   \in [Process -> [Action -> Row]]
        /\ own'     \in [Process -> SUBSET Entry]
        /\ touched' \in [Process -> [Entity -> Status \cup {"none", "kept"}]]
        /\ same'    \in [Process -> BOOLEAN]
    BY <1>0, <1>3, <2>1, EndType, CloseEnds
  <2>5. TypeOK'
    BY <1>0, <1>3, <2>2, <2>3, <2>4 DEF Crash, db, TypeOK
  <2>6. EffectorKnown'
    BY <1>0, <2>1 DEF Close, Leave, EffectorKnown, TypeOK
  <2>7. SenderApproved'
    BY <1>0, <1>3, <2>1, ConstantsAssumption
       DEF Crash, Close, Leave, SenderApproved, TypeOK, Process
  <2> QED
    BY <2>5, <2>6, <2>7 DEF TypeInv
<1> QED
  BY <1>1, <1>2, <1>3

LEMMA TypeNext == TypeInv /\ [Next]_vars => TypeInv'
<1> SUFFICES ASSUME TypeInv, [Next]_vars PROVE TypeInv'
  OBVIOUS
<1>1. CASE Tick
  BY <1>1, TickType
<1>2. CASE \E r \in Request : Receive(r) \/ TurnAway(r) \/ Handle(r)
  BY <1>2, RequestType
<1>3. CASE (\E p \in Process : Crash(p)) \/ OpenIncident \/ TimeOut
  BY <1>3, EnvironmentType
<1>4. CASE UNCHANGED vars
  BY <1>4 DEF vars, db, world, buffer, tick, http, TypeInv, TypeOK, EffectorKnown,
              SenderApproved
<1> QED
  BY <1>1, <1>2, <1>3, <1>4 DEF Next

\* The types hold in every reachable state: of the database, of what each
\* process holds, and of the responses. (every handler of orchestrator.py and
\* api/actions.py that writes them.)
THEOREM TypesCorrect == Spec => []TypeOK
<1>1. TypeInv => TypeOK
  BY DEF TypeInv
<1> QED
  BY <1>1, TypeInit, TypeNext, PTL DEF Spec

----------------------------------------------------------------------------
(* The approval gate.  A transaction commits all the entries it wrote, so it *)
(* is enough that each one obeys the gate by itself, and that it has an      *)
(* approval among its own entries when it starts to execute.                 *)

High(a) == Def(a).blast = "high"

Gated(E) ==
  \A e \in E : e.to = "executing" /\ High(e.action) =>
    \E d \in E : /\ d.action = e.action /\ d.to = "queued"
                 /\ d.by \in Approver   /\ d.seq < e.seq

InTransition(p) == pc[p] \in {"select", "flush"}

Approved(p) ==
  InTransition(p) /\ goal[p] = "executing" /\ High(cur[p]) =>
    \E d \in own[p] : d.action = cur[p] /\ d.to = "queued" /\ d.by \in Approver

GateInv ==
  /\ Gated(ledger)
  /\ \A p \in Process : /\ Gated(own[p]) /\ Approved(p)
                        /\ \A e \in own[p] : e.seq < nextSeq
  /\ InTransition(Orch) /\ goal[Orch] = "queued" => ~High(cur[Orch])

LEMMA GateInit == Init => GateInv
<1> SUFFICES ASSUME Init PROVE GateInv
  OBVIOUS
<1>1. \A p \in Process : ~InTransition(p) /\ own[p] = {}
  BY DEF Init, InTransition
<1>2. Gated({}) /\ ledger = {}
  BY DEF Gated, Init
<1>3. Orch \in Process
  BY DEF Process
<1> QED
  BY <1>1, <1>2, <1>3 DEF GateInv, Approved

\* Entries of two transactions that obey the gate obey it together.
LEMMA GatedUnion ==
  ASSUME NEW E, NEW F, Gated(E), Gated(F) PROVE Gated(E \cup F)
BY DEF Gated

\* Beginning a transition to anything but "executing" keeps the invariant, if
\* the worker queues low-blast actions only.
LEMMA BeginGate ==
  ASSUME TypeInv, GateInv, NEW p \in Process, NEW a, NEW r, NEW s,
         Begin(p, a, r, s), s # "executing",
         p = Orch /\ s = "queued" => ~High(a),
         UNCHANGED <<ledger, own, nextSeq>>
  PROVE  GateInv'
<1>1. TypeOK
  BY DEF TypeInv
<1>2. \A q \in Process : Gated(own'[q]) /\ \A e \in own'[q] : e.seq < nextSeq'
  BY DEF GateInv
<1>3. \A q \in Process : Approved(q)'
  <2> TAKE q \in Process
  <2>1. CASE q = p
    BY <1>1, <2>1 DEF Approved, Begin, TypeOK
  <2>2. CASE q # p
    <3>1. pc'[q] = pc[q] /\ goal'[q] = goal[q] /\ cur'[q] = cur[q] /\ own'[q] = own[q]
      BY <1>1, <2>2 DEF Begin, TypeOK
    <3> QED
      BY <3>1 DEF GateInv, Approved, InTransition
  <2> QED
    BY <2>1, <2>2
<1>4. (InTransition(Orch) /\ goal[Orch] = "queued" => ~High(cur[Orch]))'
  BY <1>1, ConstantsAssumption DEF GateInv, InTransition, Begin, TypeOK, Process
<1> QED
  BY <1>2, <1>3, <1>4 DEF GateInv, Gated

\* So does ending a transaction, whether or not it commits its entries.
LEMMA EndGate ==
  ASSUME TypeInv, GateInv, NEW p \in Process, Ended(p),
         ledger' \in {ledger, ledger \cup own[p]}, nextSeq' = nextSeq
  PROVE  GateInv'
<1>1. TypeOK
  BY DEF TypeInv
<1>l. PICK l \in {"idle", "done", "refresh"}, a \in Action : Leave(p, l, a)
  BY DEF Ended
<1>2. Gated(ledger')
  BY GatedUnion DEF GateInv
<1>3. \A q \in Process : own'[q] \in {own[q], {}}
  BY <1>1, <1>l DEF Leave, TypeOK
<1>4. \A q \in Process : Gated(own'[q]) /\ \A e \in own'[q] : e.seq < nextSeq'
  BY <1>3 DEF GateInv, Gated
<1>5. \A q \in Process : Approved(q)'
  <2> TAKE q \in Process
  <2>1. CASE q = p
    BY <1>1, <1>l, <2>1 DEF Approved, InTransition, Leave, TypeOK
  <2>2. CASE q # p
    <3>1. pc'[q] = pc[q] /\ goal'[q] = goal[q] /\ cur'[q] = cur[q] /\ own'[q] = own[q]
      BY <1>1, <1>l, <2>2 DEF Leave, TypeOK
    <3> QED
      BY <3>1 DEF GateInv, Approved, InTransition
  <2> QED
    BY <2>1, <2>2
<1>6. (InTransition(Orch) /\ goal[Orch] = "queued" => ~High(cur[Orch]))'
  BY <1>1, <1>l, ConstantsAssumption DEF GateInv, InTransition, Leave, TypeOK, Process
<1> QED
  BY <1>2, <1>4, <1>5, <1>6 DEF GateInv, Gated

\* A flush appends to its own entries only what the gate allows.
LEMMA FlushGate ==
  ASSUME TypeInv, GateInv, NEW p \in Process, Flush(p) PROVE GateInv'
<1>0. TypeOK /\ SenderApproved
  BY DEF TypeInv
<1> DEFINE n == NewEntry(p)
<1>1. /\ own' = [own EXCEPT ![p] = own[p] \cup {n}]
      /\ nextSeq' = nextSeq + 1 /\ nextSeq \in Nat /\ ledger' = ledger
      /\ cur' = cur /\ InTransition(p) /\ pc[p] = "flush"
      /\ goal' = [goal EXCEPT ![p] = IF goal[p] = "queued" THEN "executing" ELSE goal[p]]
      /\ pc' = [pc EXCEPT ![p] = After(p, goal[p])]
  BY <1>0 DEF Flush, db, TypeOK, InTransition
<1>2. n.seq = nextSeq /\ n.action = cur[p] /\ n.to = goal[p] /\ n.by = Actor(p)
  BY DEF NewEntry
<1>3. \A e \in own[p] : e.seq < nextSeq
  BY DEF GateInv
<1> HIDE DEF n
<1>4. own'[p] = own[p] \cup {n} /\ \A q \in Process \ {p} : own'[q] = own[q]
  BY <1>0, <1>1 DEF TypeOK
<1>5. \A q \in Process : \A e \in own'[q] : e.seq < nextSeq'
  <2>1. \A q \in Process : \A e \in own[q] : e.seq < nextSeq /\ e.seq \in Nat
    BY <1>0 DEF GateInv, TypeOK, Entry
  <2> QED
    BY <1>1, <1>2, <1>4, <2>1
<1>6. \A q \in Process : Gated(own'[q])
  <2>1. Gated(own[p]) /\ Approved(p)
    BY DEF GateInv
  <2>2. CASE goal[p] = "executing" /\ High(cur[p])
    <3>1. PICK d \in own[p] : d.action = cur[p] /\ d.to = "queued" /\ d.by \in Approver
      BY <1>1, <2>1, <2>2 DEF Approved
    <3> QED
      BY <1>2, <1>3, <1>4, <2>1, <3>1 DEF Gated, GateInv
  <2>3. CASE ~(goal[p] = "executing" /\ High(cur[p]))
    BY <1>2, <1>4, <2>1, <2>3 DEF Gated, GateInv
  <2> QED
    BY <2>2, <2>3
<1>7. \A q \in Process : Approved(q)'
  <2> TAKE q \in Process
  <2>1. CASE q # p
    <3>1. pc'[q] = pc[q] /\ goal'[q] = goal[q] /\ cur'[q] = cur[q] /\ own'[q] = own[q]
      BY <1>0, <1>1, <1>4, <2>1 DEF TypeOK
    <3> QED
      BY <3>1 DEF GateInv, Approved, InTransition
  <2>2. CASE q = p /\ goal[p] = "queued" /\ High(cur[p])
    <3>1. p # Orch
      BY <1>1, <2>2 DEF GateInv
    <3>2. n.by \in Approver
      BY <1>0, <1>1, <1>2, <2>2, <3>1 DEF Actor, SenderApproved, Process
    <3> QED
      BY <1>1, <1>2, <1>4, <2>2, <3>2 DEF Approved
  <2>3. CASE q = p /\ goal[p] = "queued" /\ ~High(cur[p])
    BY <1>1, <2>3 DEF Approved
  <2>4. CASE q = p /\ goal[p] # "queued"
    <3>1. pc'[p] \notin {"select", "flush"}
      BY <1>0, <1>1, <2>4 DEF After, Stop, End, TypeOK
    <3> QED
      BY <2>4, <3>1 DEF Approved, InTransition
  <2> QED
    BY <2>1, <2>2, <2>3, <2>4
<1>8. (InTransition(Orch) /\ goal[Orch] = "queued" => ~High(cur[Orch]))'
  BY <1>0, <1>1 DEF GateInv, InTransition, TypeOK, Process
<1> QED
  BY <1>1, <1>5, <1>6, <1>7, <1>8 DEF GateInv

LEMMA GateNext == TypeInv /\ GateInv /\ [Next]_vars => GateInv'
<1> SUFFICES ASSUME TypeInv, GateInv, [Next]_vars PROVE GateInv'
  OBVIOUS
<1>0. TypeOK /\ Orch \in Process /\ Orch \notin Request /\ Request \subseteq Process
  BY ConstantsAssumption DEF TypeInv, Process
<1>1. ASSUME NEW p \in Process, Transact(p) PROVE GateInv'
  <2>1. CASE SelectLast(p)
    BY <1>0, <2>1 DEF SelectLast, db, buffer, GateInv, Gated, Approved, InTransition, TypeOK
  <2>2. CASE Flush(p)
    BY <2>2, FlushGate
  <2>3. CASE Effect(p)
    <3>1. PICK s \in {"executed", "failed"} :
            Begin(p, cur[p], [row[p] EXCEPT !.attempt = @ + 1], s)
      BY <2>3 DEF Effect
    <3>2. UNCHANGED <<ledger, own, nextSeq>>
      BY <2>3 DEF Effect, db, buffer
    <3> QED
      BY <3>1, <3>2, BeginGate
  <2>4. CASE WriteEntity(p)
    <3>1. /\ UNCHANGED <<ledger, own, nextSeq, goal, cur>>
          /\ pc' = [pc EXCEPT ![p] = End(p)]
      BY <2>4 DEF WriteEntity, db
    <3>2. \A q \in Process : InTransition(q)' => InTransition(q)
      BY <1>0, <3>1 DEF InTransition, End, TypeOK
    <3> QED
      BY <1>0, <3>1, <3>2 DEF GateInv, Gated, Approved
  <2> QED
    BY <1>1, <2>1, <2>2, <2>3, <2>4 DEF Transact
<1>2. CASE Tick
  <2>1. CASE StartTick
    BY <1>0, <2>1 DEF StartTick, db, buffer, GateInv, Gated, Approved, InTransition, TypeOK
  <2>2. CASE Expire
    <3>1. PICK a \in work : Begin(Orch, a, NewRow("pending_approval"), "expired")
      BY <2>2 DEF Expire
    <3> QED
      BY <1>0, <2>2, <3>1, BeginGate DEF Expire, db, buffer
  <2>3. CASE FetchIncidents
    BY <1>0, <2>3
       DEF FetchIncidents, db, buffer, GateInv, Gated, Approved, InTransition, TypeOK
  <2>4. CASE CreateAction
    <3>1. PICK a \in work, s \in {"pending_approval", "queued"} :
            Begin(Orch, a, Absent, s) /\ (s = "queued" => ~High(a))
      BY <2>4 DEF CreateAction, High
    <3> QED
      BY <1>0, <2>4, <3>1, BeginGate DEF CreateAction, db, buffer
  <2>5. CASE CommitTick
    BY <1>0, <2>5, EndGate, CloseEnds DEF CommitTick, Commit
  <2> QED
    BY <1>0, <1>1, <1>2, <2>1, <2>2, <2>3, <2>4, <2>5 DEF Tick
<1>3. ASSUME NEW r \in Request, Receive(r) \/ TurnAway(r) PROVE GateInv'
  <2>1. /\ UNCHANGED <<ledger, own, nextSeq, goal>>
        /\ pc[r] = "idle" /\ \E v \in {"lookup", "done"} : pc' = [pc EXCEPT ![r] = v]
        /\ \A q \in Process \ {r} : cur'[q] = cur[q]
    <3>1. CASE Receive(r)
      <4>1. PICK j \in Job : cur' = [cur EXCEPT ![r] = j.action]
        BY <3>1 DEF Receive
      <4> QED
        BY <1>0, <3>1, <4>1 DEF Receive, db, buffer, TypeOK
    <3>2. CASE TurnAway(r)
      BY <1>0, <3>2 DEF TurnAway, db, buffer, TypeOK
    <3> QED
      BY <1>3, <3>1, <3>2
  <2>2. \A q \in Process : InTransition(q)' => InTransition(q) /\ cur'[q] = cur[q]
    BY <1>0, <2>1 DEF InTransition, TypeOK
  <2> QED
    BY <1>0, <2>1, <2>2 DEF GateInv, Gated, Approved
<1>4. ASSUME NEW r \in Request, Handle(r) PROVE GateInv'
  <2>1. CASE Replay(r) \/ Conflict(r) \/ Refresh(r) \/ DuplicateKey(r)
    BY <1>0, <2>1, EndGate, CloseEnds DEF Replay, Conflict, Refresh, DuplicateKey, Finish, db
  <2>2. CASE CommitDecision(r)
    <3>1. Ended(r)
      BY <1>0, <2>2 DEF CommitDecision, Ended, TypeOK
    <3> QED
      BY <1>0, <2>2, <3>1, EndGate DEF CommitDecision, Commit
  <2>3. CASE Decide(r)
    <3>1. PICK s \in {"queued", "rejected"} :
            Begin(r, cur[r], Signed(r), s)
      BY <2>3 DEF Decide
    <3> QED
      BY <1>0, <2>3, <3>1, BeginGate DEF Decide, db, buffer
  <2> QED
    BY <1>0, <1>1, <1>4, <2>1, <2>2, <2>3 DEF Handle
<1>5. ASSUME NEW p \in Process, Crash(p) PROVE GateInv'
  BY <1>5, EndGate, CloseEnds DEF Crash, db
<1>6. CASE OpenIncident \/ TimeOut \/ UNCHANGED vars
  BY <1>6 DEF OpenIncident, TimeOut, vars, db, buffer, GateInv, Gated, Approved, InTransition
<1> QED
  BY <1>2, <1>3, <1>4, <1>5, <1>6 DEF Next

\* No high-blast action starts to execute without an approver's decision to
\* queue it, whatever transactions overlap and whichever die. (ADR-007; decide,
\* _execute, _create_action and the role gate of the endpoints.)
THEOREM ApprovalGateHolds == Spec => []ApprovalGate
<1>1. GateInv => ApprovalGate
  BY DEF GateInv, Gated, High, ApprovalGate
<1>2. Init => TypeInv /\ GateInv
  BY TypeInit, GateInit
<1>3. TypeInv /\ GateInv /\ [Next]_vars => (TypeInv /\ GateInv)'
  BY TypeNext, GateNext
<1> QED
  BY <1>1, <1>2, <1>3, PTL DEF Spec
=============================================================================
