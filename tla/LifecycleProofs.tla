--------------------------- MODULE LifecycleProofs ---------------------------
(***************************************************************************)
(* However transactions overlap, for any playbooks, number of incidents,   *)
(* requests and crashes: every entry of the ledger links to a committed    *)
(* one (LinksResolve), and ResponseOrchestrator implements ActionLifecycle *)
(* (RefinesLifecycle).                                                     *)
(***************************************************************************)
EXTENDS LedgerProofs

----------------------------------------------------------------------------
(* The links of the ledger *)

Resolves(E, l) == l = 0 \/ \E d \in E : d.seq = l

\* The entries a transaction drafts link back, in what it sees, and so does the
\* one it is about to draft.
Links(p) ==
  /\ \A e \in own[p] : e.prev < e.seq /\ Resolves(Visible(p), e.prev)
  /\ pc[p] = "flush" => Resolves(Visible(p), link[p])

LinkInv == LinksResolve /\ \A p \in Process : Links(p)

\* A process left alone keeps its links while the ledger grows.
LEMMA OthersLink ==
  ASSUME NEW p, Links(p), ledger \subseteq ledger', own'[p] = own[p],
         pc'[p] = "flush" => pc[p] = "flush" /\ link'[p] = link[p]
  PROVE  Links(p)'
<1>1. Visible(p) \subseteq Visible(p)'
  BY DEF Visible
<1>. QED
  BY <1>1 DEF Links, Resolves

LEMMA LinkQuiet ==
  ASSUME LinkInv, UNCHANGED <<ledger, own, link>>,
         \A p \in Process : pc'[p] = "flush" => pc[p] = "flush"
  PROVE  LinkInv'
<1>1. LinksResolve'
  BY DEF LinkInv, LinksResolve
<1>2. \A p \in Process : Links(p)'
  BY OthersLink DEF LinkInv
<1>. QED
  BY <1>1, <1>2 DEF LinkInv

LEMMA SelectLink ==
  ASSUME TypeOK, LinkInv, NEW p \in Process, SelectLast(p)
  PROVE  LinkInv'
<1>1. UNCHANGED <<ledger, own>> /\ \A q \in Process \ {p} : pc'[q] = pc[q] /\ link'[q] = link[q]
  BY DEF SelectLast, db, buffer, TypeOK
<1>2. link'[p] \in {0} \cup {e.seq : e \in Visible(p)}
  BY DEF SelectLast, TypeOK
<1>3. Links(p)'
  BY <1>1, <1>2 DEF LinkInv, Links, Resolves, Visible
<1>4. \A q \in Process \ {p} : Links(q)'
  BY <1>1, OthersLink DEF LinkInv
<1>5. LinksResolve'
  BY <1>1 DEF LinkInv, LinksResolve
<1>. QED
  BY <1>3, <1>4, <1>5 DEF LinkInv

\* The entry selected is older than the one drafted, rolled-back numbers or not.
LEMMA FlushLinks ==
  ASSUME TypeOK, Numbered, LinkInv, NEW p \in Process, Flush(p)
  PROVE  LinkInv'
<1>0. PICK n : n = NewEntry(p)
  OBVIOUS
<1>1. /\ pc[p] = "flush" /\ own'[p] = own[p] \cup {n} /\ n.seq = nextSeq /\ n.prev = link[p]
      /\ pc'[p] # "flush" /\ UNCHANGED ledger
  BY <1>0, FlushFacts, FlushRow DEF NewEntry, After, Stop, End
<1>2. \A q \in Process \ {p} : pc'[q] = pc[q] /\ own'[q] = own[q] /\ link'[q] = link[q]
  BY DEF Flush, TypeOK
<1>3. \A e \in Visible(p) : e.seq < nextSeq
  BY DEF Visible, Numbered, Seen
<1>4. Links(p) /\ nextSeq \in Nat /\ 0 < nextSeq
  BY DEF LinkInv, TypeOK
<1>5. Visible(p) \subseteq Visible(p)'
  BY <1>1 DEF Visible
<1>6. n.prev < n.seq /\ Resolves(Visible(p), n.prev)
  BY <1>1, <1>3, <1>4 DEF Links, Resolves
<1>7. Links(p)'
  BY <1>1, <1>4, <1>5, <1>6 DEF Links, Resolves
<1>8. \A q \in Process \ {p} : Links(q)'
  BY <1>1, <1>2, OthersLink DEF LinkInv
<1>9. LinksResolve'
  BY <1>1 DEF LinkInv, LinksResolve
<1>. QED
  BY <1>7, <1>8, <1>9 DEF LinkInv

\* A commit brings the entries with those they link to; a rollback takes none that
\* another's entry links to.
LEMMA EndedLinks ==
  ASSUME TypeOK, LinkInv, NEW p \in Process, Ended(p),
         ledger' \in {ledger, ledger \cup own[p]}
  PROVE  LinkInv'
<1>1. PICK l \in {"idle", "done", "refresh"}, a \in Action : Leave(p, l, a)
  BY DEF Ended
<1>2. own'[p] = {} /\ pc'[p] # "flush" /\ \A q \in Process \ {p} : Kept(q) /\ link'[q] = link[q]
  <2>1. own'[p] = {} /\ pc'[p] # "flush" /\ \A q \in Process \ {p} : Kept(q)
    BY <1>1, LeaveKeeps
  <2>2. \A q \in Process \ {p} : link'[q] = link[q]
    BY <1>1 DEF Leave, TypeOK
  <2>. QED
    BY <2>1, <2>2
<1>3. LinksResolve'
  <2>. SUFFICES ASSUME NEW e \in ledger'
       PROVE  e.prev < e.seq /\ (e.prev = 0 \/ \E d \in ledger' : d.seq = e.prev)
    BY DEF LinksResolve
  <2>1. CASE e \in ledger
    BY <2>1 DEF LinkInv, LinksResolve
  <2>2. CASE e \in own[p] /\ ledger' = ledger \cup own[p]
    <3>1. Links(p) /\ Visible(p) = ledger'
      BY <2>2 DEF LinkInv, Visible
    <3>. QED
      BY <2>2, <3>1 DEF Links, Resolves
  <2>. QED
    BY <2>1, <2>2
<1>4. Links(p)'
  BY <1>2 DEF Links
<1>5. \A q \in Process \ {p} : Links(q)'
  BY <1>2, OthersLink DEF LinkInv, Kept
<1>. QED
  BY <1>3, <1>4, <1>5 DEF LinkInv

LEMMA NextLinks == TypeInv /\ StoryInv /\ LinkInv /\ [Next]_vars => LinkInv'
<1>. SUFFICES ASSUME TypeInv, StoryInv, LinkInv, [Next]_vars PROVE LinkInv'
  OBVIOUS
<1>. TypeOK /\ Numbered
  BY DEF TypeInv, StoryInv
<1>1. ASSUME NEW p \in Process, Effect(p) \/ WriteEntity(p) PROVE LinkInv'
  <2>1. UNCHANGED <<ledger, own, link>>
    BY <1>1 DEF Effect, WriteEntity, db
  <2>2. pc'[p] # "flush" /\ \A q \in Process \ {p} : pc'[q] = pc[q]
    BY <1>1, EffectFacts, WriteFacts, MovesKeep DEF Transact, Kept, End
  <2>. QED
    BY <2>1, <2>2, LinkQuiet
<1>2. ASSUME NEW p \in Process, Transact(p) PROVE LinkInv'
  BY <1>1, <1>2, SelectLink, FlushLinks DEF Transact
<1>3. CASE StartTick \/ Expire \/ FetchIncidents \/ CreateAction
  <2>1. UNCHANGED <<ledger, own, link>>
    BY <1>3 DEF StartTick, Expire, FetchIncidents, CreateAction, db, buffer
  <2>2. \E l \in {"expire", "respond", "select"} : pc' = [pc EXCEPT ![Orch] = l]
    BY <1>3 DEF StartTick, Expire, FetchIncidents, CreateAction, Begin
  <2>. QED
    BY <2>1, <2>2, LinkQuiet DEF TypeOK
<1>4. ASSUME NEW r \in Request, Receive(r) \/ TurnAway(r) \/ Decide(r) PROVE LinkInv'
  <2>1. UNCHANGED <<ledger, own, link>>
    BY <1>4 DEF Receive, TurnAway, Decide, db, buffer
  <2>2. \E l \in {"lookup", "done", "select"} : pc' = [pc EXCEPT ![r] = l]
    BY <1>4 DEF Receive, TurnAway, Decide, Begin
  <2>. QED
    BY <2>1, <2>2, LinkQuiet DEF TypeOK
<1>5. ASSUME NEW p \in Process,
             \/ Crash(p) \/ (p = Orch /\ CommitTick)
             \/ p \in Request /\ (Replay(p) \/ Conflict(p) \/ Refresh(p) \/ DuplicateKey(p))
      PROVE  LinkInv'
  <2>1. Close(p) /\ ledger' \in {ledger, ledger \cup own[p]}
    BY <1>5 DEF Crash, CommitTick, Replay, Conflict, Refresh, DuplicateKey, Finish, Commit, db
  <2>. QED
    BY <2>1, CloseEnds, EndedLinks
<1>6. ASSUME NEW r \in Request, CommitDecision(r) PROVE LinkInv'
  <2>1. Leave(r, "refresh", cur[r]) /\ ledger' = ledger \cup own[r]
    BY <1>6 DEF CommitDecision, Commit
  <2>2. r \in Process /\ cur[r] \in Action
    BY OrchProcess DEF TypeOK
  <2>3. Ended(r)
    BY <2>1, <2>2 DEF Ended
  <2>. QED
    BY <2>1, <2>2, <2>3, EndedLinks
<1>7. CASE OpenIncident \/ TimeOut \/ UNCHANGED vars
  <2>1. UNCHANGED <<ledger, own, link, pc>>
    BY <1>7 DEF OpenIncident, TimeOut, db, buffer, vars
  <2>. QED
    BY <2>1, LinkQuiet
<1>8. CASE Tick
  BY <1>2, <1>3, <1>5, <1>8, OrchProcess DEF Tick
<1>9. ASSUME NEW r \in Request, Receive(r) \/ TurnAway(r) \/ Handle(r) PROVE LinkInv'
  BY <1>2, <1>4, <1>5, <1>6, <1>9, OrchProcess DEF Handle
<1>. QED
  BY <1>5, <1>7, <1>8, <1>9 DEF Next

LEMMA InitLinks == Init => LinkInv
BY DEF Init, LinkInv, LinksResolve, Links

\* The ledger may fork when transactions overlap, but each of its entries links
\* back to an older one that is committed, or to GENESIS, whatever overlaps and
\* whatever is rolled back; for any playbooks, requests and crashes.
\* (append_entry, in the transaction of the change it records.)
THEOREM LinksResolveHolds == Spec => []LinksResolve
<1>1. Init => TypeInv /\ IncidentInv /\ StoryInv /\ LinkInv
  BY TypeInit, InitInc, InitStory, InitLinks
<1>2. TypeInv /\ IncidentInv /\ StoryInv /\ LinkInv /\ [Next]_vars
        => (TypeInv /\ IncidentInv /\ StoryInv /\ LinkInv)'
  BY TypeNext, NextInc, NextStory, NextLinks
<1>3. LinkInv => LinksResolve
  BY DEF LinkInv
<1>. QED
  BY <1>1, <1>2, <1>3, PTL DEF Spec

----------------------------------------------------------------------------
(* The states of an action, and the runs of its effector *)

Executions(E, a) == {e \in E : e.action = a /\ e.to = "executed"}
Running == {"queued", "executing", "executed", "failed"}

\* What a transaction may have written of an action: a request decides high-blast
\* ones; the worker lets those lapse, creates them pending, and runs the low-blast
\* ones it creates.
Draftable(p, a) ==
  IF p # Orch THEN IF High(a) THEN Running \cup {"rejected"} ELSE {}
  ELSE IF Exists(a) THEN IF High(a) THEN {"expired"} ELSE {}
  ELSE IF High(a) THEN {"pending_approval"} ELSE Running

\* The first transition a transaction makes with an action.
Starts(p) ==
  IF p = Orch
  THEN \/ row[p].state = "none"
            /\ goal[p] = IF High(cur[p]) THEN "pending_approval" ELSE "queued"
       \/ row[p].state = "pending_approval" /\ goal[p] = "expired" /\ High(cur[p])
  ELSE /\ row[p].state = "pending_approval" /\ goal[p] \in {"queued", "rejected"}
       /\ High(cur[p]) /\ ~Written(p, cur[p])

\* _execute goes on with what the transaction itself queued.
Continues(p) ==
  /\ dirty[p][cur[p]].state = row[p].state
  /\ <<row[p].state, goal[p]>> \in
       {<<"queued", "executing">>, <<"executing", "executed">>, <<"executing", "failed">>}

\* The effector ran in this transaction if it drafts "executed", and then once.
RanOnce(p, a) ==
  IF dirty[p][a].state = "executed" THEN \E n \in own[p] : Executions(own[p], a) = {n}
  ELSE Executions(own[p], a) = {}

Path(p) ==
  /\ InTransition(p) => Starts(p) \/ Continues(p)
  /\ pc[p] = "effect" => row[p].state = "executing" /\ dirty[p][cur[p]].state = "executing"
  /\ \A a \in Action : Written(p, a) => dirty[p][a].state \in Draftable(p, a)
  /\ \A a \in Action : RanOnce(p, a)

\* Only high-blast actions are pending, and are read so.
Reads(r)  == pc[r] = "lookup" /\ row[r].state = "pending_approval" => High(cur[r])
Lapsing   == Expiring => \A a \in work : High(a)
Committed == \A a \in Action : /\ actions[a].state = "pending_approval" => High(a)
                               /\ IsFiniteSet(Executions(ledger, a))

PathInv ==
  /\ \A p \in Process : Path(p)
  /\ \A r \in Request : Reads(r)
  /\ Lapsing /\ Committed

\* The others keep their part; the worker's looks at which rows are there.
LEMMA PathStep ==
  ASSUME TypeInv, PathInv, NEW p \in Process, \A q \in Process \ {p} : Kept(q),
         p # Orch => \A a \in Action : Exists(a)' <=> Exists(a),
         p # Orch => UNCHANGED work,
         Path(p)', p \in Request => Reads(p)', p = Orch => Lapsing', Committed'
  PROVE  PathInv'
<1>1. ASSUME NEW q \in Process \ {p} PROVE Path(q)'
  <2>1. Path(q) /\ Kept(q) /\ cur[q] \in Action
    BY DEF PathInv, TypeInv, TypeOK
  <2>2. \A a \in Action : Draftable(q, a)' = Draftable(q, a)
    BY DEF Draftable
  <2>3. \A a \in Action : (Written(q, a)' <=> Written(q, a)) /\ (RanOnce(q, a)' <=> RanOnce(q, a))
    BY <2>1 DEF Written, RanOnce, Kept
  <2>4. (Starts(q)' <=> Starts(q)) /\ (Continues(q)' <=> Continues(q))
    BY <2>1, <2>3 DEF Starts, Continues, Kept
  <2>5. (InTransition(q)' <=> InTransition(q)) /\ (pc'[q] = "effect" <=> pc[q] = "effect")
    BY <2>1 DEF InTransition, Kept
  <2>. QED
    BY <2>1, <2>2, <2>3, <2>4, <2>5 DEF Path, Kept
<1>2. \A r \in Request \ {p} : Reads(r)'
  BY OrchProcess DEF PathInv, Reads, Kept
<1>3. p # Orch => Lapsing'
  BY OrchProcess DEF PathInv, Lapsing, Expiring, InTransition, Kept
<1>. QED
  BY <1>1, <1>2, <1>3 DEF PathInv

\* A step inside a transaction that writes nothing.
LEMMA PathInside ==
  ASSUME TypeInv, PathInv, NEW p \in Process, \A q \in Process \ {p} : Kept(q),
         UNCHANGED <<actions, ledger>>, dirty'[p] = dirty[p], own'[p] = own[p],
         p # Orch => UNCHANGED work,
         InTransition(p)' => Starts(p)' \/ Continues(p)',
         pc'[p] # "effect", p \in Request => Reads(p)', p = Orch => Lapsing'
  PROVE  PathInv'
<1>1. \A a \in Action : Exists(a)' <=> Exists(a)
  BY DEF Exists
<1>2. \A a \in Action : /\ Draftable(p, a)' = Draftable(p, a)
                        /\ Written(p, a)' <=> Written(p, a)
                        /\ RanOnce(p, a)' <=> RanOnce(p, a)
  BY <1>1 DEF Draftable, Written, RanOnce
<1>3. Path(p)'
  BY <1>2 DEF PathInv, Path
<1>4. Committed'
  BY DEF PathInv, Committed
<1>. QED
  BY <1>1, <1>3, <1>4, PathStep

LEMMA TickPath ==
  ASSUME TypeInv, PathInv, StartTick \/ Expire \/ FetchIncidents \/ CreateAction
  PROVE  PathInv'
<1>. TypeOK /\ Orch \in Process /\ Orch \notin Request
  BY OrchProcess DEF TypeInv
<1>1. UNCHANGED <<actions, ledger, dirty, own>>
  BY DEF StartTick, Expire, FetchIncidents, CreateAction, db, buffer
<1>2. CASE StartTick \/ FetchIncidents
  <2>1. UNCHANGED <<cur, row, goal>> /\ \E l \in {"expire", "respond"} : pc' = [pc EXCEPT ![Orch] = l]
    BY <1>2 DEF StartTick, FetchIncidents
  <2>2. pc'[Orch] \in {"expire", "respond"} /\ \A q \in Process \ {Orch} : Kept(q)
    BY <1>1, <2>1 DEF TypeOK, Kept
  <2>3. StartTick => work' = Lapsed
    BY DEF StartTick
  <2>4. FetchIncidents => pc'[Orch] = "respond"
    BY DEF FetchIncidents, TypeOK
  <2>5. \A a \in Lapsed : a \in Action /\ actions[a].state = "pending_approval"
    BY DEF Lapsed, TypeOK
  <2>6. Lapsing'
    BY <1>2, <2>2, <2>3, <2>4, <2>5
       DEF Lapsing, Expiring, InTransition, PathInv, Committed, High, Def
  <2>. QED
    BY <1>1, <2>2, <2>6, PathInside DEF InTransition
<1>3. CASE Expire
  <2>1. PICK a \in work : /\ work' = work \ {a} /\ pc[Orch] = "expire"
                          /\ Begin(Orch, a, NewRow("pending_approval"), "expired")
    BY <1>3 DEF Expire
  <2>2. NewRow("pending_approval").state = "pending_approval"
    BY DEF NewRow
  <2>3. /\ \A q \in Process \ {Orch} : Kept(q)
        /\ row'[Orch] = NewRow("pending_approval") /\ goal'[Orch] = "expired"
        /\ pc'[Orch] = "select" /\ cur'[Orch] = a
    BY <1>1, <2>1, BeginKeeps
  <2>4. \A x \in work : High(x)
    BY <2>1 DEF PathInv, Lapsing, Expiring
  <2>5. Lapsing'
    BY <2>1, <2>4 DEF Lapsing, High, Def
  <2>6. Starts(Orch)'
    BY <2>1, <2>2, <2>3, <2>4 DEF Starts, High, Def
  <2>. QED
    BY <1>1, <2>3, <2>5, <2>6, PathInside
<1>4. CASE CreateAction
  <2>1. PICK a \in work : Begin(Orch, a, Absent,
                                IF Def(a).blast = "high" THEN "pending_approval" ELSE "queued")
    BY <1>4 DEF CreateAction
  <2>2. /\ \A q \in Process \ {Orch} : Kept(q)
        /\ row'[Orch] = Absent /\ pc'[Orch] = "select" /\ cur'[Orch] = a
        /\ goal'[Orch] = IF Def(a).blast = "high" THEN "pending_approval" ELSE "queued"
    BY <1>1, <2>1, BeginKeeps
  <2>3. Starts(Orch)'
    BY <2>2, AbsentState DEF Starts, High, Def
  <2>4. Lapsing'
    BY <2>2 DEF Lapsing, Expiring
  <2>. QED
    BY <1>1, <2>2, <2>3, <2>4, PathInside
<1>. QED
  BY <1>2, <1>3, <1>4

LEMMA RequestPath ==
  ASSUME TypeInv, StoryInv, PathInv, NEW r \in Request, Receive(r) \/ TurnAway(r) \/ Decide(r)
  PROVE  PathInv'
<1>. TypeOK /\ r \in Process /\ r # Orch
  BY OrchProcess DEF TypeInv
<1>1. UNCHANGED <<actions, ledger, dirty, own, work>>
  BY DEF Receive, TurnAway, Decide, db, buffer, tick
<1>2. CASE Receive(r)
  <2>1. PICK a \in Action : /\ cur' = [cur EXCEPT ![r] = a]
                            /\ row' = [row EXCEPT ![r] = actions[a]]
    BY <1>2 DEF Receive, Job
  <2>2. pc' = [pc EXCEPT ![r] = "lookup"] /\ UNCHANGED goal
    BY <1>2 DEF Receive
  <2>3. /\ pc'[r] = "lookup" /\ cur'[r] = a /\ row'[r] = actions[a]
        /\ \A q \in Process \ {r} : Kept(q)
    BY <1>1, <2>1, <2>2 DEF TypeOK, Kept
  <2>4. Reads(r)'
    BY <2>3 DEF Reads, PathInv, Committed, High, Def
  <2>. QED
    BY <1>1, <2>3, <2>4, PathInside DEF InTransition
<1>3. CASE TurnAway(r)
  <2>1. pc' = [pc EXCEPT ![r] = "done"] /\ UNCHANGED <<cur, row, goal>>
    BY <1>3 DEF TurnAway
  <2>2. pc'[r] = "done" /\ \A q \in Process \ {r} : Kept(q)
    BY <1>1, <2>1 DEF TypeOK, Kept
  <2>. QED
    BY <1>1, <2>2, PathInside DEF InTransition, Reads
<1>4. CASE Decide(r)
  <2>1. PICK s \in {"queued", "rejected"} : Begin(r, cur[r], Signed(r), s)
    BY <1>4 DEF Decide
  <2>2. pc[r] = "lookup" /\ row[r].state = "pending_approval" /\ Signed(r).state = row[r].state
    BY <1>4 DEF Decide, Signed, TypeOK, Row
  <2>3. /\ \A q \in Process \ {r} : Kept(q)
        /\ pc'[r] = "select" /\ cur'[r] = cur[r] /\ row'[r] = Signed(r) /\ goal'[r] = s
    BY <1>1, <2>1, BeginKeeps
  <2>4. High(cur[r]) /\ cur[r] \in Action
    BY <2>2 DEF PathInv, Reads, TypeOK
  <2>5. ~Written(r, cur[r])
    BY <2>2, <2>4 DEF StoryInv, Signing, Drafted, EntriesOf
  <2>6. Starts(r)'
    BY <1>1, <2>2, <2>3, <2>4, <2>5 DEF Starts, Written, High, Def
  <2>. QED
    BY <1>1, <2>3, <2>6, PathInside DEF Reads
<1>. QED
  BY <1>2, <1>3, <1>4

LEMMA MovePath ==
  ASSUME TypeInv, PathInv, NEW p \in Process, SelectLast(p) \/ Effect(p) \/ WriteEntity(p)
  PROVE  PathInv'
<1>. TypeOK /\ Path(p)
  BY DEF TypeInv, PathInv
<1>1. /\ \A q \in Process \ {p} : Kept(q)
      /\ cur'[p] = cur[p] /\ UNCHANGED <<actions, ledger, work>>
  BY MovesKeep DEF Transact
<1>2. dirty'[p] = dirty[p] /\ own'[p] = own[p]
  BY SelectFacts, EffectFacts, WriteFacts
<1>3. \/ pc[p] = "select" /\ pc'[p] = "flush" /\ row'[p] = row[p] /\ goal'[p] = goal[p]
      \/ /\ pc[p] = "effect" /\ pc'[p] = "select"
         /\ row'[p].state = row[p].state /\ goal'[p] \in {"executed", "failed"}
      \/ pc[p] = "write" /\ pc'[p] \in {"commit", "respond"}
  BY SelectFacts, EffectFacts, WriteFacts DEF End
<1>4. InTransition(p)' => Starts(p)' \/ Continues(p)'
  <2>1. CASE pc[p] = "select"
    BY <1>1, <1>2, <1>3, <2>1 DEF Path, InTransition, Starts, Continues, Written
  <2>2. CASE pc[p] = "effect"
    BY <1>1, <1>2, <1>3, <2>2 DEF Path, Continues
  <2>3. CASE pc[p] = "write"
    BY <1>3, <2>3 DEF InTransition
  <2>. QED
    BY <1>3, <2>1, <2>2, <2>3
<1>5. p = Orch => Lapsing'
  <2>1. p = Orch => (Expiring' => Expiring)
    BY <1>3 DEF Expiring, InTransition
  <2>. QED
    BY <1>1, <2>1 DEF PathInv, Lapsing
<1>6. pc'[p] # "effect" /\ (p \in Request => Reads(p)')
  BY <1>3 DEF Reads
<1>. QED
  BY <1>1, <1>2, <1>4, <1>5, <1>6, PathInside

LEMMA FlushPath ==
  ASSUME TypeInv, IncidentInv, PathInv, NEW p \in Process, Flush(p)
  PROVE  PathInv'
<1>0. PICK a, n : a = cur[p] /\ n = NewEntry(p)
  OBVIOUS
<1>. TypeOK /\ Path(p) /\ CreatesFresh(p) /\ TickInv /\ a \in Action
  BY <1>0 DEF TypeInv, IncidentInv, PathInv, TypeOK
<1>1. /\ \A q \in Process \ {p} : Kept(q)
      /\ cur'[p] = a /\ UNCHANGED <<actions, ledger, work>>
  BY <1>0, MovesKeep DEF Transact
<1>2. /\ pc[p] = "flush" /\ row'[p].state = goal[p] /\ pc'[p] = After(p, goal[p])
      /\ goal'[p] = IF goal[p] = "queued" THEN "executing" ELSE goal[p]
      /\ dirty'[p][a].state = goal[p]
      /\ \A b \in Action \ {a} : dirty'[p][b] = dirty[p][b]
      /\ own'[p] = own[p] \cup {n} /\ n.action = a /\ n.to = goal[p]
  BY <1>0, FlushFacts, FlushRow
<1>3. \A b \in Action : Draftable(p, b)' = Draftable(p, b)
  BY <1>1 DEF Draftable, Exists, High, Def
<1>4. goal[p] \in Draftable(p, a)
  <2>1. CASE Continues(p)
    BY <1>0, <2>1 DEF Continues, Path, Written, Draftable, Running
  <2>2. CASE Starts(p) /\ p # Orch
    BY <1>0, <2>2 DEF Starts, Draftable, Running
  <2>3. CASE p = Orch /\ row[p].state = "none" /\ Starts(p)
    BY <1>0, <1>2, <2>3 DEF Starts, Draftable, Running, CreatesFresh, InTransition
  <2>4. CASE p = Orch /\ row[p].state # "none" /\ Starts(p)
    <3>1. goal[p] = "expired" /\ High(a) /\ p = Orch
      BY <1>0, <2>4 DEF Starts
    <3>2. Exists(a)
      BY <1>0, <1>2, <3>1 DEF TickInv, Responding, Expiring, Begun, InTransition
    <3>. QED
      BY <3>1, <3>2 DEF Draftable
  <2>. QED
    BY <1>2, <2>1, <2>2, <2>3, <2>4 DEF Path, InTransition
<1>5. \A b \in Action : Written(p, b)' => dirty'[p][b].state \in Draftable(p, b)'
  BY <1>2, <1>3, <1>4 DEF Path, Written
<1>6. dirty[p][a].state # "executed"
  <2>1. CASE Continues(p)
    BY <1>0, <2>1 DEF Continues
  <2>2. CASE Starts(p) /\ p # Orch
    BY <1>0, <2>2 DEF Starts, Written
  <2>3. CASE p = Orch /\ row[p].state = "none" /\ Starts(p)
    BY <1>0, <1>2, <2>3 DEF CreatesFresh, InTransition, Written
  <2>4. CASE p = Orch /\ row[p].state # "none" /\ Starts(p)
    BY <1>0, <2>4 DEF Starts, Path, Written, Draftable
  <2>. QED
    BY <1>2, <2>1, <2>2, <2>3, <2>4 DEF Path, InTransition
<1>7. RanOnce(p, a)'
  <2>1. Executions(own[p], a) = {}
    BY <1>6 DEF Path, RanOnce
  <2>2. Executions(own'[p], a) = IF goal[p] = "executed" THEN {n} ELSE {}
    BY <1>2, <2>1 DEF Executions
  <2>. QED
    BY <1>2, <2>2 DEF RanOnce
<1>8. ASSUME NEW b \in Action \ {a} PROVE RanOnce(p, b)'
  <2>1. Executions(own'[p], b) = Executions(own[p], b)
    BY <1>2 DEF Executions
  <2>. QED
    BY <1>2, <2>1 DEF Path, RanOnce
<1>9. InTransition(p)' => Continues(p)'
  BY <1>1, <1>2 DEF InTransition, Continues, After, Stop, End
<1>10. pc'[p] = "effect" => row'[p].state = "executing" /\ dirty'[p][cur'[p]].state = "executing"
  BY <1>1, <1>2 DEF After, Stop, End
<1>11. Path(p)'
  BY <1>5, <1>7, <1>8, <1>9, <1>10 DEF Path
<1>12. p = Orch => Lapsing'
  <2>1. p = Orch => (Expiring' => Expiring)
    BY <1>2 DEF Expiring, InTransition, After, Stop, End
  <2>. QED
    BY <1>1, <2>1 DEF PathInv, Lapsing, High, Def
<1>13. p \in Request => Reads(p)'
  BY <1>2 DEF Reads, After, Stop, End
<1>14. Committed' /\ \A b \in Action : Exists(b)' <=> Exists(b)
  BY <1>1 DEF PathInv, Committed, Exists, High, Def
<1>. QED
  BY <1>1, <1>11, <1>12, <1>13, <1>14, PathStep

\* After its end a transaction has nothing written.
LEMMA EndedPath ==
  ASSUME TypeInv, PathInv, NEW p \in Process, Ended(p), Committed',
         p # Orch => UNCHANGED work /\ \A a \in Action : Exists(a)' <=> Exists(a)
  PROVE  PathInv'
<1>1. /\ \A q \in Process \ {p} : Kept(q)
      /\ pc'[p] \in {"idle", "done", "refresh"} /\ own'[p] = {}
      /\ \A a \in Action : dirty'[p][a] = Absent /\ ~Written(p, a)'
  BY EndedKeeps DEF TypeInv
<1>2. \A a \in Action : RanOnce(p, a)'
  BY <1>1, AbsentState DEF RanOnce, Executions
<1>3. Path(p)'
  BY <1>1, <1>2 DEF Path, InTransition
<1>4. Reads(p)' /\ (p = Orch => Lapsing')
  BY <1>1 DEF Reads, Lapsing, Expiring, InTransition
<1>. QED
  BY <1>1, <1>3, <1>4, PathStep

\* What a commit brings an action: nothing, or a drafted state and its run.
LEMMA CommitOne ==
  ASSUME TypeInv, StoryInv, PathInv, NEW p \in Process, NEW rows \in [Action -> Row],
         Commit(p, rows), ~Midway(p), \A a \in Action : rows[a].state = dirty[p][a].state,
         NEW a \in Action
  PROVE  /\ IsFiniteSet(Executions(ledger, a)) /\ IsFiniteSet(Executions(ledger', a))
         /\ ~Written(p, a) =>
              /\ actions'[a] = actions[a]
              /\ Cardinality(Executions(ledger', a)) = Cardinality(Executions(ledger, a))
         /\ Written(p, a) =>
              /\ actions'[a].state \in Draftable(p, a) \ {"queued", "executing"}
              /\ Cardinality(Executions(ledger', a)) =
                   Cardinality(Executions(ledger, a))
                     + IF actions'[a].state = "executed" THEN 1 ELSE 0
<1>. TypeOK /\ Path(p) /\ Drafted(p) /\ RanOnce(p, a)
  BY DEF TypeInv, StoryInv, PathInv, Path
<1>1. (~Written(p, a) => actions'[a] = actions[a]) /\ ledger' = ledger \cup own[p]
  BY CommitRows
<1>2. Written(p, a) => /\ actions'[a].state = dirty[p][a].state
                       /\ dirty[p][a].state \in Draftable(p, a) \ {"queued", "executing"}
  <2>1. Written(p, a) => actions'[a].state = dirty[p][a].state
    BY CommitKey DEF Written
  <2>. QED
    BY <2>1 DEF Path, Drafted
<1>3. Executions(ledger', a) = Executions(ledger, a) \cup Executions(own[p], a)
  BY <1>1 DEF Executions
<1>4. IsFiniteSet(Executions(ledger, a)) /\ Cardinality(Executions(ledger, a)) \in Nat
  BY FS_CardinalityType DEF PathInv, Committed
<1>5. CASE dirty[p][a].state # "executed"
  <2>1. Executions(ledger', a) = Executions(ledger, a)
    BY <1>3, <1>5 DEF RanOnce
  <2>. QED
    BY <1>1, <1>2, <1>4, <1>5, <2>1
<1>6. CASE dirty[p][a].state = "executed"
  <2>1. PICK n \in own[p] : Executions(own[p], a) = {n}
    BY <1>6 DEF RanOnce
  <2>2. n \notin Executions(ledger, a)
    BY <2>1 DEF Drafted, Executions, TypeOK, Entry
  <2>3. Executions(ledger', a) = Executions(ledger, a) \cup {n}
    BY <1>3, <2>1
  <2>4. /\ IsFiniteSet(Executions(ledger', a))
        /\ Cardinality(Executions(ledger', a)) = Cardinality(Executions(ledger, a)) + 1
    BY <1>4, <2>2, <2>3, FS_AddElement
  <2>5. Written(p, a)
    BY <1>6 DEF Written
  <2>. QED
    BY <1>2, <1>4, <1>6, <2>4, <2>5
<1>. QED
  BY <1>5, <1>6

\* A commit leaves only high-blast actions pending.
LEMMA CommitPath ==
  ASSUME TypeInv, StoryInv, PathInv, NEW p \in Process, NEW rows \in [Action -> Row],
         Commit(p, rows), ~Midway(p), \A a \in Action : rows[a].state = dirty[p][a].state
  PROVE  Committed'
<1>. SUFFICES ASSUME NEW a \in Action
              PROVE  /\ actions'[a].state = "pending_approval" => High(a)
                     /\ IsFiniteSet(Executions(ledger', a))
  BY DEF Committed, High, Def, Executions
<1>1. CASE ~Written(p, a)
  BY <1>1, CommitOne DEF PathInv, Committed
<1>2. CASE Written(p, a)
  <2>1. actions'[a].state \in Draftable(p, a) /\ IsFiniteSet(Executions(ledger', a))
    BY <1>2, CommitOne
  <2>. QED
    BY <2>1 DEF Draftable, Running
<1>. QED
  BY <1>1, <1>2

\* The rows a commit writes, those of a request with their key.
LEMMA CommittedRows ==
  ASSUME TypeOK, NEW r \in Request, CommitDecision(r)
  PROVE  \E rows \in [Action -> Row] :
           /\ Commit(r, rows)
           /\ \A a \in Action : /\ rows[a].state = dirty[r][a].state
                                /\ rows[a].decidedBy = dirty[r][a].decidedBy
<1>. DEFINE k == IF row[r].idem = NoKey THEN job[r].key ELSE NoKey
            rows == [dirty[r] EXCEPT ![cur[r]].idem = k]
<1>1. dirty[r] \in [Action -> Row] /\ k \in Key \cup {NoKey} /\ cur[r] \in Action
  BY OrchProcess DEF TypeOK
<1>2. /\ rows \in [Action -> Row]
      /\ \A a \in Action : /\ rows[a].state = dirty[r][a].state
                           /\ rows[a].decidedBy = dirty[r][a].decidedBy
  BY <1>1, RowKeyType DEF Row
<1>3. Commit(r, rows)
  BY DEF CommitDecision
<1>. HIDE DEF rows
<1>. QED
  BY <1>2, <1>3

LEMMA CommitsPath ==
  ASSUME TypeInv, IncidentInv, StoryInv, PathInv,
         NEW p \in Process, (p = Orch /\ CommitTick) \/ (p \in Request /\ CommitDecision(p))
  PROVE  PathInv'
<1>. TypeOK
  BY DEF TypeInv
<1>1. CASE p = Orch /\ CommitTick
  <2>1. /\ Commit(Orch, dirty[Orch]) /\ dirty[Orch] \in [Action -> Row] /\ ~Midway(Orch)
        /\ Ended(Orch)
    BY <1>1, OrchProcess, CloseEnds DEF CommitTick, TypeOK, Midway
  <2>2. Committed'
    BY <2>1, CommitPath, OrchProcess
  <2>. QED
    BY <1>1, <2>1, <2>2, EndedPath
<1>2. CASE p \in Request /\ CommitDecision(p)
  <2>1. PICK rows \in [Action -> Row] :
          Commit(p, rows) /\ \A a \in Action : rows[a].state = dirty[p][a].state
    BY <1>2, CommittedRows
  <2>2. ~Midway(p) /\ Ended(p) /\ UNCHANGED work /\ p # Orch
    BY <1>2, OrchProcess DEF CommitDecision, Midway, Ended, TypeOK, tick
  <2>3. Committed'
    BY <2>1, <2>2, CommitPath
  <2>4. \A a \in Action : Exists(a)' <=> Exists(a)
    BY <1>2, <2>1, CommitRows DEF IncidentInv, Decides
  <2>. QED
    BY <2>2, <2>3, <2>4, EndedPath
<1>. QED
  BY <1>1, <1>2

LEMMA FinishPath ==
  ASSUME TypeInv, PathInv, NEW p \in Process,
         Crash(p) \/ (p \in Request /\ (Replay(p) \/ Conflict(p) \/ Refresh(p) \/ DuplicateKey(p)))
  PROVE  PathInv'
<1>1. Close(p) /\ UNCHANGED <<actions, ledger>> /\ (p # Orch => UNCHANGED work)
  BY DEF Crash, Replay, Conflict, Refresh, DuplicateKey, Finish, db, tick
<1>2. Committed' /\ \A a \in Action : Exists(a)' <=> Exists(a)
  BY <1>1 DEF PathInv, Committed, Exists
<1>. QED
  BY <1>1, <1>2, CloseEnds, EndedPath

LEMMA StutterPath ==
  ASSUME PathInv, OpenIncident \/ TimeOut \/ UNCHANGED vars
  PROVE  PathInv'
<1>1. UNCHANGED <<actions, ledger, pc, cur, row, goal, dirty, own, work>>
  BY DEF OpenIncident, TimeOut, db, buffer, tick, vars
<1>2. \A p \in Process : Path(p)'
  BY <1>1 DEF PathInv, Path, InTransition, Starts, Continues, Written, Draftable, Exists, RanOnce
<1>3. \A r \in Request : Reads(r)'
  BY <1>1 DEF PathInv, Reads
<1>4. Lapsing' /\ Committed'
  BY <1>1 DEF PathInv, Lapsing, Expiring, InTransition, Committed
<1>. QED
  BY <1>2, <1>3, <1>4 DEF PathInv

LEMMA InitPath == Init => PathInv
<1>. SUFFICES ASSUME Init PROVE PathInv
  OBVIOUS
<1>1. /\ \A a \in Action : actions[a].state = "none"
      /\ \A p \in Process : /\ pc[p] = "idle" /\ own[p] = {}
                            /\ \A a \in Action : dirty[p][a].state = "none"
      /\ ledger = {}
  BY DEF Init, NoRows, Absent, NewRow
<1>2. \A a : Executions({}, a) = {} /\ IsFiniteSet({})
  BY FS_EmptySet DEF Executions
<1>3. Committed
  BY <1>1, <1>2 DEF Committed
<1>4. \A p \in Process : Path(p)
  BY <1>1, <1>2 DEF Path, InTransition, Written, RanOnce
<1>5. Lapsing /\ \A r \in Request : Reads(r)
  BY <1>1, OrchProcess DEF Lapsing, Expiring, InTransition, Reads
<1>. QED
  BY <1>3, <1>4, <1>5 DEF PathInv

LEMMA NextPath ==
  TypeInv /\ IncidentInv /\ StoryInv /\ PathInv /\ [Next]_vars => PathInv'
<1>. SUFFICES ASSUME TypeInv, IncidentInv, StoryInv, PathInv, [Next]_vars PROVE PathInv'
  OBVIOUS
<1>1. ASSUME NEW p \in Process, Transact(p) PROVE PathInv'
  BY <1>1, MovePath, FlushPath DEF Transact
<1>2. CASE Tick
  BY <1>1, <1>2, OrchProcess, TickPath, CommitsPath DEF Tick
<1>3. ASSUME NEW r \in Request, Receive(r) \/ TurnAway(r) \/ Handle(r) PROVE PathInv'
  BY <1>1, <1>3, OrchProcess, RequestPath, FinishPath, CommitsPath DEF Handle
<1>4. ASSUME NEW p \in Process, Crash(p) PROVE PathInv'
  BY <1>4, FinishPath
<1>5. CASE OpenIncident \/ TimeOut \/ UNCHANGED vars
  BY <1>5, StutterPath
<1>. QED
  BY <1>2, <1>3, <1>4, <1>5 DEF Next

----------------------------------------------------------------------------
(* The refinement *)

St      == [a \in Action |-> actions[a].state]
Decider == [a \in Action |-> actions[a].decidedBy]
Times   == [a \in Action |-> Cardinality(Decisions(a))]
Runs    == [a \in Action |-> Cardinality({e \in Records(a) : e.to = "executed"})]

LEMMA MapFacts ==
  /\ \A a \in Action : /\ St[a] = actions[a].state /\ Decider[a] = actions[a].decidedBy
                       /\ Times[a] = Cardinality(DecisionsIn(ledger, a))
                       /\ Runs[a] = Cardinality(Executions(ledger, a))
  /\ St = [a \in Action |-> St[a]] /\ Decider = [a \in Action |-> Decider[a]]
  /\ Times = [a \in Action |-> Times[a]] /\ Runs = [a \in Action |-> Runs[a]]
<1>1. \A a : {e \in Records(a) : e.to = "executed"} = Executions(ledger, a)
  BY DEF Records, Executions
<1>2. \A a : Decisions(a) = DecisionsIn(ledger, a)
  BY DEF Decisions, Records, DecisionsIn
<1>. QED
  BY <1>1, <1>2 DEF St, Decider, Times, Runs

\* The same of the next state.
LEMMA MapFactsNext ==
  /\ \A a \in Action : /\ St'[a] = actions'[a].state /\ Decider'[a] = actions'[a].decidedBy
                       /\ Times'[a] = Cardinality(DecisionsIn(ledger', a))
                       /\ Runs'[a] = Cardinality(Executions(ledger', a))
  /\ St' = [a \in Action |-> St'[a]] /\ Decider' = [a \in Action |-> Decider'[a]]
  /\ Times' = [a \in Action |-> Times'[a]] /\ Runs' = [a \in Action |-> Runs'[a]]
<1>1. \A a : {e \in Records(a)' : e.to = "executed"} = Executions(ledger', a)
  BY DEF Records, Executions
<1>2. \A a : Decisions(a)' = DecisionsIn(ledger', a)
  BY DEF Decisions, Records, DecisionsIn
<1>. QED
  BY <1>1, <1>2 DEF St, Decider, Times, Runs

\* The worker's commit is a pass of the worker.
LEMMA TickSweeps ==
  ASSUME TypeInv, IncidentInv, StoryInv, PathInv, CommitTick
  PROVE  Lifecycle!Next
<1>. TypeOK /\ Orch \in Process /\ Unsigning
  BY OrchProcess DEF TypeInv, StoryInv
<1>1. /\ Commit(Orch, dirty[Orch]) /\ dirty[Orch] \in [Action -> Row] /\ ~Midway(Orch)
      /\ ledger' = ledger \cup own[Orch]
  BY DEF CommitTick, TypeOK, Midway, Commit
<1>2. ASSUME NEW a \in Action
      PROVE  /\ \/ St'[a] = St[a]
                \/ High(a) /\ St[a] # "none" /\ St'[a] = "expired"
                \/ St[a] = "none" /\ High(a) /\ St'[a] = "pending_approval"
                \/ St[a] = "none" /\ ~High(a) /\ St'[a] \in {"executed", "failed"}
             /\ Runs'[a] = Runs[a] + IF St[a] = "none" /\ St'[a] = "executed" THEN 1 ELSE 0
  <2>1. Cardinality(Executions(ledger, a)) \in Nat
    BY <1>1, CommitOne, FS_CardinalityType
  <2>2. CASE ~Written(Orch, a)
    <3>1. /\ actions'[a] = actions[a]
          /\ Cardinality(Executions(ledger', a)) = Cardinality(Executions(ledger, a))
      BY <1>1, <2>2, CommitOne
    <3>. QED
      BY <2>1, <3>1, MapFacts, MapFactsNext
  <2>3. CASE Written(Orch, a)
    <3>1. /\ actions'[a].state \in Draftable(Orch, a) \ {"queued", "executing"}
          /\ Cardinality(Executions(ledger', a)) =
               Cardinality(Executions(ledger, a))
                 + IF actions'[a].state = "executed" THEN 1 ELSE 0
      BY <1>1, <2>3, CommitOne
    <3>. QED
      BY <2>1, <3>1, MapFacts, MapFactsNext DEF Draftable, Running, Exists
  <2>. QED
    BY <2>2, <2>3
<1>3. \A a \in Action : actions'[a].decidedBy = actions[a].decidedBy
  BY <1>1 DEF Commit, Overwrite, Unsigning
<1>4. Decider' = Decider
  BY <1>3 DEF Decider
<1>5. Times' = Times
  <2>1. \A a \in Action : DecisionsIn(ledger', a) = DecisionsIn(ledger, a)
    BY <1>1, ConstantsAssumption DEF Unsigning, DecisionsIn
  <2>2. \A a \in Action : Times'[a] = Times[a]
    BY <2>1, MapFacts, MapFactsNext
  <2>. QED
    BY <2>2, MapFacts, MapFactsNext
<1>6. Runs' = [a \in Action |-> Runs[a] + IF St[a] = "none" THEN Lifecycle!Ran(St'[a]) ELSE 0]
  <2>1. \A a \in Action :
          Runs'[a] = Runs[a] + IF St[a] = "none" THEN Lifecycle!Ran(St'[a]) ELSE 0
    BY <1>2 DEF Lifecycle!Ran
  <2>. QED
    BY <2>1, MapFactsNext
<1>7. St' = [a \in Action |-> St'[a]]
  BY MapFactsNext
<1>8. Lifecycle!Sweep
  <2>1. \A a \in Action : a \in {x \in Action : Def(x).blast = "high"} <=> High(a)
    BY DEF High
  <2>. QED
    BY <1>2, <1>4, <1>5, <1>6, <1>7, <2>1
       DEF Lifecycle!Sweep, Lifecycle!Outcome, Lifecycle!Undecided, St, Decider, Times, Runs
<1>. QED
  BY <1>8 DEF Lifecycle!Next

\* A request's commit is an approver's decision about the action it loaded.
LEMMA RequestDecides ==
  ASSUME TypeInv, IncidentInv, StoryInv, AnswerInv, PathInv, NEW r \in Request, CommitDecision(r)
  PROVE  Lifecycle!Next
<1>0. PICK a : a = cur[r]
  OBVIOUS
<1>. /\ TypeOK /\ r \in Process /\ r # Orch /\ a \in Action
     /\ Signing(r) /\ Drafted(r) /\ Decides(r) /\ Spoken(r) /\ Fresh(r)
  BY <1>0, OrchProcess DEF TypeInv, TypeOK, IncidentInv, StoryInv, AnswerInv
<1>1. PICK rows \in [Action -> Row] :
        /\ Commit(r, rows)
        /\ \A b \in Action : /\ rows[b].state = dirty[r][b].state
                             /\ rows[b].decidedBy = dirty[r][b].decidedBy
  BY CommittedRows
<1>2. pc[r] = "commit" /\ ~Midway(r)
  BY DEF CommitDecision, Midway
<1>rows. \A b \in Action : rows[b].state = dirty[r][b].state
  BY <1>1
<1>3. PICK n \in own[r] : Human(own[r]) = {n}
  BY <1>2 DEF Spoken, Undecided, InTransition
<1>4. Written(r, a) /\ n.action = a /\ \A b \in Action \ {a} : ~Written(r, b)
  <2>1. n.action \in Action
    BY <1>3 DEF TypeOK, Entry
  <2>2. Written(r, n.action)
    BY <1>3, <2>1 DEF Drafted, EntriesOf
  <2>. QED
    BY <1>0, <2>1, <2>2 DEF Fresh
<1>5. ledger' = ledger \cup own[r]
  BY <1>1 DEF Commit
<1>6. ASSUME NEW b \in Action \ {a}
      PROVE  St'[b] = St[b] /\ Decider'[b] = Decider[b] /\ Times'[b] = Times[b] /\ Runs'[b] = Runs[b]
  <2>1. /\ actions'[b] = actions[b]
        /\ Cardinality(Executions(ledger', b)) = Cardinality(Executions(ledger, b))
    BY <1>1, <1>2, <1>rows, <1>4, CommitOne
  <2>2. DecisionsIn(ledger', b) = DecisionsIn(ledger, b)
    BY <1>3, <1>4, <1>5 DEF DecisionsIn, Human
  <2>. QED
    BY <2>1, <2>2, MapFacts, MapFactsNext
<1>7. /\ High(a) /\ St[a] # "none" /\ St'[a] \in {"executed", "failed", "rejected"}
      /\ Runs'[a] = Runs[a] + Lifecycle!Ran(St'[a])
  <2>1. /\ actions'[a].state \in Draftable(r, a) \ {"queued", "executing"}
        /\ Cardinality(Executions(ledger', a)) =
             Cardinality(Executions(ledger, a)) + IF actions'[a].state = "executed" THEN 1 ELSE 0
    BY <1>1, <1>2, <1>rows, <1>4, CommitOne
  <2>2. Exists(a)
    BY <1>4 DEF Decides
  <2>. QED
    BY <2>1, <2>2, MapFacts, MapFactsNext DEF Draftable, Running, Exists, Lifecycle!Ran
<1>8. Decider'[a] = job[r].user /\ job[r].user \in Approver
  <2>1. /\ job[r].user \in Approver /\ job[r].user # Nobody
        /\ rows[a].decidedBy = job[r].user /\ rows[a].state # "none"
    BY <1>1, <1>2, <1>4, ConstantsAssumption DEF TypeInv, SenderApproved, Signing, Written
  <2>2. actions'[a] = Overwrite(actions[a], rows[a])
    BY <1>1 DEF Commit
  <2>. QED
    BY <2>1, <2>2, MapFactsNext DEF Overwrite
<1>9. Times'[a] = Times[a] + 1
  <2>1. DecisionsIn(ledger, a) \subseteq Human(ledger)
    BY DEF DecisionsIn, Human
  <2>2. IsFiniteSet(DecisionsIn(ledger, a))
    BY <2>1, FS_Subset DEF AnswerInv, Counted
  <2>3. n.seq \in Nat
    BY <1>3 DEF TypeOK, Entry
  <2>4. n \notin DecisionsIn(ledger, a)
    BY <1>3, <2>3 DEF Drafted, DecisionsIn
  <2>5. DecisionsIn(ledger', a) = DecisionsIn(ledger, a) \cup {n}
    BY <1>3, <1>4, <1>5 DEF DecisionsIn, Human
  <2>. QED
    BY <2>2, <2>4, <2>5, FS_AddElement, MapFacts, MapFactsNext
<1>10. /\ St' = [St EXCEPT ![a] = St'[a]]
       /\ Runs' = [Runs EXCEPT ![a] = @ + Lifecycle!Ran(St'[a])]
       /\ Decider' = [Decider EXCEPT ![a] = job[r].user]
       /\ Times' = [Times EXCEPT ![a] = @ + 1]
  BY <1>6, <1>7, <1>8, <1>9, MapFacts, MapFactsNext
<1>11. Lifecycle!Decide(a)
  <2>1. a \in {x \in Action : Def(x).blast = "high"}
    BY <1>7 DEF High
  <2>. QED
    BY <1>7, <1>8, <1>10, <2>1
       DEF Lifecycle!Decide, Lifecycle!Outcome, Lifecycle!Undecided, St, Decider, Times, Runs
<1>. QED
  BY <1>11 DEF Lifecycle!Next

\* All other steps change no committed row and no entry.
LEMMA StepRefines ==
  TypeInv /\ IncidentInv /\ StoryInv /\ AnswerInv /\ PathInv /\ [Next]_vars
    => [Lifecycle!Next]_<<St, Decider, Times, Runs>>
<1>. SUFFICES ASSUME TypeInv, IncidentInv, StoryInv, AnswerInv, PathInv, [Next]_vars
              PROVE  Lifecycle!Next \/ UNCHANGED <<St, Decider, Times, Runs>>
  OBVIOUS
<1>1. ASSUME UNCHANGED <<actions, ledger>> PROVE UNCHANGED <<St, Decider, Times, Runs>>
  BY <1>1 DEF St, Decider, Times, Runs, Decisions, Records
<1>2. CASE CommitTick
  BY <1>2, TickSweeps
<1>3. ASSUME NEW r \in Request, CommitDecision(r) PROVE Lifecycle!Next
  BY <1>3, RequestDecides
<1>4. ASSUME NEW p \in Process, Transact(p) PROVE UNCHANGED <<actions, ledger>>
  BY <1>4, MovesKeep DEF TypeInv
<1>5. CASE Tick /\ ~CommitTick
  <2>1. UNCHANGED <<actions, ledger>>
    BY <1>4, <1>5, OrchProcess DEF Tick, StartTick, Expire, FetchIncidents, CreateAction, db
  <2>. QED
    BY <1>1, <2>1
<1>6. ASSUME NEW r \in Request, Receive(r) \/ TurnAway(r) \/ Handle(r), ~CommitDecision(r)
      PROVE  UNCHANGED <<St, Decider, Times, Runs>>
  <2>1. UNCHANGED <<actions, ledger>>
    BY <1>4, <1>6, OrchProcess
       DEF Handle, Receive, TurnAway, Decide, Replay, Conflict, Refresh, DuplicateKey, db
  <2>. QED
    BY <1>1, <2>1
<1>7. CASE (\E p \in Process : Crash(p)) \/ OpenIncident \/ TimeOut \/ UNCHANGED vars
  <2>1. UNCHANGED <<actions, ledger>>
    BY <1>7 DEF Crash, OpenIncident, TimeOut, db, vars
  <2>. QED
    BY <1>1, <2>1
<1>. QED
  BY <1>2, <1>3, <1>5, <1>6, <1>7 DEF Next

LEMMA InitRefines == Init => Lifecycle!Init
<1>. SUFFICES ASSUME Init PROVE Lifecycle!Init
  OBVIOUS
<1>1. \A a \in Action : actions[a].state = "none" /\ actions[a].decidedBy = Nobody
  BY DEF Init, NoRows, Absent, NewRow
<1>2. \A a \in Action : Runs[a] = 0 /\ Times[a] = 0
  <2>1. \A a \in Action : Executions(ledger, a) = {} /\ DecisionsIn(ledger, a) = {}
    BY DEF Init, Executions, DecisionsIn
  <2>. QED
    BY <2>1, MapFacts, FS_EmptySet
<1>3. Runs = [a \in Action |-> 0] /\ Times = [a \in Action |-> 0]
  BY <1>2, MapFacts
<1>4. /\ [a \in Action |-> Cardinality({e \in Records(a) : e.to = "executed"})] = [a \in Action |-> 0]
      /\ [a \in Action |-> Cardinality(Decisions(a))] = [a \in Action |-> 0]
  BY <1>3 DEF Runs, Times
<1>. QED
  BY <1>1, <1>4 DEF Lifecycle!Init

\* However transactions overlap, the worker and the endpoints implement ActionLifecycle:
\* each commit is one approver's decision of a high-blast action that is there, with one
\* run of its effector at most, or one pass of the worker, which decides nothing, creates
\* an action once and runs the effector of a low-blast one with its creation; for any
\* playbooks, requests and crashes.  (decide and tick: one transaction each.)
THEOREM RefinesLifecycleHolds == Spec => RefinesLifecycle
<1>1. /\ Init => TypeInv /\ IncidentInv /\ StoryInv /\ AnswerInv /\ PathInv
      /\ TypeInv /\ IncidentInv /\ StoryInv /\ AnswerInv /\ PathInv /\ [Next]_vars
           => (TypeInv /\ IncidentInv /\ StoryInv /\ AnswerInv /\ PathInv)'
  BY TypeInit, InitInc, InitStory, InitAnswers, InitPath,
     TypeNext, NextInc, NextStory, NextAnswers, NextPath
<1>2. TypeInv /\ IncidentInv /\ StoryInv /\ AnswerInv /\ PathInv /\ [Next]_vars =>
        [Lifecycle!Next]_<<[a \in Action |-> actions[a].state],
                             [a \in Action |-> actions[a].decidedBy],
                             [a \in Action |-> Cardinality(Decisions(a))],
                             [a \in Action |-> Cardinality({e \in Records(a) : e.to = "executed"})]>>
  BY StepRefines DEF St, Decider, Times, Runs
<1>. QED
  BY <1>1, <1>2, InitRefines, PTL DEF Spec, RefinesLifecycle, Lifecycle!Spec

=============================================================================
