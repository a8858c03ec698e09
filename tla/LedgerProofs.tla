---------------------------- MODULE LedgerProofs ----------------------------
(***************************************************************************)
(* Row and ledger of an action tell the same story, however transactions    *)
(* overlap and overwrite each other (LedgerTellsRow), and so do the ledger  *)
(* and the answers callers got (AnswersOnRecord), and the ledger and the    *)
(* contained entities (EffectsOnRecord): for any playbooks, any number of   *)
(* requests and crashes.                                                    *)
(***************************************************************************)
EXTENDS IncidentProofs

EntriesOf(E, a) == {e \in E : e.action = a}
DecisionsIn(E, a) == {e \in E : e.action = a /\ e.by \in User}
Top(E, e) == e \in E /\ \A d \in E : d.seq <= e.seq

\* The entries of an action tell its state, and its decider.
Tells(E, a, s) ==
  /\ EntriesOf(E, a) = {} => s = "none"
  /\ EntriesOf(E, a) # {} => \E e \in E : Top(EntriesOf(E, a), e) /\ e.to = s
Signs(E, a, u) ==
  /\ DecisionsIn(E, a) = {} => u = Nobody
  /\ DecisionsIn(E, a) # {} => \E e \in E : Top(DecisionsIn(E, a), e) /\ e.by = u

\* Entries, committed or not, have sequence numbers of their own.
Seen == ledger \cup UNION {own[p] : p \in Process}
Numbered ==
  /\ \A e \in Seen : e.seq < nextSeq
  /\ \A d, e \in Seen : d.seq = e.seq => d = e

\* What a transaction wrote tells the state of each row it wrote and is newer than
\* what is committed about that row; only the row it works on may be half-way.
Midway(p) == pc[p] \in {"select", "flush", "effect"}
Drafted(p) ==
  /\ \A a \in Action : Tells(own[p], a, dirty[p][a].state)
  /\ \A a \in Action : Written(p, a) <=> EntriesOf(own[p], a) # {}
  /\ \A a \in Action :
       dirty[p][a].state \in {"queued", "executing"} => a = cur[p] /\ Midway(p)
  /\ \A e \in own[p], d \in ledger : d.action = e.action => d.seq < e.seq
  /\ pc[p] = "effect" => Written(p, cur[p])

\* The worker signs nothing.
Unsigning ==
  /\ Midway(Orch) => row[Orch].decidedBy = Nobody
  /\ \A a \in Action : dirty[Orch][a].decidedBy = Nobody
  /\ \A e \in own[Orch] : e.by = Orch

\* A request signs the rows it writes, and its decision stands among its entries.
Signing(r) ==
  /\ pc[r] \in {"idle", "lookup", "done"} => own[r] = {}
  /\ Midway(r) => row[r].decidedBy = job[r].user
  /\ InTransition(r) /\ ~Written(r, cur[r]) => goal[r] \in {"queued", "rejected"}
  /\ \A e \in own[r] : e.by \in {Orch, job[r].user}
  /\ \A a \in Action : Written(r, a) =>
       /\ dirty[r][a].decidedBy = job[r].user
       /\ \E e \in own[r] : Top(DecisionsIn(own[r], a), e)

\* Row locks: two transactions never have the same row written.
Locked ==
  \A p, q \in Process : \A a \in Action : Written(p, a) /\ Written(q, a) => p = q

\* The committed rows and ledger.
Told ==
  \A a \in Action :
    /\ actions[a].state \notin {"queued", "executing"}
    /\ Tells(ledger, a, actions[a].state)
    /\ Signs(ledger, a, actions[a].decidedBy)

StoryInv ==
  /\ Numbered /\ Locked /\ Told
  /\ \A p \in Process : Drafted(p)
  /\ Unsigning /\ \A r \in Request : Signing(r)

----------------------------------------------------------------------------
(* Steps that write nothing *)

\* Kept processes keep their part, as long as nothing newer is committed about the
\* rows they wrote.
LEMMA OthersStory ==
  ASSUME StoryInv, NEW p \in Process,
         \A q \in Process \ {p} : Kept(q), \A r \in Request \ {p} : job'[r] = job[r],
         \A q \in Process \ {p} : \A e \in own[q], d \in ledger' :
            d.action = e.action => d.seq < e.seq
  PROVE  /\ \A q \in Process \ {p} : Drafted(q)'
         /\ p # Orch => Unsigning'
         /\ \A r \in Request \ {p} : Signing(r)'
<1>1. ASSUME NEW q \in Process \ {p} PROVE Drafted(q)'
  <2>1. /\ Drafted(q) /\ Kept(q)
        /\ \A e \in own[q], d \in ledger' : d.action = e.action => d.seq < e.seq
    BY DEF StoryInv
  <2>2. \A a \in Action : Tells(own[q], a, dirty[q][a].state)'
    BY <2>1 DEF Drafted, Kept
  <2>3. \A a \in Action : (Written(q, a) <=> EntriesOf(own[q], a) # {})'
    BY <2>1 DEF Drafted, Kept, Written
  <2>. QED
    BY <2>1, <2>2, <2>3 DEF Drafted, Kept, Midway, Written
<1>2. p # Orch => Unsigning'
  BY OrchProcess DEF StoryInv, Unsigning, Kept, Midway
<1>3. ASSUME NEW r \in Request \ {p} PROVE Signing(r)'
  BY <1>3, OrchProcess DEF StoryInv, Signing, Kept, Midway, InTransition, Written
<1>. QED
  BY <1>1, <1>2, <1>3

LEMMA QuietStep ==
  ASSUME StoryInv, NEW p \in Process,
         \A q \in Process \ {p} : Kept(q), \A r \in Request \ {p} : job'[r] = job[r],
         UNCHANGED <<actions, ledger, nextSeq, own, dirty>>,
         pc'[p] # "effect",
         ~Midway(p) \/ (cur'[p] = cur[p] /\ Midway(p)'),
         p = Orch /\ Midway(p)' => row'[p].decidedBy = Nobody,
         p \in Request => Signing(p)'
  PROVE  StoryInv'
<1>1. Numbered' /\ Locked' /\ Told'
  <2>1. Numbered'
    BY DEF StoryInv, Numbered, Seen
  <2>2. Locked'
    BY DEF StoryInv, Locked, Written
  <2>3. Told'
    BY DEF StoryInv, Told
  <2>. QED
    BY <2>1, <2>2, <2>3
<1>2. Drafted(p)'
  BY DEF StoryInv, Drafted, Written, Midway
<1>3. p = Orch => Unsigning'
  BY DEF StoryInv, Unsigning
<1>. QED
  BY <1>1, <1>2, <1>3, OthersStory DEF StoryInv, Drafted, Process

\* The tick's own steps, but for its commit.
LEMMA QuietTick ==
  ASSUME TypeInv, StoryInv, StartTick \/ Expire \/ FetchIncidents \/ CreateAction
  PROVE  StoryInv'
<1>. Orch \in Process /\ TypeOK /\ Orch \notin Request
  BY OrchProcess DEF TypeInv
<1>1. UNCHANGED <<actions, ledger, nextSeq, own, dirty, job>>
  BY DEF StartTick, Expire, FetchIncidents, CreateAction, db, world, buffer, http
<1>2. CASE StartTick \/ FetchIncidents
  <2>1. /\ pc[Orch] \in {"idle", "expire"} /\ UNCHANGED <<cur, row, goal>>
        /\ \E l \in {"expire", "respond"} : pc' = [pc EXCEPT ![Orch] = l]
    BY <1>2 DEF StartTick, FetchIncidents
  <2>2. pc'[Orch] \in {"expire", "respond"} /\ \A q \in Process \ {Orch} : Kept(q)
    BY <1>1, <2>1 DEF TypeOK, Kept
  <2>. QED
    BY <1>1, <2>1, <2>2, QuietStep DEF Midway
<1>3. CASE Expire \/ CreateAction
  <2>1. PICK a, r, s : Begin(Orch, a, r, s) /\ r \in {NewRow("pending_approval"), Absent}
    BY <1>3 DEF Expire, CreateAction
  <2>2. r.decidedBy = Nobody
    BY <2>1 DEF NewRow, Absent
  <2>3. pc[Orch] \in {"expire", "respond"}
    BY <1>3 DEF Expire, CreateAction
  <2>4. /\ \A q \in Process \ {Orch} : Kept(q)
        /\ pc'[Orch] = "select" /\ row'[Orch] = r
    BY <1>1, <2>1, BeginKeeps
  <2>. QED
    BY <1>1, <2>2, <2>3, <2>4, QuietStep DEF Midway
<1>. QED
  BY <1>2, <1>3

\* A request that reads, or turns away, or takes its decision.
LEMMA QuietRequest ==
  ASSUME TypeInv, StoryInv, NEW r \in Request, Receive(r) \/ TurnAway(r) \/ Decide(r)
  PROVE  StoryInv'
<1>. r \in Process /\ TypeOK /\ r # Orch /\ Drafted(r) /\ Signing(r)
  BY OrchProcess DEF TypeInv, StoryInv
<1>1. /\ UNCHANGED <<actions, ledger, nextSeq, own, dirty>>
      /\ \A q \in Request \ {r} : job'[q] = job[q]
      /\ pc[r] \in {"idle", "lookup"}
  <2>1. /\ UNCHANGED <<actions, ledger, nextSeq, own, dirty>>
        /\ pc[r] \in {"idle", "lookup"}
    BY DEF Receive, TurnAway, Decide, db, buffer
  <2>2. CASE Receive(r)
    <3>1. \E j : job' = [job EXCEPT ![r] = j]
      BY <2>2 DEF Receive
    <3>. QED
      BY <2>1, <3>1 DEF TypeOK
  <2>3. CASE TurnAway(r) \/ Decide(r)
    <3>1. UNCHANGED job
      BY <2>3 DEF TurnAway, Decide, http
    <3>. QED
      BY <2>1, <3>1
  <2>. QED
    BY <2>2, <2>3
<1>2. own[r] = {} /\ \A a \in Action : ~Written(r, a)
  BY <1>1 DEF Signing, Drafted, EntriesOf
<1>3. \A a \in Action : ~Written(r, a)'
  BY <1>1, <1>2 DEF Written
<1>4. CASE Receive(r) \/ TurnAway(r)
  <2>1. \E l \in {"lookup", "done"} : pc' = [pc EXCEPT ![r] = l]
    BY <1>4 DEF Receive, TurnAway
  <2>2. UNCHANGED goal /\ \A q \in Process \ {r} : cur'[q] = cur[q] /\ row'[q] = row[q]
    <3>1. CASE Receive(r)
      <4>1. \E a, v : cur' = [cur EXCEPT ![r] = a] /\ row' = [row EXCEPT ![r] = v]
        BY <3>1 DEF Receive
      <4>. QED
        BY <3>1, <4>1 DEF Receive, TypeOK
    <3>2. CASE TurnAway(r)
      BY <3>2 DEF TurnAway
    <3>. QED
      BY <1>4, <3>1, <3>2
  <2>3. pc'[r] \in {"lookup", "done"} /\ \A q \in Process \ {r} : Kept(q)
    BY <1>1, <2>1, <2>2 DEF TypeOK, Kept
  <2>4. Signing(r)'
    BY <1>1, <1>2, <1>3, <2>3 DEF Signing, Midway, InTransition
  <2>. QED
    BY <1>1, <2>3, <2>4, QuietStep DEF Midway
<1>5. CASE Decide(r)
  <2>1. PICK s \in {"queued", "rejected"} : Begin(r, cur[r], Signed(r), s)
    BY <1>5 DEF Decide
  <2>2. pc[r] = "lookup" /\ UNCHANGED job
    BY <1>5 DEF Decide, http
  <2>3. Signed(r).decidedBy = job[r].user
    BY DEF Signed, TypeOK, Row
  <2>4. /\ \A q \in Process \ {r} : Kept(q)
        /\ pc'[r] = "select" /\ row'[r] = Signed(r) /\ goal'[r] = s
    BY <1>1, <2>1, BeginKeeps
  <2>5. Signing(r)'
    BY <1>1, <1>2, <1>3, <2>1, <2>2, <2>3, <2>4 DEF Signing, Midway, InTransition
  <2>. QED
    BY <1>1, <2>2, <2>4, <2>5, QuietStep DEF Midway
<1>. QED
  BY <1>4, <1>5

\* The statements of a transition that write neither row nor entry.
LEMMA QuietMove ==
  ASSUME TypeInv, StoryInv, NEW p \in Process, SelectLast(p) \/ Effect(p) \/ WriteEntity(p)
  PROVE  StoryInv'
<1>. TypeOK /\ Drafted(p)
  BY DEF TypeInv, StoryInv
<1>1. /\ \A q \in Process \ {p} : Kept(q)
      /\ cur'[p] = cur[p]
      /\ UNCHANGED <<actions, ledger>>
  BY MovesKeep DEF Transact
<1>2. UNCHANGED <<nextSeq, own, dirty, job>>
  BY DEF SelectLast, Effect, WriteEntity, buffer, http
<1>3. row'[p].decidedBy = row[p].decidedBy
  <2>1. CASE Effect(p)
    <3>1. PICK s : Begin(p, cur[p], [row[p] EXCEPT !.attempt = @ + 1], s)
      BY <2>1 DEF Effect
    <3>2. row'[p] = [row[p] EXCEPT !.attempt = @ + 1]
      BY <1>2, <3>1, BeginKeeps
    <3>. QED
      BY <3>2 DEF TypeOK, Row
  <2>2. CASE SelectLast(p) \/ WriteEntity(p)
    BY <2>2 DEF SelectLast, WriteEntity
  <2>. QED
    BY <2>1, <2>2
<1>4. /\ pc'[p] \in {"select", "flush", "commit", "respond"}
      /\ Midway(p) => Midway(p)'
      /\ Midway(p)' => Midway(p)
      /\ InTransition(p)' => pc[p] = "effect" \/ (InTransition(p) /\ goal'[p] = goal[p])
  BY SelectFacts, EffectFacts, WriteFacts DEF Midway, InTransition, End
<1>5. p \in Request => Signing(p)'
  <2>. SUFFICES ASSUME p \in Request PROVE Signing(p)'
    OBVIOUS
  <2>1. Signing(p)
    BY DEF StoryInv
  <2>2. \A a \in Action : Written(p, a)' <=> Written(p, a)
    BY <1>2 DEF Written
  <2>3. InTransition(p)' /\ ~Written(p, cur[p])' => goal'[p] \in {"queued", "rejected"}
    BY <1>1, <1>2, <1>4, <2>1 DEF Signing, Drafted, Written
  <2>. QED
    BY <1>1, <1>2, <1>3, <1>4, <2>1, <2>2, <2>3 DEF Signing
<1>. QED
  BY <1>1, <1>2, <1>3, <1>4, <1>5, QuietStep DEF StoryInv, Unsigning

----------------------------------------------------------------------------
(* The statement that writes a row and its entry *)

LEMMA FlushRow ==
  ASSUME TypeOK, NEW p \in Process, Flush(p)
  PROVE  /\ row'[p].decidedBy = row[p].decidedBy
         /\ dirty'[p][cur[p]].decidedBy = row[p].decidedBy
         /\ ~ActionLocked(p, cur[p])
         /\ nextSeq' = nextSeq + 1
         /\ UNCHANGED <<actions, ledger, job>>
         /\ NewEntry(p).seq = nextSeq /\ NewEntry(p).to = goal[p] /\ NewEntry(p).by = Actor(p)
<1>. DEFINE new == [row[p] EXCEPT !.state = goal[p]]
<1>1. /\ row' = [row EXCEPT ![p] = new]
      /\ dirty' = [dirty EXCEPT ![p][cur[p]] = new]
      /\ ~ActionLocked(p, cur[p]) /\ nextSeq' = nextSeq + 1
      /\ UNCHANGED <<actions, ledger, job>>
  BY DEF Flush, db, http
<1>2. new.decidedBy = row[p].decidedBy
  BY DEF TypeOK, Row
<1>3. /\ dirty[p] \in [Action -> Row] /\ cur[p] \in Action
      /\ dirty'[p] = [dirty[p] EXCEPT ![cur[p]] = new]
  BY <1>1 DEF TypeOK
<1>. HIDE DEF new
<1>4. dirty'[p][cur[p]] = new
  BY <1>3
<1>5. row'[p] = new
  BY <1>1 DEF TypeOK
<1>. QED
  BY <1>1, <1>2, <1>4, <1>5 DEF NewEntry

\* A step that leaves committed rows and ledger alone, and gives p's part anew.
LEMMA OwnStep ==
  ASSUME StoryInv, NEW p \in Process,
         \A q \in Process \ {p} : Kept(q), \A r \in Request \ {p} : job'[r] = job[r],
         UNCHANGED <<actions, ledger>>,
         Numbered', Locked', Drafted(p)', p = Orch => Unsigning', p \in Request => Signing(p)'
  PROVE  StoryInv'
<1>1. Told'
  BY DEF StoryInv, Told
<1>. QED
  BY <1>1, OthersStory DEF StoryInv, Drafted, Process

LEMMA FlushStory ==
  ASSUME TypeInv, IncidentInv, StoryInv, NEW p \in Process, Flush(p)
  PROVE  StoryInv'
<1>. DEFINE a == cur[p]
            g == goal[p]
            n == NewEntry(p)
<1>. TypeOK /\ CreatesFresh(p) /\ Drafted(p) /\ Numbered /\ Locked /\ a \in Action
  BY DEF TypeInv, IncidentInv, StoryInv, TypeOK
<1>1. /\ InTransition(p) /\ Midway(p) /\ g # "none"
      /\ pc'[p] = After(p, g) /\ cur'[p] = a
      /\ own'[p] = own[p] \cup {n}
      /\ \A x \in Action \ {a} : dirty'[p][x] = dirty[p][x]
      /\ dirty'[p][a].state = g /\ dirty'[p][a].decidedBy = row[p].decidedBy
  BY FlushFacts, FlushRow, MovesKeep DEF Transact, InTransition, Midway, CreatesFresh
<1>2. n.seq = nextSeq /\ n.action = a /\ n.to = g /\ n.by = Actor(p)
  BY FlushFacts, FlushRow
<1>3. /\ \A q \in Process \ {p} : Kept(q)
      /\ UNCHANGED <<actions, ledger, job>> /\ nextSeq' = nextSeq + 1 /\ nextSeq \in Nat
  BY FlushRow, MovesKeep DEF Transact, TypeOK
<1>4. /\ \A q \in Process : own[q] \subseteq Entry
      /\ ledger \subseteq Entry /\ \A e \in Entry : e.seq \in Nat
  BY DEF TypeOK, Entry
<1>. HIDE DEF a, g, n
<1>5. Numbered'
  <2>1. Seen' = Seen \cup {n}
    BY <1>1, <1>3 DEF Seen, Kept
  <2>2. \A e \in Seen : e.seq \in Nat /\ e.seq < nextSeq
    BY <1>4 DEF Seen, Numbered
  <2>. QED
    BY <1>2, <1>3, <2>1, <2>2 DEF Numbered
<1>6. \A x \in Action : Written(p, x)' <=> Written(p, x) \/ x = a
  BY <1>1 DEF Written
<1>7. Locked'
  <2>1. \A q \in Process \ {p} : \A x \in Action : Written(q, x)' <=> Written(q, x)
    BY <1>3 DEF Written, Kept
  <2>2. \A q \in Process \ {p} : ~Written(q, a)
    BY FlushRow DEF ActionLocked, Written, a
  <2>. QED
    BY <1>6, <2>1, <2>2 DEF Locked
<1>8. \A x \in Action \ {a} : /\ EntriesOf(own'[p], x) = EntriesOf(own[p], x)
                              /\ DecisionsIn(own'[p], x) = DecisionsIn(own[p], x)
  BY <1>1, <1>2 DEF EntriesOf, DecisionsIn
<1>9. \A e \in own[p] : e.seq \in Nat /\ e.seq < nextSeq
  BY <1>4 DEF Numbered, Seen
<1>10. Top(EntriesOf(own'[p], a), n)
  BY <1>1, <1>2, <1>3, <1>9 DEF Top, EntriesOf
<1>11. Drafted(p)'
  <2>1. \A x \in Action : Tells(own'[p], x, dirty'[p][x].state)
    <3>1. Tells(own'[p], a, g)
      BY <1>1, <1>2, <1>10 DEF Tells, Top
    <3>2. ASSUME NEW x \in Action \ {a} PROVE Tells(own'[p], x, dirty'[p][x].state)
      <4>1. Tells(own[p], x, dirty[p][x].state) /\ own[p] \subseteq own'[p]
        BY <1>1 DEF Drafted
      <4>2. EntriesOf(own'[p], x) = EntriesOf(own[p], x) /\ dirty'[p][x] = dirty[p][x]
        BY <1>1, <1>8
      <4>. QED
        BY <4>1, <4>2 DEF Tells
    <3>. QED
      BY <1>1, <3>1, <3>2
  <2>2. \A x \in Action : Written(p, x)' <=> EntriesOf(own'[p], x) # {}
    BY <1>6, <1>8, <1>10 DEF Drafted, Top
  <2>3. \A x \in Action : dirty'[p][x].state \in {"queued", "executing"} => x = a /\ Midway(p)'
    <3>1. g \in {"queued", "executing"} => Midway(p)'
      BY <1>1 DEF Midway, After, Stop
    <3>. QED
      BY <1>1, <3>1 DEF Drafted, a
  <2>4. \A e \in own'[p], d \in ledger' : d.action = e.action => d.seq < e.seq
    BY <1>1, <1>2, <1>3 DEF Drafted, Numbered, Seen
  <2>5. Written(p, cur[p])'
    BY <1>1, <1>6
  <2>. QED
    BY <1>1, <2>1, <2>2, <2>3, <2>4, <2>5 DEF Drafted
<1>12. ASSUME p = Orch PROVE Unsigning'
  <2>1. Unsigning /\ Actor(Orch) = Orch
    BY OrchProcess DEF StoryInv, Actor
  <2>. QED
    BY <1>1, <1>2, <1>12, <2>1, FlushRow DEF Unsigning
<1>13. ASSUME p \in Request PROVE Signing(p)'
  <2>1. Signing(p) /\ p # Orch /\ job[p].user \in User /\ Orch \notin User
    BY <1>1, <1>13, ConstantsAssumption, OrchProcess
       DEF StoryInv, TypeInv, SenderApproved, InTransition
  <2>2. pc'[p] \notin {"idle", "lookup", "done"}
    BY <1>1, <1>13 DEF After, Stop, End
  <2>3. row[p].decidedBy = job[p].user
    BY <1>1, <2>1 DEF Signing
  <2>4. n.by \in {Orch, job[p].user} /\ (g \in {"queued", "rejected"} => n.by = job[p].user)
    BY <1>2, <1>13 DEF Actor, g
  <2>5. \E e \in own'[p] : Top(DecisionsIn(own'[p], a), e)
    <3>1. CASE g \in {"queued", "rejected"}
      BY <1>1, <1>2, <1>10, <2>1, <2>4, <3>1 DEF Top, DecisionsIn, EntriesOf
    <3>2. CASE g \notin {"queued", "rejected"}
      <4>1. Written(p, a)
        BY <1>1, <2>1, <3>2 DEF Signing, a, g
      <4>2. DecisionsIn(own'[p], a) = DecisionsIn(own[p], a)
        BY <1>1, <1>2, <1>13, <2>1, <3>2 DEF DecisionsIn, Actor, g
      <4>. QED
        BY <1>1, <2>1, <4>1, <4>2 DEF Signing
    <3>. QED
      BY <3>1, <3>2
  <2>6. \A x \in Action : Written(p, x)' =>
          /\ dirty'[p][x].decidedBy = job[p].user
          /\ \E e \in own'[p] : Top(DecisionsIn(own'[p], x), e)
    BY <1>1, <1>6, <1>8, <2>1, <2>3, <2>5 DEF Signing
  <2>7. \A e \in own'[p] : e.by \in {Orch, job[p].user}
    BY <1>1, <2>1, <2>4 DEF Signing
  <2>. QED
    BY <1>1, <1>3, <1>6, <2>2, <2>3, <2>6, <2>7, FlushRow DEF Signing
<1>. QED
  BY <1>3, <1>5, <1>7, <1>11, <1>12, <1>13, OwnStep

----------------------------------------------------------------------------
(* The end of a transaction *)

\* Nothing of the transaction stays with its process.
LEMMA EndedKeeps ==
  ASSUME TypeOK, NEW p \in Process, Ended(p)
  PROVE  /\ \A q \in Process \ {p} : Kept(q)
         /\ pc'[p] \in {"idle", "done", "refresh"}
         /\ row'[p] = Absent /\ own'[p] = {}
         /\ \A a \in Action : dirty'[p][a] = Absent /\ ~Written(p, a)'
<1>1. PICK l \in {"idle", "done", "refresh"}, b \in Action : Leave(p, l, b)
  BY DEF Ended
<1>2. /\ \A q \in Process \ {p} : Kept(q)
      /\ pc'[p] \in {"idle", "done", "refresh"}
      /\ own'[p] = {} /\ \A a \in Action : ~Written(p, a)'
  BY <1>1, LeaveKeeps
<1>3. row'[p] = Absent /\ dirty'[p] = NoRows
  BY <1>1 DEF TypeOK, Leave
<1>4. \A a \in Action : dirty'[p][a] = Absent
  BY <1>3 DEF NoRows
<1>. QED
  BY <1>2, <1>3, <1>4

LEMMA ClosedStory ==
  ASSUME TypeInv, StoryInv, NEW p \in Process, Ended(p), UNCHANGED nextSeq,
         \A r \in Request \ {p} : job'[r] = job[r],
         ledger' \subseteq ledger \cup own[p],
         \A q \in Process \ {p} : \A e \in own[q], d \in ledger' :
            d.action = e.action => d.seq < e.seq,
         Told'
  PROVE  StoryInv'
<1>1. /\ \A q \in Process \ {p} : Kept(q)
      /\ pc'[p] \in {"idle", "done", "refresh"}
      /\ own'[p] = {} /\ \A a \in Action : ~Written(p, a)'
  BY EndedKeeps DEF TypeInv
<1>2. \A a \in Action : dirty'[p][a] = Absent
  BY EndedKeeps DEF TypeInv
<1>3. Absent.decidedBy = Nobody /\ Absent.state = "none"
  BY DEF Absent, NewRow
<1>4. Numbered'
  <2>1. Seen' \subseteq Seen
    BY <1>1 DEF Seen, Kept
  <2>. QED
    BY <2>1 DEF StoryInv, Numbered
<1>5. Locked'
  BY <1>1 DEF StoryInv, Locked, Written, Kept
<1>6. Drafted(p)'
  BY <1>1, <1>2, <1>3 DEF Drafted, EntriesOf, Tells
<1>7. p = Orch => Unsigning'
  BY <1>1, <1>2, <1>3 DEF Unsigning, Midway
<1>8. p \in Request => Signing(p)'
  BY <1>1, OrchProcess DEF Signing, Midway, InTransition
<1>. QED
  BY <1>1, <1>4, <1>5, <1>6, <1>7, <1>8, OthersStory DEF StoryInv, Process

\* Rolled back, or with nothing to commit.
LEMMA FinishStory ==
  ASSUME TypeInv, StoryInv, NEW p \in Process,
         Crash(p) \/ (p \in Request /\ (Replay(p) \/ Conflict(p) \/ Refresh(p) \/ DuplicateKey(p)))
  PROVE  StoryInv'
<1>1. Close(p) /\ UNCHANGED <<actions, ledger, nextSeq>>
  BY DEF Replay, Conflict, Refresh, DuplicateKey, Crash, Finish, db
<1>2. \A r \in Request \ {p} : job'[r] = job[r]
  <2>1. UNCHANGED job \/ job' = [job EXCEPT ![p] = NoJob]
    BY DEF Replay, Conflict, Refresh, DuplicateKey, Crash, Finish
  <2>. QED
    BY <2>1 DEF TypeInv, TypeOK
<1>3. Told'
  BY <1>1 DEF StoryInv, Told
<1>. QED
  BY <1>1, <1>2, <1>3, CloseEnds, ClosedStory DEF StoryInv, Drafted

\* A commit: each row written takes state and decider from the transaction's entries.
LEMMA CommitStory ==
  ASSUME TypeInv, StoryInv, NEW p \in Process, NEW rows \in [Action -> Row],
         Commit(p, rows), Ended(p), UNCHANGED nextSeq, ~Midway(p),
         \A r \in Request \ {p} : job'[r] = job[r],
         \A a \in Action : rows[a].state = dirty[p][a].state,
         \A a \in Action : Written(p, a) =>
           IF rows[a].decidedBy = Nobody THEN DecisionsIn(own[p], a) = {}
           ELSE \E e \in own[p] : Top(DecisionsIn(own[p], a), e) /\ e.by = rows[a].decidedBy
  PROVE  StoryInv'
<1>. TypeOK /\ Drafted(p) /\ Told /\ Locked
  BY DEF TypeInv, StoryInv
<1>1. /\ \A a \in Action : ~Written(p, a) => actions'[a] = actions[a]
      /\ ledger' = ledger \cup own[p]
  BY CommitRows
<1>2. \A a \in Action : Written(p, a) =>
        /\ actions'[a].state = rows[a].state
        /\ actions'[a].decidedBy = IF rows[a].decidedBy = Nobody THEN actions[a].decidedBy
                                                                 ELSE rows[a].decidedBy
  <2>. SUFFICES ASSUME NEW a \in Action, Written(p, a)
                PROVE  /\ actions'[a].state = rows[a].state
                       /\ actions'[a].decidedBy = IF rows[a].decidedBy = Nobody
                                                    THEN actions[a].decidedBy
                                                    ELSE rows[a].decidedBy
    OBVIOUS
  <2>1. actions'[a] = Overwrite(actions[a], rows[a]) /\ rows[a].state # "none"
    BY DEF Commit, Written
  <2>. QED
    BY <2>1 DEF Overwrite
<1>3. \A q \in Process \ {p} : \A e \in own[q], d \in ledger' :
         d.action = e.action => d.seq < e.seq
  <2>. SUFFICES ASSUME NEW q \in Process \ {p}, NEW e \in own[q], NEW d \in own[p],
                       d.action = e.action
                PROVE  FALSE
    BY <1>1 DEF StoryInv, Drafted
  <2>1. e.action \in Action
    BY DEF TypeOK, Entry
  <2>2. Written(q, e.action)
    BY <2>1 DEF StoryInv, Drafted, EntriesOf
  <2>3. Written(p, e.action)
    BY <2>1 DEF Drafted, EntriesOf
  <2>. QED
    BY <2>1, <2>2, <2>3 DEF Locked
<1>4. ASSUME NEW a \in Action, ~Written(p, a)
      PROVE  /\ EntriesOf(ledger', a) = EntriesOf(ledger, a)
             /\ DecisionsIn(ledger', a) = DecisionsIn(ledger, a)
  <2>1. \A e \in own[p] : e.action # a
    BY <1>4 DEF Drafted, EntriesOf
  <2>. QED
    BY <1>1, <2>1 DEF EntriesOf, DecisionsIn
<1>5. ASSUME NEW a \in Action
      PROVE  /\ actions'[a].state \notin {"queued", "executing"}
             /\ Tells(ledger', a, actions'[a].state)
  <2>1. CASE ~Written(p, a)
    <3>1. actions'[a] = actions[a] /\ EntriesOf(ledger', a) = EntriesOf(ledger, a)
      BY <1>1, <1>4, <2>1
    <3>. QED
      BY <1>1, <3>1 DEF Told, Tells
  <2>2. CASE Written(p, a)
    <3>1. actions'[a].state = dirty[p][a].state /\ actions'[a].state \notin {"queued", "executing"}
      BY <1>2, <2>2 DEF Drafted
    <3>2. PICK e \in own[p] : Top(EntriesOf(own[p], a), e) /\ e.to = dirty[p][a].state
      BY <2>2 DEF Drafted, Tells
    <3>3. Top(EntriesOf(ledger', a), e)
      <4>1. e.seq \in Nat /\ e.action = a /\ \A d \in ledger : d.seq \in Nat
        BY <3>2 DEF TypeOK, Entry, Top, EntriesOf
      <4>2. \A d \in ledger : d.action = a => d.seq <= e.seq
        BY <4>1 DEF Drafted
      <4>. QED
        BY <1>1, <3>2, <4>1, <4>2 DEF Top, EntriesOf
    <3>. QED
      BY <1>1, <3>1, <3>2, <3>3 DEF Tells, Top
  <2>. QED
    BY <2>1, <2>2
<1>6. ASSUME NEW a \in Action PROVE Signs(ledger', a, actions'[a].decidedBy)
  <2>1. CASE ~Written(p, a)
    <3>1. actions'[a] = actions[a] /\ DecisionsIn(ledger', a) = DecisionsIn(ledger, a)
      BY <1>1, <1>4, <2>1
    <3>. QED
      BY <1>1, <3>1 DEF Told, Signs
  <2>2. CASE Written(p, a) /\ rows[a].decidedBy = Nobody
    <3>1. DecisionsIn(ledger', a) = DecisionsIn(ledger, a)
      BY <1>1, <2>2 DEF DecisionsIn
    <3>2. actions'[a].decidedBy = actions[a].decidedBy
      BY <1>2, <2>2
    <3>. QED
      BY <1>1, <3>1, <3>2 DEF Told, Signs
  <2>3. CASE Written(p, a) /\ rows[a].decidedBy # Nobody
    <3>1. PICK e \in own[p] : Top(DecisionsIn(own[p], a), e) /\ e.by = rows[a].decidedBy
      BY <2>3
    <3>2. actions'[a].decidedBy = e.by
      BY <1>2, <2>3, <3>1
    <3>3. Top(DecisionsIn(ledger', a), e)
      <4>1. e.seq \in Nat /\ e.action = a /\ \A d \in ledger : d.seq \in Nat
        BY <3>1 DEF TypeOK, Entry, Top, DecisionsIn
      <4>2. \A d \in ledger : d.action = a => d.seq <= e.seq
        BY <4>1 DEF Drafted
      <4>. QED
        BY <1>1, <3>1, <4>1, <4>2 DEF Top, DecisionsIn
    <3>. QED
      BY <1>1, <3>2, <3>3 DEF Signs, Top
  <2>. QED
    BY <2>1, <2>2, <2>3
<1>7. Told'
  BY <1>5, <1>6 DEF Told
<1>. QED
  BY <1>1, <1>3, <1>7, ClosedStory

LEMMA CommitTickStory ==
  ASSUME TypeInv, StoryInv, CommitTick
  PROVE  StoryInv'
<1>. Orch \in Process /\ TypeOK /\ Unsigning
  BY OrchProcess DEF TypeInv, StoryInv
<1>1. /\ pc[Orch] = "respond" /\ Commit(Orch, dirty[Orch]) /\ Close(Orch)
      /\ UNCHANGED <<nextSeq, job>>
  BY DEF CommitTick, http
<1>2. \A a \in Action : dirty[Orch][a].decidedBy = Nobody /\ DecisionsIn(own[Orch], a) = {}
  BY ConstantsAssumption DEF Unsigning, DecisionsIn
<1>3. dirty[Orch] \in [Action -> Row] /\ ~Midway(Orch)
  BY <1>1 DEF TypeOK, Midway
<1>. QED
  BY <1>1, <1>2, <1>3, CloseEnds, CommitStory

LEMMA CommitDecisionStory ==
  ASSUME TypeInv, StoryInv, NEW r \in Request, CommitDecision(r)
  PROVE  StoryInv'
<1>. r \in Process /\ TypeOK /\ Signing(r)
  BY OrchProcess DEF TypeInv, StoryInv
<1>. DEFINE k == IF row[r].idem = NoKey THEN job[r].key ELSE NoKey
            rows == [dirty[r] EXCEPT ![cur[r]].idem = k]
<1>1. /\ pc[r] = "commit" /\ Commit(r, rows) /\ Leave(r, "refresh", cur[r])
      /\ UNCHANGED <<nextSeq, job>>
  BY DEF CommitDecision, http
<1>2. Ended(r)
  BY <1>1 DEF Ended, TypeOK
<1>3. /\ rows \in [Action -> Row]
      /\ \A a \in Action : /\ rows[a].state = dirty[r][a].state
                           /\ rows[a].decidedBy = dirty[r][a].decidedBy
  <2>1. dirty[r] \in [Action -> Row] /\ k \in Key \cup {NoKey} /\ cur[r] \in Action
    BY DEF TypeOK
  <2>. QED
    BY <2>1, RowKeyType DEF Row
<1>4. job[r].user \in User /\ job[r].user # Nobody /\ Orch \notin User
  BY <1>1, ConstantsAssumption DEF TypeInv, SenderApproved
<1>. HIDE DEF rows
<1>5. ASSUME NEW a \in Action, Written(r, a)
      PROVE  /\ rows[a].decidedBy = job[r].user
             /\ \E e \in own[r] : Top(DecisionsIn(own[r], a), e) /\ e.by = job[r].user
  <2>1. PICK e \in own[r] : Top(DecisionsIn(own[r], a), e)
    BY <1>5 DEF Signing
  <2>2. e.by = job[r].user
    BY <1>4, <2>1 DEF Signing, Top, DecisionsIn
  <2>. QED
    BY <1>3, <1>5, <2>1, <2>2 DEF Signing
<1>6. ~Midway(r)
  BY <1>1 DEF Midway
<1>. QED
  BY <1>1, <1>2, <1>3, <1>4, <1>5, <1>6, CommitStory

----------------------------------------------------------------------------
(* The environment, and all steps *)

LEMMA StutterStory ==
  ASSUME StoryInv, OpenIncident \/ TimeOut \/ UNCHANGED vars
  PROVE  StoryInv'
<1>1. UNCHANGED <<actions, ledger, nextSeq, pc, cur, row, goal, dirty, own, job>>
  BY DEF OpenIncident, TimeOut, db, buffer, http, vars
<1>. QED
  BY <1>1 DEF StoryInv, Numbered, Seen, Locked, Told, Drafted, Unsigning, Signing, Tells, Signs,
              EntriesOf, DecisionsIn, Top, Midway, InTransition, Written

LEMMA InitStory == Init => StoryInv
<1>. SUFFICES ASSUME Init PROVE StoryInv
  OBVIOUS
<1>1. \A a \in Action : NoRows[a].state = "none" /\ NoRows[a].decidedBy = Nobody
  BY DEF NoRows, Absent, NewRow
<1>2. /\ \A a \in Action : actions[a].state = "none" /\ actions[a].decidedBy = Nobody
      /\ \A p \in Process : /\ pc[p] = "idle" /\ own[p] = {}
                            /\ \A a \in Action : /\ dirty[p][a].state = "none"
                                                 /\ dirty[p][a].decidedBy = Nobody
      /\ ledger = {}
  BY <1>1 DEF Init
<1>3. Numbered
  BY <1>2 DEF Numbered, Seen
<1>4. Locked /\ Told
  BY <1>2 DEF Locked, Told, Written, Tells, Signs, EntriesOf, DecisionsIn
<1>5. \A p \in Process : Drafted(p)
  BY <1>2 DEF Drafted, Written, Tells, EntriesOf
<1>6. Unsigning
  BY <1>2, OrchProcess DEF Unsigning, Midway
<1>7. \A r \in Request : Signing(r)
  BY <1>2, OrchProcess DEF Signing, Midway, InTransition, Written
<1>. QED
  BY <1>3, <1>4, <1>5, <1>6, <1>7 DEF StoryInv

LEMMA TransactStory ==
  ASSUME TypeInv, IncidentInv, StoryInv, NEW p \in Process, Transact(p)
  PROVE  StoryInv'
BY QuietMove, FlushStory DEF Transact

LEMMA NextStory == TypeInv /\ IncidentInv /\ StoryInv /\ [Next]_vars => StoryInv'
<1>. SUFFICES ASSUME TypeInv, IncidentInv, StoryInv, [Next]_vars PROVE StoryInv'
  OBVIOUS
<1>1. CASE Tick
  BY <1>1, OrchProcess, QuietTick, CommitTickStory, TransactStory DEF Tick
<1>2. ASSUME NEW r \in Request, Receive(r) \/ TurnAway(r) \/ Handle(r) PROVE StoryInv'
  BY <1>2, OrchProcess, QuietRequest, FinishStory, CommitDecisionStory, TransactStory DEF Handle
<1>3. ASSUME NEW p \in Process, Crash(p) PROVE StoryInv'
  BY <1>3, FinishStory
<1>4. CASE OpenIncident \/ TimeOut \/ UNCHANGED vars
  BY <1>4, StutterStory
<1>. QED
  BY <1>1, <1>2, <1>3, <1>4 DEF Next

\* The last of a set of entries with sequence numbers of their own is the one chosen.
LEMMA LastIsTop ==
  ASSUME NEW E \in SUBSET ledger, NEW e, Top(E, e), Numbered, TypeOK
  PROVE  Last(E) = e
<1>1. \A d \in E : d \in Seen /\ d.seq \in Nat
  BY DEF Seen, TypeOK, Entry
<1>2. Top(E, Last(E))
  BY DEF Last, Top
<1>3. Last(E).seq = e.seq
  BY <1>1, <1>2 DEF Top
<1>. QED
  BY <1>1, <1>2, <1>3 DEF Top, Numbered

LEMMA StorySuffices == TypeInv /\ StoryInv => LedgerTellsRow
<1>. SUFFICES ASSUME TypeInv, StoryInv, NEW a \in Action
              PROVE  /\ actions[a].state \notin {"queued", "executing"}
                     /\ actions[a].state = IF Records(a) = {} THEN "none" ELSE Last(Records(a)).to
                     /\ actions[a].decidedBy = IF Decisions(a) = {} THEN Nobody
                                                                    ELSE Last(Decisions(a)).by
  BY DEF LedgerTellsRow
<1>1. Records(a) = EntriesOf(ledger, a) /\ Decisions(a) = DecisionsIn(ledger, a)
  BY DEF Records, Decisions, EntriesOf, DecisionsIn
<1>2. Records(a) \in SUBSET ledger /\ Decisions(a) \in SUBSET ledger
  BY DEF Records, Decisions
<1>3. /\ actions[a].state \notin {"queued", "executing"}
      /\ Tells(ledger, a, actions[a].state) /\ Signs(ledger, a, actions[a].decidedBy)
      /\ Numbered /\ TypeOK
  BY DEF StoryInv, Told, TypeInv
<1>4. actions[a].state = IF Records(a) = {} THEN "none" ELSE Last(Records(a)).to
  BY <1>1, <1>2, <1>3, LastIsTop DEF Tells
<1>5. actions[a].decidedBy = IF Decisions(a) = {} THEN Nobody ELSE Last(Decisions(a)).by
  BY <1>1, <1>2, <1>3, LastIsTop DEF Signs
<1>. QED
  BY <1>3, <1>4, <1>5

\* Whatever transactions overlap, overwrite each other or die, the committed row of an
\* action has the state its last ledger entry names and the decider its last human
\* decision names, and no action is left in the middle of its execution.
\* (append_entry inside _transition's transaction; the row locks of its UPDATE.)
THEOREM LedgerTellsRowHolds == Spec => []LedgerTellsRow
<1>1. TypeInv /\ IncidentInv /\ StoryInv /\ [Next]_vars => TypeInv' /\ IncidentInv' /\ StoryInv'
  BY TypeNext, NextInc, NextStory
<1>. QED
  BY <1>1, TypeInit, InitInc, InitStory, StorySuffices, PTL DEF Spec

----------------------------------------------------------------------------
(* Answers and keys *)

Decided(a) == DecisionsIn(ledger, a) # {}
Human(E)   == {e \in E : e.by \in User}
Granted    == {r \in Request : answer[r].code = 200 /\ ~answer[r].replayed}
Untold     == {r \in Request : pc[r] = "refresh"}

\* A row read with a key is one that was decided and keeps a key; the worker
\* holds none.
KeyOf(p, v, a) == v.idem # NoKey => p # Orch /\ Decided(a) /\ actions[a].idem # NoKey
Keys(p) ==
  /\ KeyOf(p, row[p], cur[p])
  /\ \A a \in Action : KeyOf(p, dirty[p][a], a)

\* A request writes one row; a row is written as pending by the worker only, when
\* there is none yet.
Fresh(p) ==
  /\ p # Orch => \A a \in Action : Written(p, a) => a = cur[p]
  /\ InTransition(p) /\ goal[p] = "pending_approval" => row[p].state = "none"
  /\ \A a \in Action : dirty[p][a].state = "pending_approval" => p = Orch /\ ~Exists(a)

\* A request writes one decision, with its first entry.
Undecided(r) ==
  \/ pc[r] \in {"idle", "lookup", "refresh", "done"}
  \/ InTransition(r) /\ goal[r] \in {"queued", "rejected"}
Spoken(r) == IF Undecided(r) THEN own[r] = {} ELSE \E n \in own[r] : Human(own[r]) = {n}

\* A request waiting for its answer has its key, if it sent one, on record.
Retriable(r) == pc[r] = "refresh" /\ job[r].key # NoKey => actions[cur[r]].idem # NoKey

Counted ==
  /\ IsFiniteSet(Human(ledger)) /\ IsFiniteSet(Granted) /\ IsFiniteSet(Untold)
  /\ Cardinality(Granted) + Cardinality(Untold) <= Cardinality(Human(ledger))
  /\ Cardinality(Human(ledger)) <= Cardinality(Granted) + Cardinality(Untold) + crashes

\* What is committed of an action that was decided.
OnRecord ==
  \A a \in Action : /\ actions[a].idem # NoKey => Decided(a)
                    /\ Decided(a) => actions[a].state # "pending_approval"

AnswerInv ==
  /\ \A p \in Process : Keys(p) /\ Fresh(p)
  /\ \A r \in Request : Spoken(r) /\ Retriable(r)
  /\ \A r \in Request : pc[r] # "done" => answer[r].code = 0
  /\ OnRecord /\ Counted

\* The others keep their part while the ledger grows, no key goes and, but for the
\* worker's commit, no row appears.
LEMMA AnswerStep ==
  ASSUME AnswerInv, NEW p \in Process, \A q \in Process \ {p} : Kept(q),
         \A r \in Request \ {p} : job'[r] = job[r],
         ledger \subseteq ledger',
         p # Orch => \A a \in Action : Exists(a)' => Exists(a),
         \A q \in Process : cur[q] \in Action,
         \A a \in Action : actions[a].idem # NoKey => actions'[a].idem # NoKey,
         Keys(p)', Fresh(p)', p \in Request => Spoken(p)' /\ Retriable(p)',
         \A r \in Request : pc'[r] # "done" => answer'[r].code = 0,
         OnRecord', Counted'
  PROVE  AnswerInv'
<1>1. ASSUME NEW a PROVE Decided(a) => Decided(a)'
  BY DEF Decided, DecisionsIn
<1>2. ASSUME NEW q \in Process \ {p} PROVE Keys(q)'
  <2>1. Keys(q) /\ Kept(q)
    BY DEF AnswerInv
  <2>. QED
    BY <1>1, <2>1 DEF Keys, KeyOf, Kept
<1>3. ASSUME NEW q \in Process \ {p} PROVE Fresh(q)'
  <2>1. Fresh(q) /\ Kept(q)
    BY DEF AnswerInv
  <2>2. \A a \in Action : dirty'[q][a] = dirty[q][a] /\ (Written(q, a)' <=> Written(q, a))
    BY <2>1 DEF Kept, Written
  <2>. QED
    BY <2>1, <2>2 DEF Fresh, Kept, InTransition
<1>4. ASSUME NEW r \in Request \ {p} PROVE Spoken(r)' /\ Retriable(r)'
  <2>1. Spoken(r) /\ Retriable(r) /\ Kept(r)
    BY OrchProcess DEF AnswerInv
  <2>2. Spoken(r)'
    BY <2>1 DEF Spoken, Undecided, Kept, InTransition
  <2>3. cur[r] \in Action
    BY OrchProcess
  <2>. QED
    BY <2>1, <2>2, <2>3 DEF Retriable, Kept
<1>. QED
  BY <1>2, <1>3, <1>4 DEF AnswerInv

\* A step that tells no caller anything and commits nothing.
LEMMA AnswerQuiet ==
  ASSUME TypeOK, AnswerInv, NEW p \in Process, \A q \in Process \ {p} : Kept(q),
         \A r \in Request \ {p} : job'[r] = job[r],
         UNCHANGED <<actions, ledger, answer, crashes>>,
         pc[p] \notin {"done", "refresh"}, pc'[p] # "refresh",
         Keys(p)', Fresh(p)', p \in Request => Spoken(p)'
  PROVE  AnswerInv'
<1>1. \A r \in Request : pc'[r] # "done" => answer'[r].code = 0
  BY OrchProcess DEF AnswerInv, Kept
<1>2. OnRecord'
  BY DEF AnswerInv, OnRecord, Decided
<1>3. Granted' = Granted
  BY DEF Granted
<1>4. Untold' = Untold
  BY OrchProcess DEF Untold, Kept
<1>5. Counted'
  BY <1>3, <1>4 DEF AnswerInv, Counted
<1>6. p \in Request => Retriable(p)'
  BY DEF Retriable
<1>7. \A q \in Process : cur[q] \in Action
  BY DEF TypeOK
<1>8. \A a \in Action : Exists(a)' => Exists(a)
  BY DEF Exists
<1>. QED
  BY <1>1, <1>2, <1>5, <1>6, <1>7, <1>8, AnswerStep

LEMMA TickAnswers ==
  ASSUME TypeInv, AnswerInv, StartTick \/ Expire \/ FetchIncidents \/ CreateAction
  PROVE  AnswerInv'
<1>. Orch \in Process /\ TypeOK /\ Keys(Orch) /\ Fresh(Orch)
  BY OrchProcess DEF TypeInv, AnswerInv
<1>1. /\ UNCHANGED <<actions, ledger, dirty, own, answer, job, crashes>>
      /\ pc[Orch] \in {"idle", "expire", "respond"}
  BY DEF StartTick, Expire, FetchIncidents, CreateAction, db, world, buffer, http
<1>2. CASE StartTick \/ FetchIncidents
  <2>1. UNCHANGED <<cur, row, goal>> /\ \E l \in {"expire", "respond"} : pc' = [pc EXCEPT ![Orch] = l]
    BY <1>2 DEF StartTick, FetchIncidents
  <2>2. pc'[Orch] \in {"expire", "respond"} /\ \A q \in Process \ {Orch} : Kept(q)
    BY <1>1, <2>1 DEF TypeOK, Kept
  <2>3. Keys(Orch)'
    BY <1>1, <2>1 DEF Keys, KeyOf, Decided
  <2>4. Fresh(Orch)'
    BY <1>1, <2>2 DEF Fresh, InTransition, Exists
  <2>. QED
    BY <1>1, <2>2, <2>3, <2>4, AnswerQuiet, OrchProcess
<1>3. CASE Expire \/ CreateAction
  <2>1. PICK a, v, s : /\ Begin(Orch, a, v, s) /\ v \in {NewRow("pending_approval"), Absent}
                       /\ s = "pending_approval" => v = Absent
    BY <1>3 DEF Expire, CreateAction
  <2>2. v.idem = NoKey /\ (s = "pending_approval" => v.state = "none")
    BY <2>1 DEF NewRow, Absent
  <2>3. /\ \A q \in Process \ {Orch} : Kept(q)
        /\ row'[Orch] = v /\ goal'[Orch] = s /\ pc'[Orch] = "select"
    BY <1>1, <2>1, BeginKeeps
  <2>4. Keys(Orch)'
    BY <1>1, <2>2, <2>3 DEF Keys, KeyOf
  <2>5. Fresh(Orch)'
    BY <1>1, <2>2, <2>3 DEF Fresh, Exists
  <2>. QED
    BY <1>1, <2>3, <2>4, <2>5, AnswerQuiet, OrchProcess
<1>. QED
  BY <1>2, <1>3

\* A request that gets no decision of its own on record.
LEMMA RequestAnswers ==
  ASSUME TypeInv, StoryInv, AnswerInv, NEW r \in Request, Receive(r) \/ Decide(r)
  PROVE  AnswerInv'
<1>. r \in Process /\ TypeOK /\ Keys(r) /\ Fresh(r) /\ Spoken(r)
  BY OrchProcess DEF TypeInv, AnswerInv
<1>1. /\ UNCHANGED <<actions, ledger, dirty, own, answer, crashes>>
      /\ pc[r] \in {"idle", "lookup"}
  BY DEF Receive, Decide, db, world, buffer, http
<1>2. \A q \in Request \ {r} : job'[q] = job[q]
  BY DEF Receive, Decide, http, TypeOK
<1>3. CASE Receive(r)
  <2>1. PICK a \in Action : /\ cur' = [cur EXCEPT ![r] = a]
                            /\ row' = [row EXCEPT ![r] = actions[a]]
    BY <1>3 DEF Receive, Job
  <2>2. pc' = [pc EXCEPT ![r] = "lookup"] /\ UNCHANGED goal
    BY <1>3 DEF Receive
  <2>3. /\ pc'[r] = "lookup" /\ cur'[r] = a /\ row'[r] = actions[a]
        /\ \A q \in Process \ {r} : Kept(q)
    BY <1>1, <2>1, <2>2 DEF TypeOK, Kept
  <2>4. KeyOf(r, actions[a], a)
    BY OrchProcess DEF KeyOf, AnswerInv, OnRecord
  <2>5. Keys(r)'
    BY <1>1, <2>3, <2>4 DEF Keys, KeyOf, Decided
  <2>6. Spoken(r)'
    BY <1>1, <2>3 DEF Spoken, Undecided
  <2>7. \A x \in Action : ~Written(r, x)
    BY <1>1 DEF StoryInv, Signing, Drafted, EntriesOf
  <2>8. Fresh(r)'
    BY <1>1, <2>3, <2>7 DEF Fresh, Written, InTransition, Exists
  <2>. QED
    BY <1>1, <1>2, <2>3, <2>5, <2>6, <2>8, AnswerQuiet
<1>4. CASE Decide(r)
  <2>1. PICK s \in {"queued", "rejected"} : Begin(r, cur[r], Signed(r), s)
    BY <1>4 DEF Decide
  <2>2. pc[r] = "lookup" /\ Signed(r).idem = row[r].idem
    BY <1>4 DEF Decide, Signed, TypeOK, Row
  <2>3. /\ \A q \in Process \ {r} : Kept(q)
        /\ pc'[r] = "select" /\ cur'[r] = cur[r] /\ row'[r] = Signed(r) /\ goal'[r] = s
    BY <1>1, <2>1, BeginKeeps
  <2>4. Keys(r)'
    BY <1>1, <2>2, <2>3 DEF Keys, KeyOf, Decided
  <2>5. Spoken(r)'
    BY <1>1, <2>2, <2>3 DEF Spoken, Undecided, InTransition
  <2>6. Fresh(r)'
    BY <1>1, <2>3 DEF Fresh, Written, Exists
  <2>. QED
    BY <1>1, <1>2, <2>3, <2>4, <2>5, <2>6, AnswerQuiet
<1>. QED
  BY <1>3, <1>4

LEMMA MoveAnswers ==
  ASSUME TypeInv, AnswerInv, NEW p \in Process, SelectLast(p) \/ Effect(p) \/ WriteEntity(p)
  PROVE  AnswerInv'
<1>. TypeOK /\ Keys(p) /\ Fresh(p)
  BY DEF TypeInv, AnswerInv
<1>1. /\ \A q \in Process \ {p} : Kept(q)
      /\ cur'[p] = cur[p] /\ UNCHANGED <<actions, ledger>>
  BY MovesKeep DEF Transact
<1>2. UNCHANGED <<own, dirty, answer, job, crashes>>
  BY DEF SelectLast, Effect, WriteEntity, world, buffer, http
<1>3. row'[p].idem = row[p].idem /\ (pc[p] = "select" => row'[p] = row[p])
  <2>1. CASE Effect(p)
    <3>1. PICK s : Begin(p, cur[p], [row[p] EXCEPT !.attempt = @ + 1], s)
      BY <2>1 DEF Effect
    <3>2. row'[p] = [row[p] EXCEPT !.attempt = @ + 1] /\ pc[p] = "effect"
      BY <1>2, <2>1, <3>1, BeginKeeps DEF Effect
    <3>. QED
      BY <3>2 DEF TypeOK, Row
  <2>2. CASE SelectLast(p) \/ WriteEntity(p)
    BY <2>2 DEF SelectLast, WriteEntity
  <2>. QED
    BY <2>1, <2>2
<1>4. \/ pc[p] = "select" /\ pc'[p] = "flush" /\ goal'[p] = goal[p]
      \/ pc[p] = "effect" /\ pc'[p] = "select" /\ goal'[p] \in {"executed", "failed"}
      \/ pc[p] = "write" /\ pc'[p] \in {"commit", "respond"}
  BY SelectFacts, EffectFacts, WriteFacts DEF End
<1>5. Keys(p)'
  BY <1>1, <1>2, <1>3 DEF Keys, KeyOf, Decided
<1>6. p \in Request => Spoken(p)'
  BY <1>1, <1>2, <1>4 DEF AnswerInv, Spoken, Undecided, InTransition
<1>7. Fresh(p)'
  <2>1. InTransition(p)' /\ goal'[p] = "pending_approval" => row'[p].state = "none"
    BY <1>3, <1>4 DEF Fresh, InTransition
  <2>. QED
    BY <1>1, <1>2, <2>1 DEF Fresh, Written, Exists
<1>. QED
  BY <1>1, <1>2, <1>4, <1>5, <1>6, <1>7, AnswerQuiet

LEMMA FlushAnswers ==
  ASSUME TypeInv, IncidentInv, AnswerInv, NEW p \in Process, Flush(p)
  PROVE  AnswerInv'
<1>0. PICK n, new : n = NewEntry(p) /\ new = [row[p] EXCEPT !.state = goal[p]]
  OBVIOUS
<1>. TypeOK /\ Keys(p) /\ Fresh(p) /\ CreatesFresh(p)
  BY DEF TypeInv, IncidentInv, AnswerInv
<1>1. /\ \A q \in Process \ {p} : Kept(q)
      /\ cur'[p] = cur[p] /\ UNCHANGED <<actions, ledger>>
  BY MovesKeep DEF Transact
<1>2. /\ pc[p] = "flush" /\ pc'[p] = After(p, goal[p])
      /\ goal'[p] = IF goal[p] = "queued" THEN "executing" ELSE goal[p]
      /\ own'[p] = own[p] \cup {n} /\ n.by = Actor(p)
  BY <1>0, FlushFacts, FlushRow
<1>3. /\ row' = [row EXCEPT ![p] = new]
      /\ dirty' = [dirty EXCEPT ![p][cur[p]] = new]
      /\ UNCHANGED <<answer, job, crashes>>
  BY <1>0 DEF Flush, http, world
<1>4. new.idem = row[p].idem /\ new.state = goal[p]
  BY <1>0 DEF TypeOK, Row
<1>5. row'[p] = new /\ \A a \in Action : dirty'[p][a] = IF a = cur[p] THEN new ELSE dirty[p][a]
  <2>1. /\ dirty[p] \in [Action -> Row] /\ cur[p] \in Action
        /\ dirty'[p] = [dirty[p] EXCEPT ![cur[p]] = new]
    BY <1>3 DEF TypeOK
  <2>. QED
    BY <1>3, <2>1 DEF TypeOK
<1>6. Keys(p)'
  <2>1. KeyOf(p, new, cur[p])
    BY <1>4 DEF Keys, KeyOf
  <2>. QED
    BY <1>1, <1>5, <2>1 DEF Keys, KeyOf, Decided
<1>7. ASSUME p \in Request PROVE Spoken(p)'
  <2>1. Spoken(p) /\ p # Orch /\ job[p].user \in User /\ Orch \notin User
    BY <1>2, <1>7, ConstantsAssumption, OrchProcess DEF AnswerInv, TypeInv, SenderApproved
  <2>2. ~Undecided(p)'
    BY <1>2, <1>7 DEF Undecided, InTransition, After, Stop, End
  <2>3. CASE goal[p] \in {"queued", "rejected"}
    <3>1. own'[p] = {n} /\ n.by \in User
      BY <1>2, <1>7, <2>1, <2>3 DEF Spoken, Undecided, InTransition, Actor
    <3>. QED
      BY <2>2, <3>1 DEF Spoken, Human
  <2>4. CASE goal[p] \notin {"queued", "rejected"}
    <3>1. PICK m \in own[p] : Human(own[p]) = {m}
      BY <1>2, <2>1, <2>4 DEF Spoken, Undecided, InTransition
    <3>2. n.by \notin User
      BY <1>2, <2>1, <2>4 DEF Actor
    <3>3. Human(own'[p]) = {m}
      BY <1>2, <3>1, <3>2 DEF Human
    <3>. QED
      BY <1>2, <2>2, <3>1, <3>3 DEF Spoken
  <2>. QED
    BY <2>3, <2>4
<1>8. Fresh(p)'
  <2>1. goal[p] = "pending_approval" => p = Orch /\ ~Exists(cur[p])
    BY <1>2 DEF Fresh, CreatesFresh, InTransition
  <2>2. ~(InTransition(p)' /\ goal'[p] = "pending_approval")
    BY <1>2 DEF InTransition, After, Stop, End
  <2>3. \A a \in Action : dirty'[p][a].state = "pending_approval" => p = Orch /\ ~Exists(a)
    BY <1>4, <1>5, <2>1 DEF Fresh
  <2>4. p # Orch => \A a \in Action : Written(p, a)' => a = cur[p]
    BY <1>5 DEF Fresh, Written
  <2>. QED
    BY <1>1, <2>2, <2>3, <2>4 DEF Fresh, Exists
<1>9. pc'[p] \notin {"done", "refresh"}
  BY <1>2 DEF After, Stop, End
<1>. QED
  BY <1>1, <1>2, <1>3, <1>6, <1>7, <1>8, <1>9, AnswerQuiet

----------------------------------------------------------------------------
(* An answer, and the end of a transaction *)

LEMMA ClosedAnswers ==
  ASSUME TypeInv, AnswerInv, NEW p \in Process, Ended(p), ledger \subseteq ledger',
         \A r \in Request \ {p} : answer'[r] = answer[r] /\ job'[r] = job[r],
         p # Orch => \A a \in Action : Exists(a)' => Exists(a),
         \A a \in Action : actions[a].idem # NoKey => actions'[a].idem # NoKey,
         p \in Request /\ pc'[p] # "done" => answer'[p].code = 0 /\ Retriable(p)',
         OnRecord', Counted'
  PROVE  AnswerInv'
<1>1. /\ \A q \in Process \ {p} : Kept(q)
      /\ pc'[p] \in {"idle", "done", "refresh"}
      /\ row'[p] = Absent /\ own'[p] = {}
      /\ \A a \in Action : dirty'[p][a] = Absent /\ ~Written(p, a)'
  BY EndedKeeps DEF TypeInv
<1>2. Absent.idem = NoKey /\ Absent.state = "none"
  BY DEF Absent, NewRow
<1>3. Keys(p)'
  BY <1>1, <1>2 DEF Keys, KeyOf
<1>4. Fresh(p)'
  BY <1>1, <1>2 DEF Fresh, InTransition
<1>5. p \in Request => Spoken(p)' /\ Retriable(p)'
  <2>1. ASSUME p \in Request, pc'[p] # "idle" PROVE Spoken(p)'
    BY <1>1, <2>1 DEF Spoken, Undecided
  <2>2. p \in Request => Spoken(p)'
    BY <1>1, <2>1 DEF Spoken, Undecided
  <2>. QED
    BY <2>2 DEF Retriable
<1>6. \A r \in Request : pc'[r] # "done" => answer'[r].code = 0
  BY <1>1, OrchProcess DEF AnswerInv, Kept
<1>7. \A q \in Process : cur[q] \in Action
  BY DEF TypeInv, TypeOK
<1>. QED
  BY <1>1, <1>3, <1>4, <1>5, <1>6, <1>7, AnswerStep

\* An answer that does not claim to have decided counts for nothing.
LEMMA UngrantedAnswer ==
  ASSUME AnswerInv, NEW r \in Request, pc[r] # "done",
         answer'[r].code # 200 \/ answer'[r].replayed,
         \A q \in Request \ {r} : answer'[q] = answer[q]
  PROVE  Granted' = Granted
BY DEF AnswerInv, Granted

LEMMA TurnAwayAnswers ==
  ASSUME TypeInv, AnswerInv, NEW r \in Request, TurnAway(r)
  PROVE  AnswerInv'
<1>. r \in Process /\ TypeOK /\ Keys(r) /\ Fresh(r) /\ Spoken(r)
  BY OrchProcess DEF TypeInv, AnswerInv
<1>1. /\ pc[r] = "idle" /\ pc' = [pc EXCEPT ![r] = "done"]
      /\ UNCHANGED <<actions, ledger, dirty, own, cur, row, goal, job, crashes>>
  BY DEF TurnAway, db, world, buffer
<1>2. /\ answer'[r].code # 200
      /\ \A q \in Request \ {r} : answer'[q] = answer[q]
  BY DEF TurnAway, Answer, TypeOK
<1>3. Granted' = Granted
  BY <1>1, <1>2, UngrantedAnswer
<1>4. pc'[r] = "done" /\ \A q \in Process \ {r} : Kept(q)
  BY <1>1 DEF TypeOK, Kept
<1>5. Keys(r)'
  BY <1>1 DEF Keys, KeyOf, Decided
<1>6. Fresh(r)'
  BY <1>1, <1>4 DEF Fresh, InTransition, Written, Exists
<1>7. Spoken(r)' /\ Retriable(r)'
  BY <1>1, <1>4 DEF Spoken, Undecided, Retriable
<1>8. \A q \in Request : pc'[q] # "done" => answer'[q].code = 0
  BY <1>2, <1>4, OrchProcess DEF AnswerInv, Kept
<1>9. Untold' = Untold
  BY <1>1, <1>4, OrchProcess DEF Untold, Kept
<1>10. OnRecord' /\ Counted'
  BY <1>1, <1>3, <1>9 DEF AnswerInv, OnRecord, Decided, Counted
<1>11. (\A q \in Process : cur[q] \in Action) /\ \A a \in Action : Exists(a)' => Exists(a)
  BY <1>1 DEF TypeOK, Exists
<1>. QED
  BY <1>1, <1>4, <1>5, <1>6, <1>7, <1>8, <1>10, <1>11, AnswerStep

\* Who waits for an answer after a transaction of p ended.
LEMMA UntoldStep ==
  ASSUME TypeOK, NEW p \in Process, Ended(p)
  PROVE  Untold' = IF p \in Request /\ pc'[p] = "refresh" THEN Untold \cup {p}
                                                          ELSE Untold \ {p}
<1>1. \A q \in Process \ {p} : Kept(q)
  BY EndedKeeps
<1>. QED
  BY <1>1, OrchProcess DEF Untold, Kept

\* Nothing is committed: the answers, those lost and the decisions still tally.
LEMMA TallyKept ==
  ASSUME TypeInv, AnswerInv, NEW p \in Process, Ended(p), pc'[p] # "refresh",
         UNCHANGED ledger, crashes' \in Nat,
         \/ Granted' = Granted /\ pc[p] # "refresh" /\ crashes' = crashes
         \/ Granted' = Granted /\ crashes' = crashes + 1
         \/ /\ Granted' = Granted \cup {p} /\ p \notin Granted
            /\ p \in Request /\ pc[p] = "refresh" /\ crashes' = crashes
  PROVE  Counted'
<1>1. Untold' = Untold \ {p} /\ (p \in Untold => pc[p] = "refresh")
  BY UntoldStep DEF TypeInv, Untold
<1>. DEFINE H == Cardinality(Human(ledger))
            G == Cardinality(Granted)
            U == Cardinality(Untold)
<1>2. /\ IsFiniteSet(Human(ledger)) /\ IsFiniteSet(Granted) /\ IsFiniteSet(Untold)
      /\ G + U <= H /\ H <= G + U + crashes /\ crashes \in Nat
  BY DEF AnswerInv, Counted, TypeInv, TypeOK
<1>3. /\ IsFiniteSet(Untold')
      /\ Cardinality(Untold') = IF p \in Untold THEN U - 1 ELSE U
  BY <1>1, <1>2, FS_RemoveElement
<1>4. H \in Nat /\ G \in Nat /\ U \in Nat
  BY <1>2, FS_CardinalityType
<1>5. /\ IsFiniteSet(Granted')
      /\ Cardinality(Granted') = IF Granted' = Granted THEN G ELSE G + 1
  <2>1. CASE Granted' = Granted
    BY <1>2, <2>1
  <2>2. CASE Granted' # Granted
    <3>1. Granted' = Granted \cup {p} /\ p \notin Granted
      BY <2>2
    <3>. QED
      BY <1>2, <2>2, <3>1, FS_AddElement
  <2>. QED
    BY <2>1, <2>2
<1>6. Human(ledger)' = Human(ledger)
  BY DEF Human
<1>7. Granted' # Granted => p \in Untold
  BY DEF Untold
<1>8. /\ Cardinality(Granted') + Cardinality(Untold') <= H
      /\ H <= Cardinality(Granted') + Cardinality(Untold') + crashes'
  <2>. HIDE DEF H, G, U
  <2>1. CASE Granted' = Granted /\ pc[p] # "refresh" /\ crashes' = crashes
    BY <1>1, <1>2, <1>3, <1>4, <1>5, <2>1
  <2>2. CASE Granted' = Granted /\ crashes' = crashes + 1
    BY <1>2, <1>3, <1>4, <1>5, <2>2
  <2>3. CASE Granted' = Granted \cup {p} /\ p \notin Granted /\ p \in Untold /\ crashes' = crashes
    <3>1. Granted' # Granted
      BY <2>3
    <3>. QED
      BY <1>2, <1>3, <1>4, <1>5, <2>3, <3>1
  <2>. QED
    BY <1>7, <2>1, <2>2, <2>3
<1>. QED
  BY <1>2, <1>3, <1>5, <1>6, <1>8 DEF Counted

\* Rolled back, or answered.
LEMMA FinishAnswers ==
  ASSUME TypeInv, AnswerInv, NEW p \in Process,
         \/ Crash(p)
         \/ p \in Request /\ (Replay(p) \/ Conflict(p) \/ Refresh(p) \/ DuplicateKey(p))
  PROVE  AnswerInv'
<1>. TypeOK
  BY DEF TypeInv
<1>1. Close(p) /\ UNCHANGED <<actions, ledger>> /\ Ended(p) /\ pc[p] # "done"
  BY CloseEnds DEF Replay, Conflict, Refresh, DuplicateKey, Crash, Finish, db
<1>2. pc'[p] = (IF p = Orch THEN "idle" ELSE "done") /\ pc'[p] # "refresh"
  BY <1>1, CloseKeeps
<1>3. /\ \A r \in Request \ {p} : answer'[r] = answer[r] /\ job'[r] = job[r]
      /\ \/ Granted' = Granted /\ pc[p] # "refresh" /\ crashes' = crashes
         \/ Granted' = Granted /\ crashes' = crashes + 1
         \/ /\ Granted' = Granted \cup {p} /\ p \notin Granted
            /\ p \in Request /\ pc[p] = "refresh" /\ crashes' = crashes
  <2>1. CASE Crash(p)
    BY <2>1 DEF Crash, Granted, TypeOK
  <2>2. CASE p \in Request /\ (Replay(p) \/ Conflict(p) \/ DuplicateKey(p))
    <3>1. /\ answer'[p].code # 200 \/ answer'[p].replayed
          /\ \A r \in Request \ {p} : answer'[r] = answer[r]
      <4>1. CASE Replay(p)
        BY <2>2, <4>1 DEF Replay, Answer, TypeOK
      <4>2. CASE Conflict(p)
        BY <2>2, <4>2 DEF Conflict, Answer, TypeOK
      <4>3. CASE DuplicateKey(p)
        BY <2>2, <4>3 DEF DuplicateKey, Answer, TypeOK
      <4>. QED
        BY <2>2, <4>1, <4>2, <4>3
    <3>2. /\ pc[p] # "refresh" /\ crashes' = crashes
          /\ job' = [job EXCEPT ![p] = NoJob]
      BY <2>2 DEF Replay, Conflict, DuplicateKey, Finish, world
    <3>3. \A r \in Request \ {p} : job'[r] = job[r]
      BY <3>2 DEF TypeOK
    <3>. QED
      BY <1>1, <2>2, <3>1, <3>2, <3>3, UngrantedAnswer
  <2>3. CASE p \in Request /\ Refresh(p)
    <3>1. /\ answer'[p].code = 200 /\ ~answer'[p].replayed
          /\ \A r \in Request \ {p} : answer'[r] = answer[r] /\ job'[r] = job[r]
      BY <2>3 DEF Refresh, Answer, Finish, TypeOK
    <3>2. answer[p].code = 0
      BY <1>1, <2>3 DEF AnswerInv
    <3>3. Granted' = Granted \cup {p} /\ p \notin Granted
      BY <2>3, <3>1, <3>2 DEF Granted
    <3>. QED
      BY <2>3, <3>1, <3>3 DEF Refresh, world
  <2>. QED
    BY <2>1, <2>2, <2>3
<1>4. Counted'
  <2>1. crashes \in Nat
    BY DEF TypeOK
  <2>. QED
    BY <1>1, <1>2, <1>3, <2>1, TallyKept
<1>5. OnRecord'
  BY <1>1 DEF AnswerInv, OnRecord, Decided
<1>6. p \in Request => pc'[p] = "done"
  BY <1>2, OrchProcess
<1>7. \A a \in Action : Exists(a)' => Exists(a)
  BY <1>1 DEF Exists
<1>. QED
  BY <1>1, <1>3, <1>4, <1>5, <1>6, <1>7, ClosedAnswers

\* The key a committed row then has is its own or that of the transaction's row, and
\* no key goes.
LEMMA CommitKey ==
  ASSUME NEW p \in Process, NEW rows, Commit(p, rows), NEW a \in Action
  PROVE  /\ actions'[a].idem \in {actions[a].idem, rows[a].idem}
         /\ actions[a].idem # NoKey => actions'[a].idem # NoKey
         /\ rows[a].state # "none" /\ rows[a].idem # NoKey => actions'[a].idem # NoKey
         /\ rows[a].state # "none" => actions'[a].state = rows[a].state
<1>1. actions'[a] = Overwrite(actions[a], rows[a])
  BY DEF Commit
<1>. QED
  BY <1>1 DEF Overwrite

\* A row that was decided is there.
LEMMA DecidedExists ==
  ASSUME IncidentInv, StoryInv, NEW a \in Action, Decided(a) PROVE Exists(a)
<1>1. PICK e \in ledger : e.by \in User /\ e.by = actions[a].decidedBy
  BY DEF StoryInv, Told, Signs, Decided, DecisionsIn, Top
<1>2. Absent.decidedBy = Nobody /\ Nobody \notin User
  BY ConstantsAssumption DEF Absent, NewRow
<1>. QED
  BY <1>1, <1>2 DEF IncidentInv, RowsInv

LEMMA CommitTickAnswers ==
  ASSUME TypeInv, IncidentInv, StoryInv, AnswerInv, CommitTick
  PROVE  AnswerInv'
<1>. Orch \in Process /\ TypeOK /\ Unsigning /\ Keys(Orch) /\ Fresh(Orch)
  BY OrchProcess DEF TypeInv, StoryInv, AnswerInv
<1>1. /\ Commit(Orch, dirty[Orch]) /\ Close(Orch) /\ UNCHANGED <<answer, job, crashes>>
      /\ ledger' = ledger \cup own[Orch] /\ pc[Orch] = "respond"
  BY DEF CommitTick, http, Commit, world
<1>2. Ended(Orch) /\ pc'[Orch] # "refresh"
  BY <1>1, CloseEnds, CloseKeeps
<1>3. Human(ledger') = Human(ledger) /\ \A a \in Action : Decided(a)' <=> Decided(a)
  BY <1>1, ConstantsAssumption DEF Human, Unsigning, Decided, DecisionsIn
<1>4. ASSUME NEW a \in Action, actions'[a].idem # NoKey PROVE Decided(a)'
  <2>1. dirty[Orch][a].idem = NoKey
    BY DEF Keys, KeyOf
  <2>2. actions[a].idem # NoKey
    BY <1>1, <1>4, <2>1, CommitKey
  <2>. QED
    BY <1>3, <2>2 DEF AnswerInv, OnRecord
<1>5. ASSUME NEW a \in Action, Decided(a)' PROVE actions'[a].state # "pending_approval"
  <2>1. actions[a].state # "pending_approval" /\ Exists(a)
    BY <1>3, <1>5, DecidedExists DEF AnswerInv, OnRecord
  <2>2. dirty[Orch][a].state # "pending_approval"
    BY <2>1 DEF Fresh
  <2>3. CASE Written(Orch, a)
    BY <1>1, <2>2, <2>3, CommitKey DEF Written
  <2>4. CASE ~Written(Orch, a)
    <3>1. actions'[a] = Overwrite(actions[a], dirty[Orch][a])
      BY <1>1 DEF Commit
    <3>. QED
      BY <2>1, <2>4, <3>1 DEF Overwrite, Written
  <2>. QED
    BY <2>3, <2>4
<1>6. OnRecord'
  BY <1>4, <1>5 DEF OnRecord
<1>7. Untold' = Untold /\ Granted' = Granted
  BY <1>1, <1>2, UntoldStep, OrchProcess DEF Untold, Granted
<1>8. Counted'
  BY <1>1, <1>3, <1>7 DEF AnswerInv, Counted
<1>9. \A a \in Action : actions[a].idem # NoKey => actions'[a].idem # NoKey
  BY <1>1, CommitKey
<1>. QED
  BY <1>1, <1>2, <1>6, <1>8, <1>9, ClosedAnswers, OrchProcess

LEMMA CommitDecisionAnswers ==
  ASSUME TypeInv, IncidentInv, StoryInv, AnswerInv, NEW r \in Request, CommitDecision(r)
  PROVE  AnswerInv'
<1>. /\ r \in Process /\ TypeOK /\ Signing(r) /\ Drafted(r) /\ Decides(r)
     /\ Spoken(r) /\ Keys(r) /\ Fresh(r) /\ cur[r] \in Action /\ r # Orch
  BY OrchProcess DEF TypeInv, IncidentInv, StoryInv, AnswerInv, TypeOK
<1>. DEFINE k == IF row[r].idem = NoKey THEN job[r].key ELSE NoKey
            rows == [dirty[r] EXCEPT ![cur[r]].idem = k]
<1>1. /\ pc[r] = "commit" /\ Commit(r, rows) /\ Leave(r, "refresh", cur[r])
      /\ UNCHANGED <<answer, job, crashes>>
  BY DEF CommitDecision, http, world
<1>2. Ended(r) /\ pc'[r] = "refresh" /\ cur'[r] = cur[r]
  BY <1>1, LeaveKeeps DEF Ended
<1>3. /\ rows \in [Action -> Row]
      /\ \A a \in Action : rows[a].state = dirty[r][a].state
      /\ rows[cur[r]].idem = k
  <2>1. dirty[r] \in [Action -> Row] /\ k \in Key \cup {NoKey}
    BY DEF TypeOK
  <2>. QED
    BY <2>1, RowKeyType DEF Row
<1>. HIDE DEF rows
<1>4. /\ \A a \in Action : ~Written(r, a) => actions'[a] = actions[a]
      /\ \A a \in Action : Exists(a)' <=> Exists(a) \/ Written(r, a)
      /\ ledger' = ledger \cup own[r]
  BY <1>1, <1>3, CommitRows
<1>5. PICK n \in own[r] : Human(own[r]) = {n}
  BY <1>1 DEF Spoken, Undecided, InTransition
<1>6. Written(r, cur[r]) /\ n.action = cur[r]
  <2>1. n.action \in Action
    BY <1>5 DEF TypeOK, Entry
  <2>2. Written(r, n.action)
    BY <1>5, <2>1 DEF Drafted, EntriesOf
  <2>. QED
    BY <2>1, <2>2 DEF Fresh
<1>7. ASSUME NEW a \in Action
      PROVE  /\ actions'[a].idem # NoKey => Decided(a)'
             /\ Decided(a)' => actions'[a].state # "pending_approval"
  <2>1. CASE Written(r, a)
    <3>1. PICK e \in own[r] : Top(DecisionsIn(own[r], a), e)
      BY <2>1 DEF Signing
    <3>2. Decided(a)'
      BY <1>4, <3>1 DEF Decided, DecisionsIn, Top
    <3>3. actions'[a].state = dirty[r][a].state
      BY <1>1, <1>3, <2>1, CommitKey DEF Written
    <3>. QED
      BY <3>2, <3>3 DEF Fresh
  <2>2. CASE ~Written(r, a)
    <3>1. actions'[a] = actions[a]
      BY <1>4, <2>2
    <3>2. Decided(a)' <=> Decided(a)
      BY <1>4, <2>2 DEF Decided, DecisionsIn, Drafted, EntriesOf
    <3>. QED
      BY <3>1, <3>2 DEF AnswerInv, OnRecord
  <2>. QED
    BY <2>1, <2>2
<1>8. OnRecord'
  BY <1>7 DEF OnRecord
<1>9. \A a \in Action : actions[a].idem # NoKey => actions'[a].idem # NoKey
  BY <1>1, CommitKey
<1>10. Retriable(r)'
  <2>1. CASE row[r].idem # NoKey
    BY <1>2, <1>9, <2>1 DEF Keys, KeyOf, Retriable
  <2>2. CASE row[r].idem = NoKey /\ job[r].key # NoKey
    <3>1. rows[cur[r]].idem # NoKey /\ rows[cur[r]].state # "none"
      BY <1>3, <1>6, <2>2 DEF Written
    <3>. QED
      BY <1>1, <1>2, <3>1, CommitKey DEF Retriable
  <2>3. CASE job[r].key = NoKey
    BY <1>1, <2>3 DEF Retriable
  <2>. QED
    BY <2>1, <2>2, <2>3
<1>11. Human(ledger') = Human(ledger) \cup {n} /\ n \notin Human(ledger)
  <2>1. n.seq \in Nat
    BY <1>5 DEF TypeOK, Entry
  <2>. QED
    BY <1>4, <1>5, <2>1 DEF Drafted, Human
<1>12. Untold' = Untold \cup {r} /\ r \notin Untold /\ Granted' = Granted
  BY <1>1, <1>2, UntoldStep DEF Untold, Granted
<1>13. Counted'
  <2>1. /\ IsFiniteSet(Human(ledger)) /\ IsFiniteSet(Granted) /\ IsFiniteSet(Untold)
        /\ Cardinality(Granted) + Cardinality(Untold) <= Cardinality(Human(ledger))
        /\ Cardinality(Human(ledger)) <= Cardinality(Granted) + Cardinality(Untold) + crashes
    BY DEF AnswerInv, Counted
  <2>2. /\ IsFiniteSet(Human(ledger'))
        /\ Cardinality(Human(ledger')) = Cardinality(Human(ledger)) + 1
    BY <1>11, <2>1, FS_AddElement
  <2>3. IsFiniteSet(Untold') /\ Cardinality(Untold') = Cardinality(Untold) + 1
    BY <1>12, <2>1, FS_AddElement
  <2>4. Human(ledger)' = Human(ledger')
    BY DEF Human
  <2>5. /\ Cardinality(Human(ledger)) \in Nat /\ Cardinality(Granted) \in Nat
        /\ Cardinality(Untold) \in Nat /\ crashes \in Nat
    BY <2>1, FS_CardinalityType DEF TypeOK
  <2>. QED
    BY <1>1, <1>12, <2>1, <2>2, <2>3, <2>4, <2>5 DEF Counted
<1>14. \A a \in Action : Exists(a)' => Exists(a)
  BY <1>4 DEF Decides
<1>15. answer[r].code = 0
  BY <1>1 DEF AnswerInv
<1>. QED
  BY <1>1, <1>2, <1>4, <1>8, <1>9, <1>10, <1>13, <1>14, <1>15, ClosedAnswers

----------------------------------------------------------------------------
(* All steps *)

LEMMA InitAnswers == Init => AnswerInv
<1>. SUFFICES ASSUME Init PROVE AnswerInv
  OBVIOUS
<1>1. \A a \in Action : NoRows[a].idem = NoKey /\ NoRows[a].state = "none"
  BY DEF NoRows, Absent, NewRow
<1>2. /\ \A a \in Action : actions[a].idem = NoKey
      /\ \A p \in Process : /\ pc[p] = "idle" /\ own[p] = {} /\ row[p].idem = NoKey
                            /\ \A a \in Action : /\ dirty[p][a].idem = NoKey
                                                 /\ dirty[p][a].state = "none"
      /\ \A r \in Request : answer[r].code = 0
      /\ ledger = {} /\ crashes = 0
  BY <1>1 DEF Init, NoAnswer, Absent, NewRow
<1>3. \A p \in Process : Keys(p) /\ Fresh(p)
  BY <1>2 DEF Keys, KeyOf, Fresh, Written, InTransition
<1>4. \A r \in Request : Spoken(r) /\ Retriable(r)
  BY <1>2, OrchProcess DEF Spoken, Undecided, Retriable
<1>5. Human(ledger) = {} /\ Granted = {} /\ Untold = {}
  BY <1>2, OrchProcess DEF Human, Granted, Untold
<1>6. Counted
  BY <1>2, <1>5, FS_EmptySet DEF Counted
<1>7. OnRecord
  BY <1>2 DEF OnRecord, Decided, DecisionsIn
<1>. QED
  BY <1>2, <1>3, <1>4, <1>6, <1>7 DEF AnswerInv

LEMMA StutterAnswers ==
  ASSUME AnswerInv, OpenIncident \/ TimeOut \/ UNCHANGED vars
  PROVE  AnswerInv'
<1>1. UNCHANGED <<actions, ledger, pc, cur, row, goal, dirty, own, answer, job, crashes>>
  BY DEF OpenIncident, TimeOut, db, world, buffer, http, vars
<1>. QED
  BY <1>1 DEF AnswerInv, Keys, KeyOf, Fresh, Written, Exists, Decided, OnRecord, Retriable,
              Spoken, Undecided, InTransition, Counted, Granted, Untold

LEMMA NextAnswers ==
  TypeInv /\ IncidentInv /\ StoryInv /\ AnswerInv /\ [Next]_vars => AnswerInv'
<1>. SUFFICES ASSUME TypeInv, IncidentInv, StoryInv, AnswerInv, [Next]_vars PROVE AnswerInv'
  OBVIOUS
<1>1. ASSUME NEW p \in Process, Transact(p) PROVE AnswerInv'
  BY <1>1, MoveAnswers, FlushAnswers DEF Transact
<1>2. CASE Tick
  BY <1>1, <1>2, OrchProcess, TickAnswers, CommitTickAnswers DEF Tick
<1>3. ASSUME NEW r \in Request, Receive(r) \/ TurnAway(r) \/ Handle(r) PROVE AnswerInv'
  BY <1>1, <1>3, OrchProcess, RequestAnswers, TurnAwayAnswers, FinishAnswers,
     CommitDecisionAnswers DEF Handle
<1>4. ASSUME NEW p \in Process, Crash(p) PROVE AnswerInv'
  BY <1>4, FinishAnswers
<1>5. CASE OpenIncident \/ TimeOut \/ UNCHANGED vars
  BY <1>5, StutterAnswers
<1>. QED
  BY <1>2, <1>3, <1>4, <1>5 DEF Next

LEMMA AnswersSuffice == AnswerInv => AnswersOnRecord
<1>. SUFFICES ASSUME AnswerInv PROVE AnswersOnRecord
  OBVIOUS
<1>1. \A a \in Action : Decisions(a) = DecisionsIn(ledger, a)
  BY DEF Decisions, Records, DecisionsIn
<1>. QED
  BY <1>1 DEF AnswersOnRecord, AnswerInv, Counted, OnRecord, Retriable, Human, Granted, Untold,
              Decided

\* What callers were told is in the ledger, and the decisions beyond that have their
\* answer on the way or were cut off by a crash after their commit; those a caller may
\* retry are settled, and have a key if one was sent: for any overlap, retry and crash.
\* (api/actions.py, _decide: one commit, then the refresh, then the answer.)
THEOREM AnswersOnRecordHolds == Spec => []AnswersOnRecord
<1>1. /\ TypeInv /\ IncidentInv /\ StoryInv /\ [Next]_vars => TypeInv' /\ IncidentInv' /\ StoryInv'
      /\ TypeInv /\ IncidentInv /\ StoryInv /\ AnswerInv /\ [Next]_vars => AnswerInv'
  BY TypeNext, NextInc, NextStory, NextAnswers
<1>. QED
  BY <1>1, TypeInit, InitInc, InitStory, InitAnswers, AnswersSuffice, PTL DEF Spec

----------------------------------------------------------------------------
(* Entities and ledger agree on containment *)

ExecutedIn(E, e) == {x \in E : x.to = "executed" /\ EntityOf(x.action) = e}
EffectIn(E, e, s) == \E x \in ExecutedIn(E, e) : EffectOf[Def(x.action).type] = s

\* Entries are about incidents that are there.
Known == \A p \in Process : \A x \in ledger \cup own[p] : x.action[1] \in 1 .. Len(incidents)

\* The committed entities.
Recorded ==
  \A e \in Entity :
    IF ExecutedIn(ledger, e) = {} THEN entities[e] = "active"
    ELSE entities[e] # "active" /\ EffectIn(ledger, e, entities[e])

\* p knows entity e as contained.
Contained(p, e) == touched[p][e] \in Status \/ entities[e] # "active"

\* The effector of p's action has returned, and its entity is not written yet.
Returned(p) == pc[p] = "write" \/ (InTransition(p) /\ goal[p] = "executed")

\* A status a transaction wrote has its entry there; each entry of an execution
\* has its effect, or is about to; one that need not write has it already.
Touches(p) ==
  /\ pc[p] = "write" => \E x \in own[p] : x.action = cur[p] /\ x.to = "executed"
  /\ \A e \in Entity :
       /\ touched[p][e] \in Status =>
            touched[p][e] # "active" /\ EffectIn(own[p], e, touched[p][e])
       /\ ExecutedIn(own[p], e) # {} =>
            Contained(p, e) \/ (pc[p] = "write" /\ EntityOf(cur[p]) = e)
       /\ same[p] /\ Returned(p) /\ EntityOf(cur[p]) = e => Contained(p, e)

EffectInv == Known /\ Recorded /\ \A p \in Process : Touches(p)

----------------------------------------------------------------------------
(* What a step leaves alone *)

\* Nothing of what process p holds changes, its entities included.
Untouched(p) == Kept(p) /\ touched'[p] = touched[p] /\ same'[p] = same[p]

LEMMA EffectKinds == \A s \in DOMAIN EffectOf : EffectOf[s] \in Status /\ EffectOf[s] # "active"
BY DEF EffectOf, Status

\* A process left alone keeps its part: no entity becomes active again.
LEMMA OthersTouch ==
  ASSUME NEW p \in Process, Touches(p), Untouched(p), UNCHANGED incidents,
         \A e \in Entity : entities[e] # "active" => entities'[e] # "active"
  PROVE  Touches(p)'
<1>1. pc[p] = "write" => \E x \in own[p] : x.action = cur[p] /\ x.to = "executed"
  BY DEF Touches
<1>2. ASSUME NEW e \in Entity
      PROVE  /\ touched'[p][e] \in Status =>
                  touched'[p][e] # "active" /\ EffectIn(own[p], e, touched[p][e])'
             /\ ExecutedIn(own[p], e)' # {} =>
                  Contained(p, e)' \/ (pc'[p] = "write" /\ EntityOf(cur[p])' = e)
             /\ same'[p] /\ Returned(p)' /\ EntityOf(cur[p])' = e => Contained(p, e)'
  <2>1. /\ ExecutedIn(own[p], e)' = ExecutedIn(own[p], e)
        /\ EffectIn(own[p], e, touched[p][e])' <=> EffectIn(own[p], e, touched[p][e])
        /\ EntityOf(cur[p])' = EntityOf(cur[p])
        /\ Returned(p)' <=> Returned(p)
        /\ Contained(p, e) => Contained(p, e)'
    BY <1>2 DEF Untouched, Kept, ExecutedIn, EffectIn, EntityOf, Returned, InTransition, Contained
  <2>. QED
    BY <1>2, <2>1 DEF Touches, Untouched, Kept
<1>. QED
  BY <1>1, <1>2 DEF Touches, Untouched, Kept

\* A step of p that commits nothing.
LEMMA InsideStep ==
  ASSUME EffectInv, NEW p \in Process, \A q \in Process \ {p} : Untouched(q),
         UNCHANGED <<entities, ledger, incidents>>, Known', Touches(p)'
  PROVE  EffectInv'
<1>1. Recorded'
  BY DEF EffectInv, Recorded, ExecutedIn, EffectIn, EntityOf
<1>. QED
  BY <1>1, OthersTouch DEF EffectInv

\* A step of p that writes nothing, away from effectors.
LEMMA QuietTouch ==
  ASSUME EffectInv, NEW p \in Process, \A q \in Process \ {p} : Untouched(q),
         UNCHANGED <<entities, ledger, incidents, own, touched, same>>,
         pc[p] # "write", pc'[p] # "write",
         Returned(p)' => Returned(p) /\ cur'[p] = cur[p]
  PROVE  EffectInv'
<1>1. Known'
  BY DEF EffectInv, Known
<1>2. Touches(p)'
  <2>1. ASSUME NEW e \in Entity
        PROVE  /\ ExecutedIn(own[p], e)' = ExecutedIn(own[p], e)
               /\ EffectIn(own[p], e, touched[p][e])' <=> EffectIn(own[p], e, touched[p][e])
               /\ Contained(p, e)' <=> Contained(p, e)
               /\ cur'[p] = cur[p] => EntityOf(cur[p])' = EntityOf(cur[p])
    BY DEF ExecutedIn, EffectIn, EntityOf, Contained
  <2>. QED
    BY <2>1 DEF EffectInv, Touches
<1>. QED
  BY <1>1, <1>2, InsideStep

LEMMA TickQuiet ==
  ASSUME TypeInv, EffectInv, StartTick \/ Expire \/ FetchIncidents \/ CreateAction
  PROVE  EffectInv'
<1>. Orch \in Process /\ TypeOK
  BY OrchProcess DEF TypeInv
<1>1. /\ UNCHANGED <<entities, ledger, incidents, own, dirty, touched, same>>
      /\ pc[Orch] # "write"
  BY DEF StartTick, Expire, FetchIncidents, CreateAction, db, world, buffer
<1>2. CASE StartTick \/ FetchIncidents
  <2>1. /\ UNCHANGED <<cur, row, goal>>
        /\ \E l \in {"expire", "respond"} : pc' = [pc EXCEPT ![Orch] = l]
    BY <1>2 DEF StartTick, FetchIncidents
  <2>2. pc'[Orch] \in {"expire", "respond"} /\ \A q \in Process \ {Orch} : Untouched(q)
    BY <1>1, <2>1 DEF TypeOK, Kept, Untouched
  <2>. QED
    BY <1>1, <2>2, QuietTouch DEF Returned, InTransition
<1>3. CASE Expire \/ CreateAction
  <2>1. PICK a, r, s : Begin(Orch, a, r, s) /\ s # "executed"
    BY <1>3 DEF Expire, CreateAction
  <2>2. /\ \A q \in Process \ {Orch} : Kept(q)
        /\ pc'[Orch] = "select" /\ goal'[Orch] # "executed"
    BY <1>1, <2>1, BeginKeeps
  <2>. QED
    BY <1>1, <2>2, QuietTouch DEF Returned, InTransition, Untouched
<1>. QED
  BY <1>2, <1>3

LEMMA RequestQuiet ==
  ASSUME TypeInv, EffectInv, NEW r \in Request, Receive(r) \/ TurnAway(r) \/ Decide(r)
  PROVE  EffectInv'
<1>. r \in Process /\ TypeOK
  BY OrchProcess DEF TypeInv
<1>1. /\ UNCHANGED <<entities, ledger, incidents, own, dirty, touched, same>>
      /\ pc[r] # "write"
  BY DEF Receive, TurnAway, Decide, db, world, buffer
<1>2. CASE Receive(r)
  <2>1. PICK a, v : cur' = [cur EXCEPT ![r] = a] /\ row' = [row EXCEPT ![r] = v]
    BY <1>2 DEF Receive
  <2>2. pc' = [pc EXCEPT ![r] = "lookup"] /\ UNCHANGED goal
    BY <1>2 DEF Receive
  <2>3. pc'[r] = "lookup" /\ \A q \in Process \ {r} : Untouched(q)
    BY <1>1, <2>1, <2>2 DEF TypeOK, Kept, Untouched
  <2>. QED
    BY <1>1, <2>3, QuietTouch DEF Returned, InTransition
<1>3. CASE TurnAway(r)
  <2>1. pc' = [pc EXCEPT ![r] = "done"] /\ UNCHANGED <<cur, row, goal>>
    BY <1>3 DEF TurnAway
  <2>2. pc'[r] = "done" /\ \A q \in Process \ {r} : Untouched(q)
    BY <1>1, <2>1 DEF TypeOK, Kept, Untouched
  <2>. QED
    BY <1>1, <2>2, QuietTouch DEF Returned, InTransition
<1>4. CASE Decide(r)
  <2>1. PICK s \in {"queued", "rejected"} : Begin(r, cur[r], Signed(r), s)
    BY <1>4 DEF Decide
  <2>2. /\ \A q \in Process \ {r} : Kept(q)
        /\ pc'[r] = "select" /\ goal'[r] # "executed"
    BY <1>1, <2>1, BeginKeeps
  <2>. QED
    BY <1>1, <2>2, QuietTouch DEF Returned, InTransition, Untouched
<1>. QED
  BY <1>2, <1>3, <1>4

----------------------------------------------------------------------------
(* A transition *)

LEMMA MovesLeave ==
  ASSUME TypeOK, NEW p \in Process, Transact(p)
  PROVE  /\ \A q \in Process \ {p} : Untouched(q)
         /\ cur'[p] = cur[p]
         /\ UNCHANGED <<entities, ledger, incidents>>
<1>1. /\ \A q \in Process \ {p} : Kept(q)
      /\ cur'[p] = cur[p] /\ UNCHANGED <<ledger, incidents>>
  BY MovesKeep
<1>2. CASE SelectLast(p) \/ Flush(p)
  BY <1>1, <1>2 DEF SelectLast, Flush, db, buffer, Untouched
<1>3. CASE Effect(p)
  <2>1. UNCHANGED <<entities, touched>> /\ \E b : same' = [same EXCEPT ![p] = b]
    BY <1>3 DEF Effect, db
  <2>. QED
    BY <1>1, <2>1 DEF TypeOK, Untouched
<1>4. CASE WriteEntity(p)
  <2>1. UNCHANGED entities /\ same' = [same EXCEPT ![p] = FALSE]
    BY <1>4 DEF WriteEntity, db
  <2>2. touched' = touched \/ \E e, s : touched' = [touched EXCEPT ![p][e] = s]
    BY <1>4 DEF WriteEntity
  <2>3. \A q \in Process \ {p} : touched'[q] = touched[q]
    BY <2>2 DEF TypeOK
  <2>. QED
    BY <1>1, <2>1, <2>3 DEF TypeOK, Untouched
<1>. QED
  BY <1>2, <1>3, <1>4 DEF Transact

\* A transition is about an action whose incident is there.
LEMMA InHand ==
  ASSUME TypeInv, IncidentInv, NEW p \in Process, InTransition(p)
  PROVE  cur[p][1] \in 1 .. Len(incidents)
<1>1. cur[p] \in Action /\ cur[p][1] \in Nat \ {0}
  BY ConstantsAssumption DEF TypeInv, TypeOK, Action, IncidentId
<1>2. cursor \in 0 .. Len(incidents) /\ upto \in 0 .. Len(incidents) /\ Len(incidents) \in Nat
  BY DEF TypeInv, TypeOK
<1>3. UpTo(cur[p], cursor) \/ UpTo(cur[p], upto)
  <2>1. CASE p = Orch
    <3>1. Begun(cur[p])
      BY <2>1 DEF Begun
    <3>. QED
      BY <1>1, <3>1 DEF IncidentInv, TickInv, RowsInv
  <2>2. CASE p \in Request
    BY <1>1, <2>2 DEF IncidentInv, Decides, RowsInv, InTransition
  <2>. QED
    BY <2>1, <2>2 DEF Process
<1>. QED
  BY <1>1, <1>2, <1>3 DEF UpTo

LEMMA SelectTouch ==
  ASSUME TypeInv, EffectInv, NEW p \in Process, SelectLast(p)
  PROVE  EffectInv'
<1>1. UNCHANGED <<own, touched, same>> /\ pc[p] = "select" /\ pc'[p] = "flush" /\ goal'[p] = goal[p]
  BY SelectFacts DEF SelectLast, buffer, TypeInv
<1>2. /\ \A q \in Process \ {p} : Untouched(q)
      /\ cur'[p] = cur[p] /\ UNCHANGED <<entities, ledger, incidents>>
  BY MovesLeave DEF Transact, TypeInv
<1>. QED
  BY <1>1, <1>2, QuietTouch DEF Returned, InTransition

\* The entry of an execution is written: the entity is next.
LEMMA FlushTouch ==
  ASSUME TypeInv, IncidentInv, EffectInv, NEW p \in Process, Flush(p)
  PROVE  EffectInv'
<1>. DEFINE n == NewEntry(p)
<1>. TypeOK /\ Touches(p)
  BY DEF TypeInv, EffectInv
<1>1. /\ pc[p] = "flush" /\ pc'[p] = After(p, goal[p])
      /\ goal'[p] = IF goal[p] = "queued" THEN "executing" ELSE goal[p]
      /\ own'[p] = own[p] \cup {n} /\ n.action = cur[p] /\ n.to = goal[p]
      /\ UNCHANGED <<touched, same>>
  BY FlushFacts DEF Flush, NewEntry
<1>2. /\ \A q \in Process \ {p} : Untouched(q)
      /\ cur'[p] = cur[p] /\ UNCHANGED <<entities, ledger, incidents>>
  BY MovesLeave DEF Transact
<1>. HIDE DEF n
<1>3. Known'
  <2>1. n.action[1] \in 1 .. Len(incidents)
    BY <1>1, InHand DEF InTransition
  <2>. QED
    BY <1>1, <1>2, <2>1 DEF EffectInv, Known, Untouched, Kept
<1>4. pc'[p] = "write" <=> goal[p] = "executed"
  BY <1>1 DEF After, Stop, End
<1>5. Returned(p)' => Returned(p)
  BY <1>1, <1>4 DEF Returned, InTransition
<1>6. ASSUME NEW e \in Entity
      PROVE  /\ touched'[p][e] \in Status =>
                  touched'[p][e] # "active" /\ EffectIn(own[p], e, touched[p][e])'
             /\ ExecutedIn(own[p], e)' # {} =>
                  Contained(p, e)' \/ (pc'[p] = "write" /\ EntityOf(cur[p])' = e)
             /\ same'[p] /\ Returned(p)' /\ EntityOf(cur[p])' = e => Contained(p, e)'
  <2>1. /\ Contained(p, e)' <=> Contained(p, e)
        /\ EntityOf(cur[p])' = EntityOf(cur[p])
    BY <1>1, <1>2 DEF Contained, EntityOf
  <2>2. ExecutedIn(own[p], e)' = ExecutedIn(own[p], e)
          \cup (IF goal[p] = "executed" /\ EntityOf(cur[p]) = e THEN {n} ELSE {})
    BY <1>1, <1>2 DEF ExecutedIn, EntityOf
  <2>3. EffectIn(own[p], e, touched[p][e]) => EffectIn(own[p], e, touched[p][e])'
    BY <1>1, <2>2 DEF EffectIn
  <2>4. pc[p] # "write"
    BY <1>1
  <2>. QED
    BY <1>1, <1>4, <1>5, <2>1, <2>2, <2>3, <2>4 DEF Touches
<1>7. Touches(p)'
  BY <1>1, <1>2, <1>4, <1>6 DEF Touches
<1>. QED
  BY <1>2, <1>3, <1>7, InsideStep

\* The effector returned: if the entity has its status, it is contained.
LEMMA EffectTouch ==
  ASSUME TypeInv, EffectInv, NEW p \in Process, Effect(p)
  PROVE  EffectInv'
<1>. TypeOK /\ Touches(p)
  BY DEF TypeInv, EffectInv
<1>1. pc[p] = "effect" /\ pc'[p] = "select" /\ UNCHANGED <<own, touched>>
  BY EffectFacts DEF Effect
<1>2. /\ \A q \in Process \ {p} : Untouched(q)
      /\ cur'[p] = cur[p] /\ UNCHANGED <<entities, ledger, incidents>>
  BY MovesLeave DEF Transact
<1>3. Known'
  BY <1>1, <1>2 DEF EffectInv, Known
<1>4. ASSUME NEW e \in Entity, same'[p], EntityOf(cur[p]) = e PROVE Contained(p, e)
  <2>. DEFINE type == Def(cur[p]).type
  <2>1. type \in DOMAIN EffectOf /\ StatusRead(p, e) = EffectOf[type]
    BY <1>4 DEF Effect, TypeOK
  <2>. QED
    BY <2>1, EffectKinds DEF StatusRead, Contained
<1>5. ASSUME NEW e \in Entity
      PROVE  /\ ExecutedIn(own[p], e)' = ExecutedIn(own[p], e)
             /\ EffectIn(own[p], e, touched[p][e])' <=> EffectIn(own[p], e, touched[p][e])
             /\ Contained(p, e)' <=> Contained(p, e)
             /\ EntityOf(cur[p])' = EntityOf(cur[p])
  BY <1>1, <1>2 DEF ExecutedIn, EffectIn, EntityOf, Contained
<1>6. Touches(p)'
  BY <1>1, <1>4, <1>5 DEF Touches
<1>. QED
  BY <1>1, <1>2, <1>3, <1>6, InsideStep

\* The entity is written, or has the status already.
LEMMA WriteTouch ==
  ASSUME TypeInv, EffectInv, NEW p \in Process, WriteEntity(p)
  PROVE  EffectInv'
<1>. DEFINE w == EntityOf(cur[p])
            s == EffectOf[Def(cur[p]).type]
<1>. TypeOK /\ Touches(p)
  BY DEF TypeInv, EffectInv
<1>1. pc[p] = "write" /\ pc'[p] = End(p) /\ UNCHANGED own /\ same'[p] = FALSE
  BY WriteFacts DEF WriteEntity, TypeOK
<1>2. /\ \A q \in Process \ {p} : Untouched(q)
      /\ cur'[p] = cur[p] /\ UNCHANGED <<entities, ledger, incidents>>
  BY MovesLeave DEF Transact
<1>3. Known'
  BY <1>1, <1>2 DEF EffectInv, Known
<1>4. s \in Status /\ s # "active"
  BY <1>1, EffectKinds DEF TypeInv, EffectorKnown
<1>5. PICK x \in own[p] : x.action = cur[p] /\ x.to = "executed"
  BY <1>1 DEF Touches
<1>6. EffectIn(own[p], w, s)
  BY <1>5 DEF EffectIn, ExecutedIn
<1>7. \/ ~same[p] /\ touched' = [touched EXCEPT ![p][w] = s]
      \/ same[p] /\ touched' = [touched EXCEPT ![p][w] = IF @ = "none" THEN "kept" ELSE @]
      \/ same[p] /\ touched' = touched
  BY DEF WriteEntity
<1>8. touched[p] \in [Entity -> Status \cup {"none", "kept"}]
  BY DEF TypeOK
<1>. HIDE DEF w, s
<1>9. ASSUME NEW e \in Entity
      PROVE  \/ touched'[p][e] = touched[p][e]
             \/ e = w /\ ~same[p] /\ touched'[p][e] = s
             \/ touched[p][e] \notin Status /\ touched'[p][e] \notin Status
  BY <1>7, <1>8 DEF TypeOK, Status
<1>10. ASSUME NEW e \in Entity, e = w PROVE Contained(p, e)'
  <2>1. CASE same[p]
    BY <1>1, <1>2, <1>9, <1>10, <2>1 DEF Touches, Contained, Returned, w
  <2>2. CASE ~same[p]
    <3>1. touched'[p][e] = s
      BY <1>7, <1>8, <1>10, <2>2 DEF TypeOK
    <3>. QED
      BY <1>4, <3>1 DEF Contained
  <2>. QED
    BY <2>1, <2>2
<1>11. pc'[p] # "write" /\ ~Returned(p)'
  BY <1>1 DEF Returned, InTransition, End
<1>12. ASSUME NEW e \in Entity
       PROVE  /\ touched'[p][e] \in Status =>
                   touched'[p][e] # "active" /\ EffectIn(own[p], e, touched[p][e])'
              /\ ExecutedIn(own[p], e)' # {} => Contained(p, e)'
  <2>1. /\ ExecutedIn(own[p], e)' = ExecutedIn(own[p], e)
        /\ EffectIn(own[p], e, touched[p][e])' <=> EffectIn(own[p], e, touched'[p][e])
    BY <1>1, <1>2 DEF ExecutedIn, EffectIn, EntityOf
  <2>2. touched'[p][e] \in Status => touched'[p][e] # "active" /\ EffectIn(own[p], e, touched'[p][e])
    BY <1>4, <1>6, <1>9 DEF Touches
  <2>3. Contained(p, e) => Contained(p, e)'
    BY <1>2, <1>4, <1>9 DEF Contained
  <2>4. ExecutedIn(own[p], e) # {} => Contained(p, e)'
    BY <1>10, <2>3 DEF Touches, w
  <2>. QED
    BY <2>1, <2>2, <2>4
<1>13. Touches(p)'
  BY <1>11, <1>12 DEF Touches
<1>. QED
  BY <1>2, <1>3, <1>13, InsideStep

----------------------------------------------------------------------------
(* The end of a transaction *)

LEMMA EndLeaves ==
  ASSUME TypeOK, NEW p \in Process, Ended(p)
  PROVE  /\ \A q \in Process \ {p} : Untouched(q)
         /\ own'[p] = {} /\ ~Returned(p)' /\ pc'[p] # "write"
         /\ \A e \in Entity : touched'[p][e] = "none"
<1>1. /\ \A q \in Process \ {p} : Kept(q)
      /\ own'[p] = {} /\ pc'[p] \in {"idle", "done", "refresh"}
  BY EndedKeeps
<1>2. /\ touched'[p] = NoStatuses
      /\ \A q \in Process \ {p} : touched'[q] = touched[q] /\ same'[q] = same[q]
  BY DEF Ended, Leave, TypeOK
<1>. QED
  BY <1>1, <1>2 DEF Untouched, Returned, InTransition, NoStatuses

\* What is left after a transaction: the others, if no entity became active again.
LEMMA ClosedTouch ==
  ASSUME TypeInv, EffectInv, NEW p \in Process, Ended(p), UNCHANGED incidents,
         ledger' \subseteq ledger \cup own[p],
         \A e \in Entity : entities[e] # "active" => entities'[e] # "active",
         Recorded'
  PROVE  EffectInv'
<1>1. /\ \A q \in Process \ {p} : Untouched(q)
      /\ own'[p] = {} /\ ~Returned(p)' /\ pc'[p] # "write"
      /\ \A e \in Entity : touched'[p][e] = "none"
  BY EndLeaves DEF TypeInv
<1>2. Known'
  BY <1>1 DEF EffectInv, Known, Untouched, Kept
<1>3. Touches(p)'
  BY <1>1 DEF Touches, ExecutedIn, Status
<1>. QED
  BY <1>1, <1>2, <1>3, OthersTouch DEF EffectInv

\* Rolled back, or with nothing to commit.
LEMMA FinishTouch ==
  ASSUME TypeInv, EffectInv, NEW p \in Process,
         Crash(p) \/ (p \in Request /\ (Replay(p) \/ Conflict(p) \/ Refresh(p) \/ DuplicateKey(p)))
  PROVE  EffectInv'
<1>1. Close(p) /\ UNCHANGED <<entities, ledger, incidents>>
  BY DEF Replay, Conflict, Refresh, DuplicateKey, Crash, Finish, db, world
<1>2. Recorded'
  BY <1>1 DEF EffectInv, Recorded, ExecutedIn, EffectIn, EntityOf
<1>. QED
  BY <1>1, <1>2, CloseEnds, ClosedTouch

\* A commit: entries of executions become visible with their effects.
LEMMA CommitTouch ==
  ASSUME TypeInv, EffectInv, NEW p \in Process, NEW rows, Commit(p, rows), Ended(p),
         UNCHANGED incidents, pc[p] # "write"
  PROVE  EffectInv'
<1>. Touches(p) /\ Recorded /\ TypeOK
  BY DEF EffectInv, TypeInv
<1>1. /\ ledger' = ledger \cup own[p]
      /\ \A e \in Entity : entities'[e] = IF touched[p][e] \in Status THEN touched[p][e]
                                                                     ELSE entities[e]
  BY DEF Commit
<1>2. ASSUME NEW e \in Entity
      PROVE  /\ entities[e] # "active" => entities'[e] # "active"
             /\ IF ExecutedIn(ledger, e)' = {} THEN entities'[e] = "active"
                ELSE entities'[e] # "active" /\ EffectIn(ledger, e, entities[e])'
  <2>1. ExecutedIn(ledger, e)' = ExecutedIn(ledger, e) \cup ExecutedIn(own[p], e)
    BY <1>1 DEF ExecutedIn, EntityOf
  <2>2. EffectIn(ledger, e, entities[e])' <=>
          EffectIn(ledger, e, entities'[e]) \/ EffectIn(own[p], e, entities'[e])
    BY <2>1 DEF EffectIn
  <2>3. CASE touched[p][e] \in Status
    <3>1. /\ entities'[e] = touched[p][e] /\ entities'[e] # "active"
          /\ EffectIn(own[p], e, entities'[e])
      BY <1>1, <2>3 DEF Touches
    <3>2. ExecutedIn(own[p], e) # {}
      BY <3>1 DEF EffectIn
    <3>. QED
      BY <2>1, <2>2, <3>1, <3>2
  <2>4. CASE touched[p][e] \notin Status
    <3>1. entities'[e] = entities[e]
      BY <1>1, <2>4
    <3>2. ExecutedIn(own[p], e) # {} => entities[e] # "active"
      BY <2>4 DEF Touches, Contained
    <3>. QED
      BY <2>1, <2>2, <3>1, <3>2 DEF Recorded
  <2>. QED
    BY <2>3, <2>4
<1>3. Recorded'
  BY <1>2 DEF Recorded
<1>. QED
  BY <1>1, <1>2, <1>3, ClosedTouch

----------------------------------------------------------------------------
(* The environment, and all steps *)

\* A new incident changes no entity an entry is about.
LEMMA OpenIncidentTouch ==
  ASSUME TypeInv, IncidentInv, EffectInv, OpenIncident
  PROVE  EffectInv'
<1>. TypeOK /\ Known
  BY DEF TypeInv, EffectInv
<1>1. /\ UNCHANGED <<entities, ledger, own, touched, same, pc, cur, goal>>
      /\ \E inc \in Profile : incidents' = Append(incidents, inc)
  BY DEF OpenIncident, db, buffer
<1>2. /\ \A i \in 1 .. Len(incidents) : incidents'[i] = incidents[i]
      /\ Len(incidents)' = Len(incidents) + 1 /\ Len(incidents) \in Nat
  BY <1>1 DEF TypeOK
<1>3. \A a : a[1] \in 1 .. Len(incidents) => EntityOf(a)' = EntityOf(a)
  BY <1>2 DEF EntityOf
<1>4. Known'
  BY <1>1, <1>2 DEF Known
<1>5. \A e \in Entity : ExecutedIn(ledger, e)' = ExecutedIn(ledger, e)
  BY <1>1, <1>3, OrchProcess DEF ExecutedIn, Known
<1>6. Recorded'
  BY <1>1, <1>5 DEF EffectInv, Recorded, EffectIn
<1>7. ASSUME NEW p \in Process PROVE Touches(p)'
  <2>1. \A e \in Entity : ExecutedIn(own[p], e)' = ExecutedIn(own[p], e)
    BY <1>1, <1>3 DEF ExecutedIn, Known
  <2>2. Touches(p)
    BY DEF EffectInv
  <2>3. pc[p] = "write" \/ Returned(p) => EntityOf(cur[p])' = EntityOf(cur[p])
    <3>1. pc[p] = "write" => cur[p][1] \in 1 .. Len(incidents)
      BY <2>2 DEF Touches, Known
    <3>2. Returned(p) => cur[p][1] \in 1 .. Len(incidents)
      BY <3>1, InHand DEF Returned
    <3>. QED
      BY <1>1, <1>3, <3>1, <3>2 DEF EntityOf
  <2>4. Returned(p)' <=> Returned(p)
    BY <1>1 DEF Returned, InTransition
  <2>5. \A e \in Entity : /\ Contained(p, e)' <=> Contained(p, e)
                          /\ EffectIn(own[p], e, touched[p][e])' <=> EffectIn(own[p], e, touched[p][e])
    BY <1>1, <2>1 DEF Contained, EffectIn
  <2>. QED
    BY <1>1, <2>1, <2>2, <2>3, <2>4, <2>5 DEF Touches
<1>. QED
  BY <1>4, <1>6, <1>7 DEF EffectInv

LEMMA StutterTouch ==
  ASSUME EffectInv, TimeOut \/ UNCHANGED vars
  PROVE  EffectInv'
<1>1. UNCHANGED <<entities, ledger, incidents, own, touched, same, pc, cur, goal>>
  BY DEF TimeOut, db, buffer, vars, world
<1>. QED
  BY <1>1 DEF EffectInv, Known, Recorded, Touches, ExecutedIn, EffectIn, EntityOf, Contained,
              Returned, InTransition

LEMMA InitTouch == Init => EffectInv
<1>. SUFFICES ASSUME Init PROVE EffectInv
  OBVIOUS
<1>1. /\ ledger = {} /\ \A e \in Entity : entities[e] = "active"
      /\ \A p \in Process : /\ own[p] = {} /\ pc[p] = "idle" /\ same[p] = FALSE
                            /\ \A e \in Entity : touched[p][e] = "none"
  BY DEF Init, NoStatuses
<1>. QED
  BY <1>1 DEF EffectInv, Known, Recorded, Touches, ExecutedIn, Status

LEMMA NextTouch == TypeInv /\ IncidentInv /\ EffectInv /\ [Next]_vars => EffectInv'
<1>. SUFFICES ASSUME TypeInv, IncidentInv, EffectInv, [Next]_vars PROVE EffectInv'
  OBVIOUS
<1>1. ASSUME NEW p \in Process, Transact(p) PROVE EffectInv'
  BY <1>1, SelectTouch, FlushTouch, EffectTouch, WriteTouch DEF Transact
<1>2. CASE CommitTick
  <2>1. /\ Commit(Orch, dirty[Orch]) /\ Close(Orch) /\ UNCHANGED incidents
        /\ pc[Orch] # "write"
    BY <1>2 DEF CommitTick, world
  <2>. QED
    BY <2>1, CloseEnds, CommitTouch, OrchProcess
<1>3. ASSUME NEW r \in Request, CommitDecision(r) PROVE EffectInv'
  <2>1. /\ \E rows : Commit(r, rows)
        /\ Ended(r) /\ UNCHANGED incidents /\ pc[r] # "write"
    BY <1>3, OrchProcess DEF CommitDecision, Ended, TypeInv, TypeOK, world
  <2>. QED
    BY <2>1, CommitTouch, OrchProcess
<1>4. CASE Tick
  BY <1>1, <1>2, <1>4, TickQuiet, OrchProcess DEF Tick
<1>5. ASSUME NEW r \in Request, Receive(r) \/ TurnAway(r) \/ Handle(r) PROVE EffectInv'
  BY <1>1, <1>3, <1>5, RequestQuiet, FinishTouch, OrchProcess DEF Handle
<1>6. ASSUME NEW p \in Process, Crash(p) PROVE EffectInv'
  BY <1>6, FinishTouch
<1>7. CASE OpenIncident \/ TimeOut \/ UNCHANGED vars
  BY <1>7, OpenIncidentTouch, StutterTouch
<1>. QED
  BY <1>4, <1>5, <1>6, <1>7 DEF Next

LEMMA EffectSuffices == EffectInv => EffectsOnRecord
<1>. SUFFICES ASSUME Recorded PROVE EffectsOnRecord
  BY DEF EffectInv
<1>. QED
  BY DEF Recorded, EffectsOnRecord, ExecutedIn, EffectIn

\* Containment and record commit together: an entity has the status of an effector
\* exactly if the ledger shows such an action executed on it, and no executed action
\* left its entity active, whatever overlaps, raises or dies in between.
\* (the effectors and _execute, inside one transaction with append_entry.)
THEOREM EffectsOnRecordHolds == Spec => []EffectsOnRecord
<1>1. TypeInv /\ IncidentInv /\ EffectInv /\ [Next]_vars => TypeInv' /\ IncidentInv' /\ EffectInv'
  BY TypeNext, NextInc, NextTouch
<1>. QED
  BY <1>1, TypeInit, InitInc, InitTouch, EffectSuffices, PTL DEF Spec
=============================================================================
