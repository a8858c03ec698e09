--------------------------- MODULE LlmGatewayProofs ---------------------------
(***************************************************************************)
(* Theorems about LlmGateway: type correctness, how far the daily budget   *)
(* of a provider can be overrun, what the cache spares, and what           *)
(* the end of an analysis tells of its providers.                          *)
(***************************************************************************)
EXTENDS LlmGateway, FiniteSetTheorems, TLAPS

----------------------------------------------------------------------------
(* Types *)

Errors == SUBSET (Provider \X {"budget", "failed"})
Job ==
  [question : {"none"} \cup Question, round : Round, at : 1 .. Len(chain) + 1,
   tries : 0 .. Attempts - 1, errors : Errors,
   reply : {"none"} \cup Content \cup Uncaught]

Outcome == {"none", "ok", "ok_repaired", "schema_invalid_failed",
            "budget_exhausted", "provider_error", "unavailable"}

\* A caller which asks a provider is within its chain.
InChain == \A c \in Caller : pc[c] \in {"post", "store", "spend"} => job[c].at <= Len(chain)

\* A caller between an answer and its return has the answer.
HasAnswer == \A c \in Caller : pc[c] \in {"store", "spend"} => job[c].reply \in Content

\* A caller at work has an incident.
HasQuestion == \A c \in Caller : pc[c] # "idle" => job[c].question \in Question

Inv == TypeOK /\ InChain /\ HasAnswer /\ HasQuestion

\* A chain is a sequence of providers, and numbers are numbers.
LEMMA Numbers ==
  /\ Attempts \in Nat \ {0} /\ Budget \in Nat \ {0}
  /\ MaxAnalyses \in Nat /\ MaxEvents \in Nat
BY GatewayAssumption DEF GatewayAssumption

LEMMA ChainSeq ==
  ASSUME chain \in Chains
  PROVE  chain \in Seq(Provider) /\ Len(chain) \in Nat
BY GatewayAssumption DEF GatewayAssumption

LEMMA ChosenProvider ==
  ASSUME chain \in Chains, NEW c \in Caller, job[c].at \in 1 .. Len(chain)
  PROVE  Chosen(c) \in Provider
BY ChainSeq DEF Chosen

\* A chat that begins, and the end of an analysis, leave a caller well typed.
LEMMA ChatType ==
  ASSUME chain \in Chains, NEW q \in {"none"} \cup Question, NEW r \in Round
  PROVE  Chat(q, r) \in Job /\ Chat(q, r).question = q
BY Numbers, ChainSeq DEF Chat, Job, Errors, Round

\* A provider that fails or has no budget left is recorded, and the next is tried.
LEMMA FailType ==
  ASSUME Inv, NEW c \in Caller, job[c].at <= Len(chain), NEW why \in {"budget", "failed"}
  PROVE  Fail(c, why) \in Job /\ Fail(c, why).question = job[c].question
<1>1. job[c] \in Job
  BY DEF Inv, TypeOK, Job, Errors
<1>2. chain \in Chains /\ job[c].at \in 1 .. Len(chain) /\ job[c].at + 1 \in 1 .. Len(chain) + 1
  BY <1>1, ChainSeq DEF Inv, TypeOK, Job, Errors
<1>3. job[c].errors \cup {<<Chosen(c), why>>} \in Errors
  BY <1>1, <1>2, ChosenProvider DEF Job, Errors
<1>4. ASSUME NEW j \in Job, NEW a \in 1 .. Len(chain) + 1,
             NEW e \in Errors
      PROVE  /\ [j EXCEPT !.errors = e, !.at = a, !.tries = 0] \in Job
             /\ [j EXCEPT !.errors = e, !.at = a, !.tries = 0].question = j.question
  <2>1. [j EXCEPT !.errors = e] \in Job /\ [j EXCEPT !.errors = e].question = j.question
    BY DEF Job
  <2>2. 0 \in 0 .. Attempts - 1
    BY Numbers
  <2>3. ASSUME NEW k \in Job
        PROVE  [k EXCEPT !.at = a, !.tries = 0] \in Job
               /\ [k EXCEPT !.at = a, !.tries = 0].question = k.question
    BY <2>2 DEF Job
  <2>. QED
    BY <2>1, <2>3
<1>. QED
  BY <1>1, <1>2, <1>3, <1>4 DEF Fail

LEMMA AfterType ==
  ASSUME Inv, NEW c \in Caller, job[c].at <= Len(chain), NEW reply \in Reply \ Content
  PROVE  After(c, reply) \in Job /\ After(c, reply).question = job[c].question
<1>1. job[c] \in Job
  BY DEF Inv, TypeOK, Job, Errors
<1>2. CASE reply \in Uncaught
  BY <1>1, <1>2, ChainSeq DEF After, Job
<1>3. CASE reply \notin Uncaught /\ reply = "retry" /\ MoreTries(c)
  <2>1. After(c, reply) = [job[c] EXCEPT !.tries = @ + 1]
    BY <1>3 DEF After
  <2>2. job[c].tries + 1 \in 0 .. Attempts - 1
    BY <1>1, <1>3, Numbers DEF MoreTries, Job
  <2>3. \A n \in 0 .. Attempts - 1 :
           [job[c] EXCEPT !.tries = n] \in Job
           /\ [job[c] EXCEPT !.tries = n].question = job[c].question
    BY <1>1 DEF Job
  <2>. QED
    BY <2>1, <2>2, <2>3
<1>4. CASE reply \notin Uncaught /\ ~(reply = "retry" /\ MoreTries(c))
  BY <1>4, FailType DEF After
<1>. QED
  BY <1>2, <1>3, <1>4

\* What changes in one caller only keeps the invariant of the others.
LEMMA OneCaller ==
  ASSUME Inv, NEW c \in Caller, UNCHANGED chain,
         NEW l \in {"idle", "lookup", "choose", "post", "store", "spend"}, NEW j \in Job,
         pc' = [pc EXCEPT ![c] = l], job' = [job EXCEPT ![c] = j],
         l \in {"post", "store", "spend"} => j.at <= Len(chain),
         l \in {"store", "spend"} => j.reply \in Content,
         l # "idle" => j.question \in Question
  PROVE  /\ pc' \in [Caller -> {"idle", "lookup", "choose", "post", "store", "spend"}]
         /\ job' \in [Caller -> Job'] /\ InChain' /\ HasAnswer' /\ HasQuestion'
BY DEF Inv, TypeOK, InChain, HasAnswer, HasQuestion, Job, Errors

\* After an answer: the end of the analysis or a repair.
LEMMA JudgeKeeps ==
  ASSUME Inv, NEW c \in Caller, UNCHANGED chain, NEW content \in Content, Judge(c, content),
         pc[c] # "idle"
  PROVE  /\ pc' \in [Caller -> {"idle", "lookup", "choose", "post", "store", "spend"}]
         /\ job' \in [Caller -> Job'] /\ InChain' /\ HasAnswer' /\ HasQuestion'
         /\ outcome' \in [Caller -> Outcome]
<1>1. chain \in Chains /\ job[c].question \in {"none"} \cup Question /\ outcome \in [Caller -> Outcome]
  BY DEF Inv, TypeOK, Outcome
<1>2. /\ NoJob \in Job /\ Chat(job[c].question, "repair") \in Job
      /\ Chat(job[c].question, "repair").question \in Question
  BY <1>1, ChatType DEF NoJob, Round, Inv, HasQuestion
<1>3. CASE pc' = [pc EXCEPT ![c] = "idle"] /\ job' = [job EXCEPT ![c] = NoJob]
  <2>1. outcome' \in [Caller -> Outcome]
    BY <1>1, <1>3 DEF Judge, End, Goto, Outcome
  <2>. QED
    BY <1>2, <1>3, <2>1, OneCaller
<1>4. CASE /\ pc' = [pc EXCEPT ![c] = "lookup"] /\ UNCHANGED outcome
           /\ job' = [job EXCEPT ![c] = Chat(job[c].question, "repair")]
  BY <1>1, <1>2, <1>4, OneCaller
<1>5. \/ pc' = [pc EXCEPT ![c] = "idle"] /\ job' = [job EXCEPT ![c] = NoJob]
      \/ /\ pc' = [pc EXCEPT ![c] = "lookup"] /\ UNCHANGED outcome
         /\ job' = [job EXCEPT ![c] = Chat(job[c].question, "repair")]
  <2>1. job \in [Caller -> Job]
    BY DEF Inv, TypeOK, Job, Errors
  <2>. QED
    BY <2>1 DEF Judge, End, Goto, Content
<1>. QED
  BY <1>3, <1>4, <1>5

\* What the callers are about, and the rest.
Callers ==
  /\ pc \in [Caller -> {"idle", "lookup", "choose", "post", "store", "spend"}]
  /\ job \in [Caller -> Job] /\ InChain /\ HasAnswer /\ HasQuestion
  /\ outcome \in [Caller -> Outcome]

Shared ==
  /\ chain \in Chains /\ redis \in [Caller -> BOOLEAN]
  /\ cache \in [Key -> {"none"} \cup Content] /\ spent \in [Provider -> Nat]
  /\ analyses \in 0 .. MaxAnalyses /\ {lapses, losses, crashes} \subseteq 0 .. MaxEvents
  /\ asked \in [Caller -> [Key -> Nat]]
  /\ parsed \in [Provider -> Nat] /\ burnt \in [Provider -> Nat]

LEMMA Parts == Inv <=> Callers /\ Shared
BY DEF Inv, TypeOK, Callers, Shared, Job, Errors, Outcome

LEMMA PartsNext == Callers' /\ Shared' => Inv'
BY DEF Inv, TypeOK, Callers, Shared, Job, Errors, Outcome

LEMMA InitInv == Init => Inv
<1>. SUFFICES ASSUME Init PROVE Callers /\ Shared
  BY Parts
<1>1. NoJob \in Job
  BY ChatType DEF Init, NoJob, Round
<1>2. Callers
  BY <1>1 DEF Init, Callers, InChain, HasAnswer, HasQuestion, Outcome
<1>3. Shared
  BY Numbers DEF Init, Shared
<1>. QED
  BY <1>2, <1>3

\* The steps of callers.
LEMMA AnalyzeCallers ==
  ASSUME Inv, NEW c \in Caller, Analyze(c) PROVE Callers'
<1>1. chain \in Chains /\ outcome \in [Caller -> Outcome] /\ NoJob \in Job
  BY ChatType DEF Inv, TypeOK, Outcome, NoJob, Round
<1>2. CASE chain = <<>>
  BY <1>1, <1>2, OneCaller DEF Analyze, End, Goto, Callers, Outcome
<1>3. CASE chain # <<>>
  <2>1. PICK q \in Question : job' = [job EXCEPT ![c] = Chat(q, "first")]
    BY <1>3 DEF Analyze
  <2>2. Chat(q, "first") \in Job /\ Chat(q, "first").question \in Question
    BY <1>1, ChatType DEF Round
  <2>. QED
    BY <1>1, <1>3, <2>1, <2>2, OneCaller DEF Analyze, Goto, Callers, Outcome
<1>. QED
  BY <1>2, <1>3

LEMMA LookupCallers ==
  ASSUME Inv, NEW c \in Caller, Lookup(c) PROVE Callers'
<1>1. CASE Cached(c) # "none" /\ Judge(c, Cached(c))
  <2>1. Cached(c) \in Content
    <3>1. KeyOf(c) \in Key
      <4>1. job[c].question \in Question /\ job[c].round \in Round
        BY DEF Inv, TypeOK, HasQuestion, Lookup
      <4>. QED
        BY <4>1 DEF KeyOf, Key
    <3>. QED
      BY <1>1, <3>1 DEF Inv, TypeOK, Cached
  <2>. QED
    BY <1>1, <2>1, JudgeKeeps DEF Lookup, Callers
<1>2. CASE Goto(c, "choose") /\ UNCHANGED <<job, outcome>>
  <2>1. /\ job[c] \in Job /\ job' = [job EXCEPT ![c] = job[c]]
        /\ job[c].question \in Question
    BY <1>2 DEF Inv, TypeOK, Job, Errors, HasQuestion, Lookup
  <2>. QED
    BY <1>2, <2>1, OneCaller DEF Lookup, Goto, Callers, Inv, TypeOK, Outcome
<1>. QED
  BY <1>1, <1>2 DEF Lookup

LEMMA ChooseCallers ==
  ASSUME Inv, NEW c \in Caller, Choose(c) PROVE Callers'
<1>1. /\ job[c] \in Job /\ outcome' \in [Caller -> Outcome] /\ UNCHANGED chain
      /\ job[c].question \in Question
  BY DEF Inv, TypeOK, Job, Errors, HasQuestion, Choose, Outcome
<1>2. CASE Goto(c, "post") /\ UNCHANGED job
  <2>1. job' = [job EXCEPT ![c] = job[c]]
    BY <1>2 DEF Inv, TypeOK
  <2>. QED
    BY <1>1, <1>2, <2>1, OneCaller DEF Choose, Goto, Callers
<1>3. CASE job' = [job EXCEPT ![c] = Fail(c, "budget")] /\ UNCHANGED pc
  <2>1. Fail(c, "budget") \in Job /\ Fail(c, "budget").question \in Question
    BY <1>1, FailType DEF Choose
  <2>2. pc' = [pc EXCEPT ![c] = "choose"]
    BY <1>3 DEF Inv, TypeOK, Choose
  <2>. QED
    BY <1>1, <1>3, <2>1, <2>2, OneCaller DEF Callers
<1>. QED
  BY <1>2, <1>3 DEF Choose

LEMMA GiveUpCallers ==
  ASSUME Inv, NEW c \in Caller, GiveUp(c) PROVE Callers'
<1>1. UNCHANGED chain /\ chain \in Chains
  BY DEF GiveUp, Inv, TypeOK
<1>2. NoJob \in Job
  BY <1>1, ChatType DEF NoJob, Round
<1>3. outcome' \in [Caller -> Outcome]
  BY DEF Inv, TypeOK, GiveUp, End, Outcome
<1>. QED
  BY <1>1, <1>2, <1>3, OneCaller DEF GiveUp, End, Goto, Callers

LEMMA PostCallers ==
  ASSUME Inv, NEW c \in Caller, Post(c) PROVE Callers'
<1>1. /\ job[c] \in Job /\ job[c].at <= Len(chain) /\ outcome' \in [Caller -> Outcome]
      /\ UNCHANGED chain /\ job[c].question \in Question
  BY DEF Inv, TypeOK, InChain, HasQuestion, Job, Errors, Post, Outcome
<1>2. PICK reply \in Reply :
        IF reply \in Content
        THEN Goto(c, "store") /\ job' = [job EXCEPT ![c].reply = reply]
        ELSE /\ job' = [job EXCEPT ![c] = After(c, reply)]
             /\ Goto(c, IF After(c, reply).at = job[c].at /\ reply \notin Uncaught
                        THEN "post" ELSE "choose")
  BY DEF Post
<1>3. CASE reply \in Content
  <2>1. [job[c] EXCEPT !.reply = reply] \in Job
    BY <1>1, <1>3 DEF Job
  <2>2. job' = [job EXCEPT ![c] = [job[c] EXCEPT !.reply = reply]]
    BY <1>2, <1>3 DEF Inv, TypeOK
  <2>3. [job[c] EXCEPT !.reply = reply].reply = reply /\ [job[c] EXCEPT !.reply = reply].at = job[c].at
        /\ [job[c] EXCEPT !.reply = reply].question = job[c].question
    BY <1>1 DEF Job
  <2>. QED
    BY <1>1, <1>2, <1>3, <2>1, <2>2, <2>3, OneCaller DEF Goto, Callers
<1>4. CASE reply \notin Content
  <2>1. After(c, reply) \in Job /\ After(c, reply).question \in Question
    BY <1>1, <1>4, AfterType
  <2>. QED
    BY <1>1, <1>2, <1>4, <2>1, OneCaller DEF Goto, Callers
<1>. QED
  BY <1>3, <1>4

LEMMA StoreCallers ==
  ASSUME Inv, NEW c \in Caller, Store(c) PROVE Callers'
<1>1. job' = [job EXCEPT ![c] = job[c]] /\ job[c] \in Job /\ UNCHANGED <<chain, outcome>>
  BY DEF Inv, TypeOK, Job, Errors, Store
<1>2. job[c].at <= Len(chain) /\ job[c].reply \in Content /\ job[c].question \in Question
  BY DEF Inv, TypeOK, InChain, HasAnswer, HasQuestion, Store
<1>. QED
  BY <1>1, <1>2, OneCaller DEF Store, Goto, Callers, Inv, TypeOK, Outcome

LEMMA SpendCallers ==
  ASSUME Inv, NEW c \in Caller, Spend(c) PROVE Callers'
BY JudgeKeeps DEF Inv, HasAnswer, Spend, Callers

LEMMA CrashCallers ==
  ASSUME Inv, NEW c \in Caller, Crash(c) PROVE Callers'
<1>1. UNCHANGED <<chain, outcome>> /\ chain \in Chains
  BY DEF Crash, Inv, TypeOK
<1>2. NoJob \in Job
  BY <1>1, ChatType DEF NoJob, Round
<1>. QED
  BY <1>1, <1>2, OneCaller DEF Crash, Goto, Callers, Inv, TypeOK, Outcome

\* A step that leaves the callers where they are.
LEMMA Standing ==
  ASSUME Inv, UNCHANGED <<chain, pc, job, outcome>> PROVE Callers'
<1>1. Callers
  BY Parts
<1>. QED
  BY <1>1 DEF Callers, InChain, HasAnswer, HasQuestion, Job, Outcome

----------------------------------------------------------------------------
(* Type correctness *)

LEMMA KeyOfKey ==
  ASSUME Inv, NEW c \in Caller, pc[c] # "idle" PROVE KeyOf(c) \in Key
<1>1. job[c].question \in Question /\ job[c].round \in Round
  BY DEF Inv, TypeOK, HasQuestion
<1>. QED
  BY <1>1 DEF KeyOf, Key

\* What a caller writes to Redis.
LEMMA WriteType ==
  ASSUME Inv, NEW c \in Caller, pc[c] \in {"store", "spend"}
  PROVE  /\ CacheWrite(c) \in [Key -> {"none"} \cup Content]
         /\ SpendOne(c) \in [Provider -> Nat]
         /\ Chosen(c) \in Provider
<1>1. Chosen(c) \in Provider
  BY ChosenProvider, ChainSeq DEF Inv, TypeOK, InChain
<1>2. job[c].reply \in Content
  BY DEF Inv, HasAnswer
<1>3. CacheWrite(c) \in [Key -> {"none"} \cup Content]
  BY <1>2 DEF Inv, TypeOK, CacheWrite
<1>4. SpendOne(c) \in [Provider -> Nat]
  BY <1>1 DEF Inv, TypeOK, SpendOne
<1>. QED
  BY <1>1, <1>3, <1>4

LEMMA PostShared ==
  ASSUME Inv, NEW c \in Caller, Post(c) PROVE Shared'
<1>1. KeyOf(c) \in Key /\ Chosen(c) \in Provider
  <2>1. pc[c] = "post"
    BY DEF Post
  <2>2. chain \in Chains /\ job[c].at \in 1 .. Len(chain)
    BY <2>1, ChainSeq DEF Inv, TypeOK, InChain
  <2>. QED
    BY <2>1, <2>2, KeyOfKey, ChosenProvider
<1>2. /\ asked \in [Caller -> [Key -> Nat]]
      /\ parsed \in [Provider -> Nat] /\ burnt \in [Provider -> Nat]
  BY DEF Inv, TypeOK
<1>3. [asked EXCEPT ![c][KeyOf(c)] = @ + 1] \in [Caller -> [Key -> Nat]]
  BY <1>1, <1>2
<1>4. [parsed EXCEPT ![Chosen(c)] = @ + 1] \in [Provider -> Nat]
  BY <1>1, <1>2
<1>5. [burnt EXCEPT ![Chosen(c)] = @ + 1] \in [Provider -> Nat]
  BY <1>1, <1>2
<1>6. /\ asked' \in [Caller -> [Key -> Nat]]
      /\ parsed' \in [Provider -> Nat] /\ burnt' \in [Provider -> Nat]
  BY <1>2, <1>3, <1>4, <1>5 DEF Post, Burn
<1>. QED
  BY <1>6 DEF Post, Inv, TypeOK, Shared, shared, counts

LEMMA StepShared ==
  ASSUME Inv, NEW c \in Caller, Step(c) PROVE Shared'
<1>1. CASE Lookup(c)
  BY <1>1 DEF Lookup, Inv, TypeOK, Shared, shared, counts, history
<1>2. CASE Choose(c) \/ GiveUp(c)
  BY <1>2 DEF Choose, GiveUp, Inv, TypeOK, Shared, shared, counts, history
<1>3. CASE Store(c) \/ Spend(c)
  BY <1>3, WriteType DEF Store, Spend, Inv, TypeOK, Shared, counts, history
<1>. QED
  BY <1>1, <1>2, <1>3, PostShared DEF Step

LEMMA FaultShared ==
  ASSUME Inv, NEW c \in Caller, LoseRedis(c) \/ Crash(c) PROVE Shared'
<1>1. CASE LoseRedis(c)
  <2>1. cache' \in [Key -> {"none"} \cup Content] /\ spent' \in [Provider -> Nat]
    BY <1>1, WriteType DEF LoseRedis, shared, Inv, TypeOK
  <2>2. losses' \in 0 .. MaxEvents
    BY <1>1, Numbers DEF LoseRedis, Inv, TypeOK
  <2>. QED
    BY <1>1, <2>1, <2>2 DEF LoseRedis, Inv, TypeOK, Shared, history
<1>2. CASE Crash(c)
  <2>1. crashes' \in 0 .. MaxEvents
    BY <1>2, Numbers DEF Crash, Inv, TypeOK
  <2>. QED
    BY <1>2, <2>1 DEF Crash, Inv, TypeOK, Shared, shared, history
<1>. QED
  BY <1>1, <1>2

LEMMA TimeShared ==
  ASSUME Inv, Expire \/ Midnight PROVE Shared'
<1>1. lapses' \in 0 .. MaxEvents
  BY Numbers DEF Expire, Midnight, Lapse, Inv, TypeOK
<1>2. CASE Expire
  <2>1. PICK k \in Key : /\ cache' = [cache EXCEPT ![k] = "none"]
                         /\ asked' = [c \in Caller |-> [asked[c] EXCEPT ![k] = 0]]
    BY <1>2 DEF Expire
  <2>2. cache' \in [Key -> {"none"} \cup Content] /\ asked' \in [Caller -> [Key -> Nat]]
    BY <2>1 DEF Inv, TypeOK
  <2>. QED
    BY <1>1, <1>2, <2>2 DEF Expire, Inv, TypeOK, Shared
<1>3. CASE Midnight
  BY <1>1, <1>3 DEF Midnight, Inv, TypeOK, Shared
<1>. QED
  BY <1>2, <1>3

LEMMA NextInv == Inv /\ [Next]_vars => Inv'
<1>. SUFFICES ASSUME Inv, [Next]_vars PROVE Callers' /\ Shared'
  BY PartsNext
<1>. USE DEF shared, counts, history
<1>1. ASSUME NEW c \in Caller, Analyze(c) PROVE Callers' /\ Shared'
  <2>1. analyses' \in 0 .. MaxAnalyses
    BY <1>1, Numbers DEF Analyze, Inv, TypeOK
  <2>. QED
    BY <1>1, <2>1, AnalyzeCallers DEF Analyze, Inv, TypeOK, Shared
<1>2. ASSUME NEW c \in Caller, Step(c) PROVE Callers' /\ Shared'
  BY <1>2, StepShared, LookupCallers, ChooseCallers, GiveUpCallers, PostCallers,
     StoreCallers, SpendCallers DEF Step
<1>3. ASSUME NEW c \in Caller, LoseRedis(c) PROVE Callers' /\ Shared'
  BY <1>3, FaultShared, Standing DEF LoseRedis
<1>4. ASSUME NEW c \in Caller, Crash(c) PROVE Callers' /\ Shared'
  BY <1>4, FaultShared, CrashCallers
<1>5. CASE Expire \/ Midnight
  BY <1>5, TimeShared, Standing DEF Expire, Midnight
<1>6. CASE UNCHANGED vars
  BY <1>6, Standing DEF vars, Inv, TypeOK, Shared
<1>. QED
  BY <1>1, <1>2, <1>3, <1>4, <1>5, <1>6 DEF Next, Idle

\* The invariant holds of every state.
LEMMA AlwaysInv == Spec => []Inv
BY InitInv, NextInv, PTL DEF Spec

\* Type correctness for any callers, chains, attempts and budgets: no provider
\* beyond the chain's end is chosen and no call makes more than its attempts.
THEOREM TypesCorrect == Spec => []TypeOK
<1>1. Inv => TypeOK
  BY DEF Inv
<1>. QED
  BY <1>1, AlwaysInv, PTL

----------------------------------------------------------------------------
(* The budget *)

\* Who asks provider p, and who has its answer and has not charged it yet.
Asking(p) == {c \in Caller : pc[c] = "post" /\ Chosen(c) = p}
Paying(p) == {c \in Caller : pc[c] \in {"store", "spend"} /\ Chosen(c) = p}

\* Every answer is charged, about to be, or lost in a crash; and those who may
\* still get one found the budget open.
Charged(p) == parsed[p] <= spent[p] + Cardinality(Paying(p)) + crashes
Bounded(p) ==
  parsed[p] + Cardinality(Asking(p)) <= Budget - 1 + Cardinality(Caller) + crashes
BudgetInv ==
  losses = 0 => (\A c \in Caller : redis[c]) /\ (\A p \in Provider : Charged(p) /\ Bounded(p))

LEMMA SetSizes ==
  ASSUME NEW S \in SUBSET Caller
  PROVE  /\ Cardinality(S) \in Nat /\ Cardinality(Caller) \in Nat
         /\ Cardinality(S) <= Cardinality(Caller)
         /\ \A T \in SUBSET S : Cardinality(T) <= Cardinality(S)
         /\ \A c \in Caller \ S : Cardinality(S \cup {c}) = Cardinality(S) + 1
         /\ \A c \in S : Cardinality(S \ {c}) = Cardinality(S) - 1
         /\ \A T \in SUBSET Caller :
              S \cap T = {} => Cardinality(S) + Cardinality(T) <= Cardinality(Caller)
<1>1. IsFiniteSet(Caller) /\ IsFiniteSet(S)
  BY FS_Subset, GatewayAssumption DEF GatewayAssumption
<1>2. Cardinality(S) \in Nat /\ Cardinality(Caller) \in Nat /\ Cardinality(S) <= Cardinality(Caller)
  BY <1>1, FS_CardinalityType, FS_Subset
<1>3. \A T \in SUBSET S : Cardinality(T) <= Cardinality(S)
  BY <1>1, FS_Subset
<1>4. \A c \in Caller \ S : Cardinality(S \cup {c}) = Cardinality(S) + 1
  BY <1>1, FS_AddElement
<1>5. \A c \in S : Cardinality(S \ {c}) = Cardinality(S) - 1
  BY <1>1, FS_RemoveElement
<1>6. ASSUME NEW T \in SUBSET Caller, S \cap T = {}
      PROVE  Cardinality(S) + Cardinality(T) <= Cardinality(Caller)
  <2>1. IsFiniteSet(T) /\ Cardinality(T) \in Nat
    BY <1>1, FS_Subset, FS_CardinalityType
  <2>2. Cardinality(S \cup T) = Cardinality(S) + Cardinality(T)
    <3>1. Cardinality(S \cap T) = 0
      BY <1>6, FS_EmptySet
    <3>2. Cardinality(S \cup T) = Cardinality(S) + Cardinality(T) - Cardinality(S \cap T)
      BY <1>1, <2>1, FS_Union
    <3>. QED
      BY <1>2, <2>1, <3>1, <3>2
  <2>3. S \cup T \in SUBSET Caller /\ Cardinality(S \cup T) <= Cardinality(Caller)
    BY <1>1, FS_Subset
  <2>. QED
    BY <2>2, <2>3
<1>. QED
  BY <1>2, <1>3, <1>4, <1>5, <1>6

\* A step of one caller leaves the others where they are.
LEMMA OthersStay ==
  ASSUME NEW c \in Caller, NEW p \in Provider, UNCHANGED chain,
         \A d \in Caller \ {c} : pc'[d] = pc[d] /\ job'[d] = job[d]
  PROVE  /\ Asking(p)' \ {c} = Asking(p) \ {c} /\ Paying(p)' \ {c} = Paying(p) \ {c}
         /\ Asking(p) \in SUBSET Caller /\ Asking(p)' \in SUBSET Caller
         /\ Paying(p) \in SUBSET Caller /\ Paying(p)' \in SUBSET Caller
         /\ Asking(p) \cap Paying(p) = {} /\ Asking(p)' \cap Paying(p)' = {}
BY DEF Asking, Paying, Chosen

LEMMA BudgetNumbers ==
  ASSUME Inv, NEW p \in Provider
  PROVE  /\ parsed[p] \in Nat /\ spent[p] \in Nat /\ crashes \in Nat /\ losses \in Nat
         /\ Asking(p) \in SUBSET Caller /\ Paying(p) \in SUBSET Caller
BY Numbers DEF Inv, TypeOK, Asking, Paying

LEMMA InitBudget == Init => BudgetInv
<1>. SUFFICES ASSUME Init, NEW p \in Provider PROVE Charged(p) /\ Bounded(p)
  BY DEF Init, BudgetInv
<1>1. Asking(p) = {} /\ Paying(p) = {}
  BY DEF Init, Asking, Paying
<1>2. Cardinality(Asking(p)) = 0 /\ Cardinality(Paying(p)) = 0
  BY <1>1, FS_EmptySet
<1>3. Cardinality(Caller) \in Nat
  BY SetSizes
<1>. QED
  BY <1>2, <1>3, Numbers DEF Init, Charged, Bounded

\* Nobody begins to ask, nobody stops to pay, and nothing is counted.
LEMMA BudgetKept ==
  ASSUME Inv, BudgetInv, UNCHANGED <<redis, spent, parsed, crashes, losses>>,
         \A p \in Provider : Asking(p)' \in SUBSET Asking(p) /\ Paying(p)' = Paying(p)
  PROVE  BudgetInv'
<1>. SUFFICES ASSUME losses = 0, NEW p \in Provider PROVE (Charged(p) /\ Bounded(p))'
  BY DEF BudgetInv
<1>1. Charged(p) /\ Bounded(p)
  BY DEF BudgetInv
<1>2. Charged(p)'
  BY <1>1 DEF Charged
<1>3. /\ Cardinality(Asking(p)') <= Cardinality(Asking(p))
      /\ Cardinality(Asking(p)') \in Nat /\ Cardinality(Asking(p)) \in Nat /\ Cardinality(Caller) \in Nat
  BY BudgetNumbers, SetSizes
<1>4. Bounded(p)'
  BY <1>1, <1>3, BudgetNumbers, Numbers DEF Bounded
<1>. QED
  BY <1>2, <1>4

\* A caller that neither asks nor pays, before or after.
LEMMA BudgetAside ==
  ASSUME Inv, BudgetInv, NEW c \in Caller,
         UNCHANGED <<chain, redis, spent, parsed, crashes, losses>>,
         \A d \in Caller \ {c} : pc'[d] = pc[d] /\ job'[d] = job[d],
         pc[c] \notin {"store", "spend"}, pc'[c] \notin {"post", "store", "spend"}
  PROVE  BudgetInv'
<1>1. ASSUME NEW p \in Provider
      PROVE  Asking(p)' \in SUBSET Asking(p) /\ Paying(p)' = Paying(p)
  BY OthersStay DEF Asking, Paying
<1>. QED
  BY <1>1, BudgetKept

\* The budget is open, and the caller asks.
LEMMA ChooseBudget ==
  ASSUME Inv, BudgetInv, NEW c \in Caller, Choose(c) PROVE BudgetInv'
<1>. USE DEF shared, counts, history
<1>1. CASE ~UnderBudget(c)
  <2>1. \A d \in Caller \ {c} : pc'[d] = pc[d] /\ job'[d] = job[d]
    BY <1>1 DEF Choose, Inv, TypeOK
  <2>. QED
    BY <1>1, <2>1, BudgetAside DEF Choose
<1>2. CASE UnderBudget(c)
  <2>. SUFFICES ASSUME losses = 0, NEW p \in Provider PROVE (Charged(p) /\ Bounded(p))'
    BY DEF BudgetInv, Choose
  <2>1. /\ \A d \in Caller \ {c} : pc'[d] = pc[d] /\ job'[d] = job[d]
        /\ pc[c] = "choose" /\ pc'[c] = "post" /\ job' = job
        /\ UNCHANGED <<chain, redis, spent, parsed, crashes, losses>>
    BY <1>2 DEF Choose, Goto, Inv, TypeOK
  <2>2. Paying(p)' = Paying(p)
    BY <2>1, OthersStay DEF Paying
  <2>3. Charged(p) /\ Bounded(p) /\ redis[c]
    BY DEF BudgetInv
  <2>4. Charged(p)'
    BY <2>1, <2>2, <2>3 DEF Charged
  <2>5. CASE Chosen(c) # p
    <3>1. Asking(p)' = Asking(p)
      BY <2>1, <2>5, OthersStay DEF Asking, Chosen
    <3>. QED
      BY <2>1, <2>3, <2>4, <3>1 DEF Bounded
  <2>6. CASE Chosen(c) = p
    <3>1. spent[p] < Budget
      BY <1>2, <2>3, <2>6 DEF UnderBudget
    <3>2. /\ Cardinality(Asking(p)') + Cardinality(Paying(p)) <= Cardinality(Caller)
          /\ Cardinality(Asking(p)') \in Nat /\ Cardinality(Paying(p)) \in Nat
          /\ Cardinality(Caller) \in Nat
      <4>1. /\ Asking(p)' \in SUBSET Caller /\ Paying(p) \in SUBSET Caller
            /\ Asking(p)' \cap Paying(p) = {}
        BY <2>1, <2>2, OthersStay
      <4>. QED
        BY <4>1, SetSizes
    <3>3. parsed[p] + Cardinality(Asking(p)') <= Budget - 1 + Cardinality(Caller) + crashes
      BY <2>3, <3>1, <3>2, BudgetNumbers, Numbers DEF Charged
    <3>. QED
      BY <2>1, <2>4, <3>3 DEF Bounded
  <2>. QED
    BY <2>5, <2>6
<1>. QED
  BY <1>1, <1>2

\* An answer turns one who asks into one who pays.
LEMMA PostBudget ==
  ASSUME Inv, BudgetInv, NEW c \in Caller, Post(c) PROVE BudgetInv'
<1>1. /\ \A d \in Caller \ {c} : pc'[d] = pc[d] /\ job'[d] = job[d]
      /\ pc[c] = "post" /\ UNCHANGED <<chain, redis, spent, crashes, losses>>
  BY DEF Post, Goto, Inv, TypeOK, shared, counts
<1>2. CASE pc'[c] = "store" /\ job'[c].at = job[c].at
           /\ parsed' = [parsed EXCEPT ![Chosen(c)] = @ + 1]
  <2>. SUFFICES ASSUME losses = 0, NEW p \in Provider PROVE (Charged(p) /\ Bounded(p))'
    BY <1>1 DEF BudgetInv
  <2>1. Charged(p) /\ Bounded(p) /\ Chosen(c)' = Chosen(c)
    BY <1>1, <1>2 DEF BudgetInv, Chosen
  <2>2. CASE Chosen(c) # p
    <3>1. Asking(p)' = Asking(p) /\ Paying(p)' = Paying(p) /\ parsed'[p] = parsed[p]
      <4>1. parsed'[p] = parsed[p]
        BY <1>2, <2>2 DEF Inv, TypeOK
      <4>2. /\ c \notin Asking(p) /\ c \notin Paying(p)
            /\ c \notin Asking(p)' /\ c \notin Paying(p)'
        BY <2>1, <2>2 DEF Asking, Paying
      <4>3. Asking(p)' \ {c} = Asking(p) \ {c} /\ Paying(p)' \ {c} = Paying(p) \ {c}
        BY <1>1, OthersStay
      <4>. QED
        BY <4>1, <4>2, <4>3
    <3>. QED
      BY <1>1, <2>1, <3>1 DEF Charged, Bounded
  <2>3. CASE Chosen(c) = p
    <3>1. parsed'[p] = parsed[p] + 1
      BY <1>2, <2>3 DEF Inv, TypeOK
    <3>2. /\ c \in Asking(p) /\ Asking(p)' = Asking(p) \ {c}
          /\ c \notin Paying(p) /\ Paying(p)' = Paying(p) \cup {c}
      BY <1>1, <1>2, <2>1, <2>3, OthersStay DEF Asking, Paying
    <3>3. /\ Cardinality(Asking(p)') = Cardinality(Asking(p)) - 1
          /\ Cardinality(Paying(p)') = Cardinality(Paying(p)) + 1
          /\ Cardinality(Asking(p)) \in Nat /\ Cardinality(Paying(p)) \in Nat
          /\ Cardinality(Caller) \in Nat
      BY <3>2, BudgetNumbers, SetSizes
    <3>4. Charged(p)'
      BY <1>1, <2>1, <3>1, <3>3, BudgetNumbers DEF Charged
    <3>5. Bounded(p)'
      BY <1>1, <2>1, <3>1, <3>3, BudgetNumbers, Numbers DEF Bounded
    <3>. QED
      BY <3>4, <3>5
  <2>. QED
    BY <2>2, <2>3
<1>3. CASE /\ pc'[c] = "post" => job'[c].at = job[c].at
           /\ pc'[c] \in {"post", "choose"} /\ UNCHANGED parsed
  <2>1. ASSUME NEW p \in Provider
        PROVE  Asking(p)' \in SUBSET Asking(p) /\ Paying(p)' = Paying(p)
    BY <1>1, <1>3, OthersStay DEF Asking, Paying, Chosen
  <2>. QED
    BY <1>1, <1>3, <2>1, BudgetKept
<1>4. PICK reply \in Reply :
        IF reply \in Content
        THEN /\ Goto(c, "store") /\ job' = [job EXCEPT ![c].reply = reply]
             /\ parsed' = [parsed EXCEPT ![Chosen(c)] = @ + 1]
        ELSE /\ job' = [job EXCEPT ![c] = After(c, reply)]
             /\ Goto(c, IF After(c, reply).at = job[c].at /\ reply \notin Uncaught
                        THEN "post" ELSE "choose")
             /\ UNCHANGED parsed
  BY DEF Post, history
<1>5. pc \in [Caller -> {"idle", "lookup", "choose", "post", "store", "spend"}]
      /\ job \in [Caller -> Job]
  BY DEF Inv, TypeOK, Job, Errors
<1>6. CASE reply \in Content
  <2>1. job'[c] = [job[c] EXCEPT !.reply = reply] /\ job[c] \in Job
    BY <1>4, <1>5, <1>6
  <2>2. job'[c].at = job[c].at
    BY <2>1 DEF Job
  <2>. QED
    BY <1>2, <1>4, <1>5, <1>6, <2>2 DEF Goto
<1>7. CASE reply \notin Content
  BY <1>3, <1>4, <1>5, <1>7 DEF Goto
<1>. QED
  BY <1>6, <1>7

\* The answer is cached, then charged.
LEMMA StoreBudget ==
  ASSUME Inv, BudgetInv, NEW c \in Caller, Store(c) PROVE BudgetInv'
<1>1. /\ \A d \in Caller \ {c} : pc'[d] = pc[d] /\ job'[d] = job[d]
      /\ pc[c] = "store" /\ pc'[c] = "spend"
      /\ UNCHANGED <<chain, redis, spent, parsed, crashes, losses, job>>
  BY DEF Store, Goto, Inv, TypeOK, counts, history
<1>2. ASSUME NEW p \in Provider
      PROVE  Asking(p)' \in SUBSET Asking(p) /\ Paying(p)' = Paying(p)
  BY <1>1, OthersStay DEF Asking, Paying, Chosen
<1>. QED
  BY <1>1, <1>2, BudgetKept

\* A caller stops to pay, charged or dead.
LEMMA PaidBudget ==
  ASSUME Inv, BudgetInv, NEW c \in Caller, UNCHANGED <<chain, redis, parsed, losses>>,
         \A d \in Caller \ {c} : pc'[d] = pc[d] /\ job'[d] = job[d],
         pc'[c] \notin {"post", "store", "spend"},
         \/ crashes' = crashes + 1 /\ UNCHANGED spent
         \/ pc[c] = "spend" /\ UNCHANGED crashes /\ (redis[c] => spent' = SpendOne(c))
  PROVE  \A p \in Provider : losses = 0 => (Charged(p) /\ Bounded(p))'
<1>. SUFFICES ASSUME losses = 0, NEW p \in Provider PROVE (Charged(p) /\ Bounded(p))'
  OBVIOUS
<1>1. Charged(p) /\ Bounded(p) /\ redis[c]
  BY DEF BudgetInv
<1>2. Asking(p)' = Asking(p) \ {c} /\ Paying(p)' = Paying(p) \ {c}
  BY OthersStay DEF Asking, Paying
<1>3. /\ Cardinality(Asking(p)') <= Cardinality(Asking(p))
      /\ Cardinality(Paying(p)') = Cardinality(Paying(p)) - (IF c \in Paying(p) THEN 1 ELSE 0)
      /\ Cardinality(Asking(p)') \in Nat /\ Cardinality(Asking(p)) \in Nat
      /\ Cardinality(Paying(p)) \in Nat /\ Cardinality(Caller) \in Nat
  <2>1. Asking(p) \ {c} \in SUBSET Asking(p) /\ (c \notin Paying(p) => Paying(p) \ {c} = Paying(p))
    OBVIOUS
  <2>. QED
    BY <1>2, <2>1, BudgetNumbers, SetSizes
<1>4. CASE crashes' = crashes + 1 /\ UNCHANGED spent
  BY <1>1, <1>3, <1>4, BudgetNumbers, Numbers DEF Charged, Bounded
<1>5. CASE pc[c] = "spend" /\ UNCHANGED crashes /\ spent' = SpendOne(c)
  <2>1. spent'[p] = spent[p] + (IF c \in Paying(p) THEN 1 ELSE 0)
    BY <1>5 DEF SpendOne, Paying, Inv, TypeOK
  <2>2. Charged(p)'
    BY <1>1, <1>3, <1>5, <2>1, BudgetNumbers DEF Charged
  <2>3. Bounded(p)'
    BY <1>1, <1>3, <1>5, BudgetNumbers, Numbers DEF Bounded
  <2>. QED
    BY <2>2, <2>3
<1>. QED
  BY <1>1, <1>4, <1>5

LEMMA SpendBudget ==
  ASSUME Inv, BudgetInv, NEW c \in Caller, Spend(c) PROVE BudgetInv'
<1>1. /\ \A d \in Caller \ {c} : pc'[d] = pc[d] /\ job'[d] = job[d]
      /\ pc'[c] \notin {"post", "store", "spend"}
  BY DEF Spend, Judge, End, Goto, Inv, TypeOK
<1>2. \A p \in Provider : losses = 0 => (Charged(p) /\ Bounded(p))'
  BY <1>1, PaidBudget DEF Spend, counts, history
<1>. QED
  BY <1>2 DEF BudgetInv, Spend, counts

LEMMA CrashBudget ==
  ASSUME Inv, BudgetInv, NEW c \in Caller, Crash(c) PROVE BudgetInv'
<1>1. CASE losses = 0
  <2>1. redis' = redis
    BY <1>1 DEF Crash, BudgetInv, Inv, TypeOK
  <2>2. /\ \A d \in Caller \ {c} : pc'[d] = pc[d] /\ job'[d] = job[d]
        /\ pc'[c] \notin {"post", "store", "spend"}
    BY DEF Crash, Goto, Inv, TypeOK
  <2>3. \A p \in Provider : losses = 0 => (Charged(p) /\ Bounded(p))'
    BY <2>1, <2>2, PaidBudget DEF Crash, shared, history
  <2>. QED
    BY <2>1, <2>3 DEF BudgetInv, Crash
<1>2. CASE losses # 0
  BY <1>2 DEF BudgetInv, Crash
<1>. QED
  BY <1>1, <1>2

\* At midnight nothing is spent and no answer is counted.
LEMMA MidnightBudget ==
  ASSUME Inv, BudgetInv, Midnight PROVE BudgetInv'
<1>. SUFFICES ASSUME losses = 0, NEW p \in Provider PROVE (Charged(p) /\ Bounded(p))'
  BY DEF BudgetInv, Midnight
<1>1. Asking(p)' = Asking(p) /\ Paying(p)' = Paying(p)
  BY DEF Midnight, Asking, Paying, Chosen
<1>2. /\ Cardinality(Asking(p)) <= Cardinality(Caller) /\ Cardinality(Asking(p)) \in Nat
      /\ Cardinality(Paying(p)) \in Nat /\ Cardinality(Caller) \in Nat
  BY BudgetNumbers, SetSizes
<1>. QED
  BY <1>1, <1>2, BudgetNumbers, Numbers DEF Midnight, Charged, Bounded

LEMMA NextBudget == Inv /\ BudgetInv /\ [Next]_vars => BudgetInv'
<1>. SUFFICES ASSUME Inv, BudgetInv, [Next]_vars PROVE BudgetInv'
  OBVIOUS
<1>. USE DEF shared, counts, history
<1>1. ASSUME NEW c \in Caller, Analyze(c) \/ Lookup(c) \/ GiveUp(c) PROVE BudgetInv'
  <2>1. /\ \A d \in Caller \ {c} : pc'[d] = pc[d] /\ job'[d] = job[d]
        /\ pc[c] \notin {"store", "spend"} /\ pc'[c] \notin {"post", "store", "spend"}
    BY <1>1 DEF Analyze, Lookup, GiveUp, Judge, End, Goto, Inv, TypeOK
  <2>2. UNCHANGED <<chain, redis, spent, parsed, crashes, losses>>
    BY <1>1 DEF Analyze, Lookup, GiveUp
  <2>. QED
    BY <2>1, <2>2, BudgetAside
<1>2. ASSUME NEW c \in Caller, Step(c) PROVE BudgetInv'
  BY <1>1, <1>2, ChooseBudget, PostBudget, StoreBudget, SpendBudget DEF Step
<1>3. ASSUME NEW c \in Caller, LoseRedis(c) PROVE BudgetInv'
  BY <1>3, Numbers DEF LoseRedis, BudgetInv, Inv, TypeOK
<1>4. CASE Expire \/ UNCHANGED vars
  <2>1. UNCHANGED <<chain, pc, job, redis, spent, parsed, crashes, losses>>
    BY <1>4 DEF Expire, vars
  <2>2. ASSUME NEW p \in Provider
        PROVE  Asking(p)' \in SUBSET Asking(p) /\ Paying(p)' = Paying(p)
    BY <2>1 DEF Asking, Paying, Chosen
  <2>. QED
    BY <2>1, <2>2, BudgetKept
<1>. QED
  BY <1>1, <1>2, <1>3, <1>4, CrashBudget, MidnightBudget DEF Next, Idle

LEMMA AlwaysBudgetInv == Spec => []BudgetInv
BY AlwaysInv, InitBudget, NextBudget, PTL DEF Spec

\* Who still asks a provider whose budget has run out found it open, and was not the
\* one whose charge closed it.
Burning(p) ==
  /\ Budget <= spent[p] => burnt[p] + Cardinality(Asking(p)) < Cardinality(Caller)
  /\ spent[p] < Budget => burnt[p] = 0
BurnInv == losses = 0 => \A p \in Provider : Burning(p)

LEMMA BurnNumbers ==
  ASSUME Inv, NEW p \in Provider
  PROVE  /\ burnt[p] \in Nat /\ spent[p] \in Nat /\ Budget \in Nat \ {0}
         /\ Cardinality(Asking(p)) \in Nat /\ Cardinality(Caller) \in Nat
BY BudgetNumbers, SetSizes, Numbers DEF Inv, TypeOK

\* A caller that asks no more, and nothing is charged or answered.
LEMMA BurnAside ==
  ASSUME Inv, BurnInv, NEW c \in Caller, UNCHANGED <<chain, spent, burnt, losses>>,
         \A d \in Caller \ {c} : pc'[d] = pc[d] /\ job'[d] = job[d],
         pc'[c] = "post" => pc[c] = "post" /\ job'[c].at = job[c].at
  PROVE  BurnInv'
<1>. SUFFICES ASSUME losses = 0, NEW p \in Provider PROVE Burning(p)'
  BY DEF BurnInv
<1>1. Asking(p)' \in SUBSET Asking(p)
  BY DEF Asking, Chosen
<1>2. Cardinality(Asking(p)') <= Cardinality(Asking(p)) /\ Cardinality(Asking(p)') \in Nat
  BY <1>1, BudgetNumbers, SetSizes
<1>. QED
  BY <1>2, BurnNumbers DEF BurnInv, Burning

\* One more asks, of a provider whose budget is open.
LEMMA ChooseBurn ==
  ASSUME Inv, BudgetInv, BurnInv, NEW c \in Caller, Choose(c) PROVE BurnInv'
<1>1. /\ \A d \in Caller \ {c} : pc'[d] = pc[d] /\ job'[d] = job[d]
      /\ UNCHANGED <<chain, spent, burnt, losses>> /\ pc[c] = "choose"
  BY DEF Choose, Goto, Inv, TypeOK, shared, counts, history
<1>2. CASE ~UnderBudget(c)
  BY <1>1, <1>2, BurnAside DEF Choose
<1>3. CASE UnderBudget(c)
  <2>. SUFFICES ASSUME losses = 0, NEW p \in Provider PROVE Burning(p)'
    BY <1>1 DEF BurnInv
  <2>1. Burning(p) /\ redis[c]
    BY DEF BudgetInv, BurnInv
  <2>2. job' = job
    BY <1>3 DEF Choose
  <2>3. CASE Chosen(c) = p
    BY <1>1, <1>3, <2>1, <2>3, BurnNumbers DEF UnderBudget, Burning
  <2>4. CASE Chosen(c) # p
    <3>1. Asking(p)' = Asking(p)
      BY <1>1, <2>2, <2>4 DEF Asking, Chosen
    <3>. QED
      BY <1>1, <2>1, <3>1 DEF Burning
  <2>. QED
    BY <2>3, <2>4
<1>. QED
  BY <1>2, <1>3

\* An answer, of any sort, is the caller's last for this call.
LEMMA AnswerBurns ==
  ASSUME Inv, BurnInv, NEW c \in Caller, UNCHANGED <<chain, spent, losses>>,
         \A d \in Caller \ {c} : pc'[d] = pc[d] /\ job'[d] = job[d],
         pc[c] = "post", pc'[c] # "post", Burn(c)
  PROVE  BurnInv'
<1>. SUFFICES ASSUME losses = 0, NEW p \in Provider PROVE Burning(p)'
  BY DEF BurnInv
<1>1. Burning(p) /\ Asking(p)' = Asking(p) \ {c}
  BY OthersStay DEF BurnInv, Asking
<1>2. CASE Chosen(c) = p
  <2>1. burnt'[p] = IF spent[p] < Budget THEN burnt[p] ELSE burnt[p] + 1
    BY <1>2 DEF Burn, Inv, TypeOK
  <2>2. Cardinality(Asking(p)') = Cardinality(Asking(p)) - 1
    <3>1. c \in Asking(p)
      BY <1>2 DEF Asking
    <3>. QED
      BY <1>1, <3>1, BudgetNumbers, SetSizes
  <2>. QED
    BY <1>1, <2>1, <2>2, BurnNumbers DEF Burning
<1>3. CASE Chosen(c) # p
  <2>1. burnt'[p] = burnt[p]
    BY <1>3 DEF Burn, Inv, TypeOK
  <2>2. Asking(p)' = Asking(p)
    BY <1>1, <1>3 DEF Asking
  <2>. QED
    BY <1>1, <2>1, <2>2 DEF Burning
<1>. QED
  BY <1>2, <1>3

LEMMA PostBurn ==
  ASSUME Inv, BurnInv, NEW c \in Caller, Post(c) PROVE BurnInv'
<1>1. /\ \A d \in Caller \ {c} : pc'[d] = pc[d] /\ job'[d] = job[d]
      /\ pc[c] = "post" /\ UNCHANGED <<chain, spent, losses>>
  BY DEF Post, Goto, Inv, TypeOK, shared, counts
<1>2. job[c] \in Job /\ pc \in [Caller -> {"idle", "lookup", "choose", "post", "store", "spend"}]
  BY DEF Inv, TypeOK, Job, Errors
<1>3. PICK reply \in Reply :
        IF reply \in Content THEN Goto(c, "store") /\ Burn(c)
        ELSE /\ job' = [job EXCEPT ![c] = After(c, reply)]
             /\ Goto(c, IF After(c, reply).at = job[c].at /\ reply \notin Uncaught
                        THEN "post" ELSE "choose")
             /\ IF reply \in Unparsable THEN Burn(c) ELSE UNCHANGED burnt
  BY DEF Post
<1>4. CASE reply \in Content
  BY <1>1, <1>2, <1>3, <1>4, AnswerBurns DEF Goto
<1>5. CASE reply \in Unparsable
  <2>1. reply \notin Content
    BY <1>5 DEF Unparsable, Content
  <2>2. reply \in Uncaught \/ After(c, reply).at # job[c].at
    <3>1. reply \notin Uncaught => After(c, reply) = Fail(c, "failed")
      BY <1>5 DEF After, Unparsable
    <3>2. Fail(c, "failed").at = job[c].at + 1 /\ job[c].at \in Int
      BY <1>2 DEF Fail, Job
    <3>. QED
      BY <3>1, <3>2
  <2>3. pc'[c] = "choose"
    BY <1>2, <1>3, <2>1, <2>2 DEF Goto
  <2>. QED
    BY <1>1, <1>3, <1>5, <2>1, <2>3, AnswerBurns
<1>6. CASE reply \notin Content \cup Unparsable
  <2>1. job'[c] = After(c, reply) /\ UNCHANGED burnt
    BY <1>3, <1>6 DEF Inv, TypeOK
  <2>2. pc'[c] = "post" => job'[c].at = job[c].at
    BY <1>2, <1>3, <1>6, <2>1 DEF Goto
  <2>. QED
    BY <1>1, <2>1, <2>2, BurnAside
<1>. QED
  BY <1>4, <1>5, <1>6

\* The charge that closes the budget is not one of those who still ask.
LEMMA SpendBurn ==
  ASSUME Inv, BurnInv, NEW c \in Caller, Spend(c) PROVE BurnInv'
<1>. SUFFICES ASSUME losses = 0, NEW p \in Provider PROVE Burning(p)'
  BY DEF BurnInv, Spend, counts
<1>1. /\ \A d \in Caller \ {c} : pc'[d] = pc[d] /\ job'[d] = job[d]
      /\ pc[c] = "spend" /\ pc'[c] # "post" /\ UNCHANGED <<chain, burnt>>
  BY DEF Spend, Judge, End, Goto, Inv, TypeOK, history
<1>2. Burning(p) /\ Asking(p)' = Asking(p) /\ c \notin Asking(p)
  BY <1>1 DEF BurnInv, Asking, Chosen
<1>3. spent'[p] \in {spent[p], spent[p] + 1}
  BY DEF Spend, SpendOne, Inv, TypeOK
<1>4. Cardinality(Asking(p)) < Cardinality(Caller)
  <2>1. Cardinality(Asking(p) \cup {c}) = Cardinality(Asking(p)) + 1
    BY <1>2, BudgetNumbers, SetSizes
  <2>2. Asking(p) \cup {c} \in SUBSET Caller
    BY BudgetNumbers
  <2>3. Cardinality(Asking(p) \cup {c}) <= Cardinality(Caller)
    BY <2>2, SetSizes
  <2>. QED
    BY <2>1, <2>3, BurnNumbers
<1>. QED
  BY <1>1, <1>2, <1>3, <1>4, BurnNumbers DEF Burning

LEMMA NextBurn == Inv /\ BudgetInv /\ BurnInv /\ [Next]_vars => BurnInv'
<1>. SUFFICES ASSUME Inv, BudgetInv, BurnInv, [Next]_vars PROVE BurnInv'
  OBVIOUS
<1>1. ASSUME NEW c \in Caller, Analyze(c) \/ Lookup(c) \/ GiveUp(c) \/ Store(c)
      PROVE  BurnInv'
  <2>1. /\ \A d \in Caller \ {c} : pc'[d] = pc[d] /\ job'[d] = job[d]
        /\ pc'[c] # "post"
    BY <1>1 DEF Analyze, Lookup, GiveUp, Store, Judge, End, Goto, Inv, TypeOK
  <2>2. UNCHANGED <<chain, spent, burnt, losses>>
    BY <1>1 DEF Analyze, Lookup, GiveUp, Store, shared, counts, history
  <2>. QED
    BY <2>1, <2>2, BurnAside
<1>2. ASSUME NEW c \in Caller, Step(c) PROVE BurnInv'
  BY <1>1, <1>2, ChooseBurn, PostBurn, SpendBurn DEF Step
<1>3. ASSUME NEW c \in Caller, LoseRedis(c) PROVE BurnInv'
  BY <1>3, Numbers DEF LoseRedis, BurnInv, Inv, TypeOK
<1>4. ASSUME NEW c \in Caller, Crash(c) PROVE BurnInv'
  <2>1. /\ \A d \in Caller \ {c} : pc'[d] = pc[d] /\ job'[d] = job[d]
        /\ pc'[c] # "post" /\ UNCHANGED <<chain, spent, burnt, losses>>
    BY <1>4 DEF Crash, Goto, Inv, TypeOK, shared, history
  <2>. QED
    BY <2>1, BurnAside
<1>5. CASE Midnight
  BY <1>5, Numbers DEF Midnight, BurnInv, Burning
<1>6. CASE Expire \/ UNCHANGED vars
  <2>1. UNCHANGED <<chain, pc, job, spent, burnt, losses>>
    BY <1>6 DEF Expire, vars, shared, counts, history
  <2>. QED
    BY <2>1 DEF BurnInv, Burning, Asking, Chosen
<1>. QED
  BY <1>1, <1>2, <1>3, <1>4, <1>5, <1>6 DEF Next, Idle

\* Beyond a provider's budget a day brings at most one parsed answer per other caller
\* and one per crash; and once the budget has run out, at most one answer of any sort
\* per other caller; for any budget, chain and number of attempts, across midnight.
\* (chat_json, _record_budget_spend.)
THEOREM BudgetHoldsAlways == Spec => []BudgetHolds
<1>1. Inv /\ BudgetInv /\ BurnInv => BudgetHolds
  <2>. SUFFICES ASSUME Inv, BudgetInv, BurnInv, losses = 0, NEW p \in Provider
                PROVE  /\ parsed[p] < Budget + Cardinality(Caller) + crashes
                       /\ burnt[p] < Cardinality(Caller)
    BY DEF BudgetHolds
  <2>1. Cardinality(Asking(p)) \in Nat /\ Cardinality(Caller) \in Nat \ {0}
    BY BudgetNumbers, SetSizes, FS_EmptySet, GatewayAssumption DEF GatewayAssumption
  <2>2. parsed[p] < Budget + Cardinality(Caller) + crashes
    BY <2>1, BudgetNumbers, Numbers DEF BudgetInv, Bounded
  <2>3. burnt[p] < Cardinality(Caller)
    BY <2>1, BurnNumbers DEF BurnInv, Burning
  <2>. QED
    BY <2>2, <2>3
<1>2. Init => BurnInv
  BY Numbers DEF Init, BurnInv, Burning
<1>. QED
  BY <1>1, <1>2, NextBurn, AlwaysBudgetInv, AlwaysInv, PTL DEF Spec

----------------------------------------------------------------------------
(* The cache *)

\* What a caller paid for a key: nothing but for crashes while it asks for it, or
\* while there is no entry and it is not about to write one.
PaidFor(c, k) ==
  /\ asked[c][k] <= 1 + crashes
  /\ pc[c] \in {"choose", "post"} /\ KeyOf(c) = k => asked[c][k] <= crashes
  /\ cache[k] = "none" /\ ~(pc[c] = "store" /\ KeyOf(c) = k) => asked[c][k] <= crashes

AskedInv == losses = 0 => \A c \in Caller, k \in Key : PaidFor(c, k)

\* The key of a repair is never that of the answer it repairs.
LEMMA NeverBusted == ASSUME NEW c \in Caller PROVE ~Busted(c)
BY DEF Busted, KeyOf

\* A failure leaves the question and the round.
LEMMA FailKey ==
  ASSUME Inv, NEW c \in Caller, NEW why
  PROVE  /\ Fail(c, why).question = job[c].question
         /\ Fail(c, why).round = job[c].round
<1>1. job[c] \in Job
  BY DEF Inv, TypeOK, Job, Errors
<1>2. ASSUME NEW j \in Job, NEW a, NEW e
      PROVE  /\ [j EXCEPT !.errors = e, !.at = a, !.tries = 0].question = j.question
             /\ [j EXCEPT !.errors = e, !.at = a, !.tries = 0].round = j.round
  BY DEF Job
<1>. QED
  BY <1>1, <1>2 DEF Fail

LEMMA AfterKey ==
  ASSUME Inv, NEW c \in Caller, NEW reply
  PROVE  /\ After(c, reply).question = job[c].question
         /\ After(c, reply).round = job[c].round
<1>1. job[c] \in Job
  BY DEF Inv, TypeOK, Job, Errors
<1>2. /\ [job[c] EXCEPT !.reply = reply].question = job[c].question
      /\ [job[c] EXCEPT !.reply = reply].round = job[c].round
      /\ [job[c] EXCEPT !.tries = @ + 1].question = job[c].question
      /\ [job[c] EXCEPT !.tries = @ + 1].round = job[c].round
  BY <1>1 DEF Job
<1>. QED
  BY <1>2, FailKey DEF After

\* A step of one caller which empties no entry.
LEMMA AskedAside ==
  ASSUME Inv, AskedInv, NEW c \in Caller,
         losses' = losses, crashes' \in {crashes, crashes + 1},
         \A d \in Caller \ {c} : pc'[d] = pc[d] /\ job'[d] = job[d] /\ asked'[d] = asked[d],
         \A k \in Key : cache'[k] = "none" => cache[k] = "none",
         losses = 0 => \A k \in Key : PaidFor(c, k)'
  PROVE  AskedInv'
<1>. SUFFICES ASSUME losses = 0, NEW d \in Caller, NEW k \in Key, d # c PROVE PaidFor(d, k)'
  BY DEF AskedInv
<1>1. asked[d][k] \in Nat /\ crashes \in Nat /\ KeyOf(d)' = KeyOf(d)
  BY Numbers DEF Inv, TypeOK, KeyOf
<1>. QED
  BY <1>1 DEF AskedInv, PaidFor

\* A caller that neither asks nor writes an entry, before or after.
LEMMA AskedIdle ==
  ASSUME Inv, AskedInv, NEW c \in Caller,
         UNCHANGED <<cache, asked, losses, crashes>>,
         \A d \in Caller \ {c} : pc'[d] = pc[d] /\ job'[d] = job[d],
         pc[c] # "store", pc'[c] \notin {"choose", "post", "store"}
  PROVE  AskedInv'
<1>1. losses = 0 => \A k \in Key : PaidFor(c, k)'
  BY DEF AskedInv, PaidFor
<1>. QED
  BY <1>1, AskedAside

LEMMA LookupAsked ==
  ASSUME Inv, AskedInv, BudgetInv, NEW c \in Caller, Lookup(c) PROVE AskedInv'
<1>. USE DEF shared, counts, history
<1>1. pc[c] = "lookup" /\ UNCHANGED <<cache, asked, losses, crashes>>
  BY NeverBusted DEF Lookup
<1>2. CASE Judge(c, Cached(c))
  <2>1. /\ \A d \in Caller \ {c} : pc'[d] = pc[d] /\ job'[d] = job[d]
        /\ pc'[c] \notin {"choose", "post", "store"}
    BY <1>2 DEF Judge, End, Goto, Inv, TypeOK
  <2>. QED
    BY <1>1, <2>1, AskedIdle
<1>3. CASE Cached(c) = "none" /\ Goto(c, "choose") /\ UNCHANGED job
  <2>1. losses = 0 => cache[KeyOf(c)] = "none"
    BY <1>3, NeverBusted DEF Cached, BudgetInv
  <2>2. /\ \A d \in Caller \ {c} : pc'[d] = pc[d] /\ job'[d] = job[d]
        /\ pc'[c] = "choose" /\ KeyOf(c)' = KeyOf(c)
    BY <1>3 DEF Goto, KeyOf, Inv, TypeOK
  <2>3. losses = 0 => \A k \in Key : PaidFor(c, k)'
    BY <1>1, <2>1, <2>2 DEF AskedInv, PaidFor
  <2>. QED
    BY <1>1, <2>2, <2>3, AskedAside
<1>. QED
  BY <1>2, <1>3 DEF Lookup

LEMMA ChooseAsked ==
  ASSUME Inv, AskedInv, NEW c \in Caller, Choose(c) PROVE AskedInv'
<1>. USE DEF shared, counts, history
<1>1. /\ pc[c] = "choose" /\ pc'[c] \in {"choose", "post"}
      /\ \A d \in Caller \ {c} : pc'[d] = pc[d] /\ job'[d] = job[d]
      /\ UNCHANGED <<cache, asked, losses, crashes>>
  BY DEF Choose, Goto, Inv, TypeOK
<1>2. KeyOf(c)' = KeyOf(c)
  BY FailKey DEF Choose, KeyOf, Inv, TypeOK
<1>3. losses = 0 => \A k \in Key : PaidFor(c, k)'
  BY <1>1, <1>2 DEF AskedInv, PaidFor
<1>. QED
  BY <1>1, <1>3, AskedAside

LEMMA PostAsked ==
  ASSUME Inv, AskedInv, NEW c \in Caller, Post(c) PROVE AskedInv'
<1>. USE DEF shared, counts, history
<1>1. /\ pc[c] = "post" /\ UNCHANGED <<cache, losses, crashes>>
      /\ \A d \in Caller \ {c} : pc'[d] = pc[d] /\ job'[d] = job[d] /\ asked'[d] = asked[d]
  BY DEF Post, Goto, Inv, TypeOK
<1>2. PICK reply \in Reply :
        IF reply \in Content
        THEN /\ Goto(c, "store") /\ job' = [job EXCEPT ![c].reply = reply]
             /\ asked' = [asked EXCEPT ![c][KeyOf(c)] = @ + 1]
        ELSE /\ job' = [job EXCEPT ![c] = After(c, reply)]
             /\ Goto(c, IF After(c, reply).at = job[c].at /\ reply \notin Uncaught
                        THEN "post" ELSE "choose")
             /\ UNCHANGED asked
  BY DEF Post
<1>3. CASE reply \in Content
  <2>1. job'[c] = [job[c] EXCEPT !.reply = reply] /\ job[c] \in Job /\ pc'[c] = "store"
    BY <1>2, <1>3 DEF Inv, TypeOK, Job, Errors, Goto
  <2>2. KeyOf(c)' = KeyOf(c)
    BY <2>1 DEF Job, KeyOf
  <2>3. ASSUME NEW k \in Key
        PROVE  /\ asked[c][k] \in Nat /\ crashes \in Nat
               /\ asked'[c][k] = IF k = KeyOf(c) THEN asked[c][k] + 1 ELSE asked[c][k]
    BY <1>2, <1>3, Numbers DEF Inv, TypeOK
  <2>4. losses = 0 => \A k \in Key : PaidFor(c, k)'
    BY <1>1, <2>1, <2>2, <2>3 DEF AskedInv, PaidFor
  <2>. QED
    BY <1>1, <2>4, AskedAside
<1>4. CASE reply \notin Content
  <2>1. pc'[c] \in {"post", "choose"} /\ UNCHANGED asked /\ job'[c] = After(c, reply)
    BY <1>2, <1>4 DEF Goto, Inv, TypeOK
  <2>2. KeyOf(c)' = KeyOf(c)
    BY <2>1, AfterKey DEF KeyOf
  <2>3. losses = 0 => \A k \in Key : PaidFor(c, k)'
    BY <1>1, <2>1, <2>2 DEF AskedInv, PaidFor
  <2>. QED
    BY <1>1, <2>3, AskedAside
<1>. QED
  BY <1>3, <1>4

LEMMA StoreAsked ==
  ASSUME Inv, AskedInv, BudgetInv, NEW c \in Caller, Store(c) PROVE AskedInv'
<1>. USE DEF counts, history
<1>1. /\ pc[c] = "store" /\ pc'[c] = "spend" /\ UNCHANGED <<asked, losses, crashes, job>>
      /\ \A d \in Caller \ {c} : pc'[d] = pc[d] /\ job'[d] = job[d] /\ asked'[d] = asked[d]
      /\ cache' = IF redis[c] THEN CacheWrite(c) ELSE cache
  BY DEF Store, Goto, Inv, TypeOK
<1>2. job[c].reply \in Content /\ KeyOf(c) \in Key
  BY <1>1, KeyOfKey DEF Inv, HasAnswer
<1>3. \A k \in Key : cache'[k] = IF redis[c] /\ k = KeyOf(c) THEN job[c].reply ELSE cache[k]
  BY <1>1, <1>2 DEF CacheWrite, Inv, TypeOK
<1>4. \A k \in Key : cache'[k] = "none" => cache[k] = "none"
  BY <1>2, <1>3 DEF Content
<1>5. losses = 0 => \A k \in Key : PaidFor(c, k)'
  BY <1>1, <1>2, <1>3 DEF AskedInv, PaidFor, BudgetInv, Content
<1>. QED
  BY <1>1, <1>4, <1>5, AskedAside

LEMMA CrashAsked ==
  ASSUME Inv, AskedInv, NEW c \in Caller, Crash(c) PROVE AskedInv'
<1>1. /\ pc'[c] = "idle" /\ crashes' = crashes + 1 /\ UNCHANGED <<cache, asked, losses>>
      /\ \A d \in Caller \ {c} : pc'[d] = pc[d] /\ job'[d] = job[d] /\ asked'[d] = asked[d]
  BY DEF Crash, Goto, shared, history, Inv, TypeOK
<1>2. \A k \in Key : asked[c][k] \in Nat /\ crashes \in Nat
  BY Numbers DEF Inv, TypeOK
<1>3. losses = 0 => \A k \in Key : PaidFor(c, k)'
  BY <1>1, <1>2 DEF AskedInv, PaidFor
<1>. QED
  BY <1>1, <1>3, AskedAside

LEMMA ExpireAsked ==
  ASSUME Inv, AskedInv, Expire PROVE AskedInv'
<1>1. PICK e \in Key : /\ cache' = [cache EXCEPT ![e] = "none"]
                       /\ asked' = [c \in Caller |-> [asked[c] EXCEPT ![e] = 0]]
  BY DEF Expire
<1>. SUFFICES ASSUME losses = 0, NEW c \in Caller, NEW k \in Key PROVE PaidFor(c, k)'
  BY DEF AskedInv, Expire
<1>2. /\ asked'[c][k] = IF k = e THEN 0 ELSE asked[c][k]
      /\ cache'[k] = IF k = e THEN "none" ELSE cache[k]
      /\ crashes \in Nat /\ UNCHANGED crashes /\ pc' = pc /\ KeyOf(c)' = KeyOf(c)
  BY <1>1, Numbers DEF Expire, Inv, TypeOK, KeyOf
<1>. QED
  BY <1>2 DEF AskedInv, PaidFor

LEMMA InitAsked == Init => AskedInv
BY DEF Init, AskedInv, PaidFor

LEMMA NextAsked == Inv /\ BudgetInv /\ AskedInv /\ [Next]_vars => AskedInv'
<1>. SUFFICES ASSUME Inv, BudgetInv, AskedInv, [Next]_vars PROVE AskedInv'
  OBVIOUS
<1>. USE DEF shared, counts, history
<1>1. ASSUME NEW c \in Caller, Analyze(c) \/ GiveUp(c) \/ Spend(c) PROVE AskedInv'
  <2>1. /\ \A d \in Caller \ {c} : pc'[d] = pc[d] /\ job'[d] = job[d]
        /\ pc[c] # "store" /\ pc'[c] \notin {"choose", "post", "store"}
    BY <1>1 DEF Analyze, GiveUp, Spend, Judge, End, Goto, Inv, TypeOK
  <2>2. UNCHANGED <<cache, asked, losses, crashes>>
    BY <1>1 DEF Analyze, GiveUp, Spend
  <2>. QED
    BY <2>1, <2>2, AskedIdle
<1>2. ASSUME NEW c \in Caller, Step(c) PROVE AskedInv'
  BY <1>1, <1>2, LookupAsked, ChooseAsked, PostAsked, StoreAsked DEF Step
<1>3. ASSUME NEW c \in Caller, LoseRedis(c) PROVE AskedInv'
  BY <1>3, Numbers DEF LoseRedis, AskedInv, Inv, TypeOK
<1>4. CASE Midnight \/ UNCHANGED vars
  <2>1. UNCHANGED <<cache, asked, losses, crashes, pc, job>>
    BY <1>4 DEF Midnight, vars
  <2>. QED
    BY <2>1 DEF AskedInv, PaidFor, KeyOf
<1>. QED
  BY <1>1, <1>2, <1>3, <1>4, CrashAsked, ExpireAsked DEF Next, Idle

\* While Redis is there and an entry lives, each caller gets at most one answer that
\* parses to a prompt, and one more per crash before the entry is written, however
\* callers overlap (chat_json: the lookup; _call_once: _cache_write).
THEOREM AskedOnceAlways == Spec => []AskedOnce
<1>1. Inv /\ AskedInv => AskedOnce
  BY DEF AskedInv, PaidFor, AskedOnce
<1>2. Spec => []AskedInv
  BY AlwaysInv, AlwaysBudgetInv, InitAsked, NextAsked, PTL DEF Spec
<1>. QED
  BY <1>1, <1>2, AlwaysInv, PTL

----------------------------------------------------------------------------
(* The walk along the chain *)

\* The providers recorded as refused or failed are those before the next one.
Walked(j) == {e[1] : e \in j.errors} = {chain[i] : i \in 1 .. j.at - 1}

\* Until an answer there is none, but for an error nobody catches.
Unanswered(l, j) == l \notin {"store", "spend"} => j.reply \in {"none"} \cup Uncaught

WalkInv == \A c \in Caller : Walked(job[c]) /\ Unanswered(pc[c], job[c])

LEMMA ChatWalked ==
  ASSUME NEW q, NEW r
  PROVE  Walked(Chat(q, r)) /\ \A l : Unanswered(l, Chat(q, r))
<1>1. Chat(q, r).errors = {} /\ Chat(q, r).at = 1 /\ Chat(q, r).reply = "none"
  BY DEF Chat
<1>2. 1 .. 1 - 1 = {}
  OBVIOUS
<1>. QED
  BY <1>1, <1>2 DEF Walked, Unanswered

\* A failure records the provider that was asked.
LEMMA FailWalked ==
  ASSUME Inv, NEW c \in Caller, job[c].at <= Len(chain), Walked(job[c]),
         NEW why \in {"budget", "failed"}
  PROVE  Walked(Fail(c, why)) /\ Fail(c, why).reply = job[c].reply
<1>1. job[c] \in Job /\ job[c].at \in Nat /\ 1 <= job[c].at
  BY ChainSeq DEF Inv, TypeOK, Job, Errors
<1>. DEFINE j == Fail(c, why)
            e == <<Chosen(c), why>>
<1>2. j.errors = job[c].errors \cup {e} /\ j.at = job[c].at + 1 /\ j.reply = job[c].reply
  BY <1>1 DEF Fail, Job
<1>3. {x[1] : x \in job[c].errors \cup {e}} = {x[1] : x \in job[c].errors} \cup {chain[job[c].at]}
  <2>1. e[1] = chain[job[c].at]
    BY DEF Chosen
  <2>. HIDE DEF e
  <2>2. {x[1] : x \in job[c].errors \cup {e}} = {x[1] : x \in job[c].errors} \cup {e[1]}
    OBVIOUS
  <2>. QED
    BY <2>1, <2>2
<1>4. 1 .. (job[c].at + 1) - 1 = (1 .. job[c].at - 1) \cup {job[c].at}
  BY <1>1
<1>5. {chain[i] : i \in (1 .. job[c].at - 1) \cup {job[c].at}}
        = {chain[i] : i \in 1 .. job[c].at - 1} \cup {chain[job[c].at]}
  OBVIOUS
<1>. HIDE DEF j, e
<1>6. Walked(j)
  BY <1>2, <1>3, <1>4, <1>5 DEF Walked
<1>. QED
  BY <1>2, <1>6 DEF j

LEMMA AfterWalked ==
  ASSUME Inv, NEW c \in Caller, job[c].at <= Len(chain), Walked(job[c]),
         NEW reply \in Reply \ Content
  PROVE  Walked(After(c, reply)) /\ After(c, reply).reply \in {job[c].reply} \cup Uncaught
<1>1. job[c] \in Job
  BY DEF Inv, TypeOK, Job, Errors
<1>2. CASE reply \in Uncaught
  <2>1. After(c, reply) = [job[c] EXCEPT !.reply = reply]
    BY <1>2 DEF After
  <2>. QED
    BY <1>1, <1>2, <2>1 DEF Walked, Job
<1>3. CASE reply \notin Uncaught /\ reply = "retry" /\ MoreTries(c)
  <2>1. After(c, reply) = [job[c] EXCEPT !.tries = job[c].tries + 1]
    BY <1>3 DEF After
  <2>. QED
    BY <1>1, <2>1 DEF Walked, Job
<1>4. CASE reply \notin Uncaught /\ ~(reply = "retry" /\ MoreTries(c))
  BY <1>4, FailWalked DEF After
<1>. QED
  BY <1>2, <1>3, <1>4

\* A step that gives one caller a walked chat.
LEMMA OneWalks ==
  ASSUME Inv, WalkInv, UNCHANGED chain, NEW c \in Caller, Walked(job'[c]),
         Unanswered(pc'[c], job'[c]),
         \A d \in Caller \ {c} : job'[d] = job[d] /\ pc'[d] = pc[d]
  PROVE  WalkInv'
<1>. SUFFICES ASSUME NEW d \in Caller PROVE Walked(job[d])' /\ Unanswered(pc'[d], job'[d])
  BY DEF WalkInv
<1>1. Walked(job[d])' = Walked(job'[d])
  BY DEF Walked
<1>2. CASE d = c
  BY <1>1, <1>2
<1>3. CASE d # c
  BY <1>1, <1>3 DEF WalkInv, Walked
<1>. QED
  BY <1>2, <1>3

LEMMA WalkAside ==
  ASSUME WalkInv, UNCHANGED <<chain, pc, job>>
  PROVE  WalkInv'
BY DEF WalkInv, Walked, Unanswered

\* Wherever an analysis begins, ends or is repaired, there is a new chat.
LEMMA NewChatWalks ==
  ASSUME Inv, WalkInv, NEW c \in Caller,
         Analyze(c) \/ GiveUp(c) \/ Spend(c) \/ Crash(c) \/ Lookup(c)
  PROVE  WalkInv'
<1>1. job \in [Caller -> Job] /\ pc \in [Caller -> {"idle", "lookup", "choose", "post", "store", "spend"}]
      /\ UNCHANGED chain
  BY DEF Inv, TypeOK, Job, Errors, Analyze, GiveUp, Spend, Crash, Lookup
<1>2. \/ \E l : pc' = [pc EXCEPT ![c] = l] /\ \E q, r : job' = [job EXCEPT ![c] = Chat(q, r)]
      \/ pc' = [pc EXCEPT ![c] = "choose"] /\ job' = job /\ pc[c] = "lookup"
  BY DEF Analyze, GiveUp, Spend, Crash, Lookup, Judge, End, Goto, NoJob
<1>3. CASE \E l : pc' = [pc EXCEPT ![c] = l] /\ \E q, r : job' = [job EXCEPT ![c] = Chat(q, r)]
  <2>1. PICK l, q, r : pc' = [pc EXCEPT ![c] = l] /\ job' = [job EXCEPT ![c] = Chat(q, r)]
    BY <1>3
  <2>2. job'[c] = Chat(q, r) /\ \A d \in Caller \ {c} : job'[d] = job[d] /\ pc'[d] = pc[d]
    BY <1>1, <2>1
  <2>. QED
    BY <1>1, <2>2, ChatWalked, OneWalks
<1>4. CASE pc' = [pc EXCEPT ![c] = "choose"] /\ job' = job /\ pc[c] = "lookup"
  <2>1. Walked(job'[c]) /\ Unanswered(pc'[c], job'[c])
    BY <1>1, <1>4 DEF WalkInv, Unanswered
  <2>. QED
    BY <1>1, <1>4, <2>1, OneWalks
<1>. QED
  BY <1>2, <1>3, <1>4

LEMMA ChooseWalks ==
  ASSUME Inv, WalkInv, NEW c \in Caller, Choose(c)
  PROVE  WalkInv'
<1>1. job \in [Caller -> Job] /\ pc \in [Caller -> {"idle", "lookup", "choose", "post", "store", "spend"}]
      /\ UNCHANGED chain
  BY DEF Inv, TypeOK, Job, Errors, Choose
<1>2. Walked(job[c]) /\ job[c].reply \in {"none"} \cup Uncaught /\ job[c].at <= Len(chain)
  BY DEF Choose, WalkInv, Unanswered
<1>3. Walked(Fail(c, "budget")) /\ Fail(c, "budget").reply = job[c].reply
  BY <1>2, FailWalked
<1>4. /\ job'[c] \in {job[c], Fail(c, "budget")}
      /\ \A d \in Caller \ {c} : job'[d] = job[d] /\ pc'[d] = pc[d]
  BY <1>1 DEF Choose, Goto
<1>5. Walked(job'[c]) /\ Unanswered(pc'[c], job'[c])
  BY <1>2, <1>3, <1>4 DEF Unanswered
<1>. QED
  BY <1>1, <1>4, <1>5, OneWalks

LEMMA PostWalks ==
  ASSUME Inv, WalkInv, NEW c \in Caller, Post(c)
  PROVE  WalkInv'
<1>1. job \in [Caller -> Job] /\ pc \in [Caller -> {"idle", "lookup", "choose", "post", "store", "spend"}]
      /\ UNCHANGED chain
  BY DEF Inv, TypeOK, Job, Errors, Post
<1>2. Walked(job[c]) /\ job[c].reply \in {"none"} \cup Uncaught /\ job[c].at <= Len(chain)
  BY DEF Post, WalkInv, Unanswered, Inv, InChain
<1>3. \/ \E reply \in Content : /\ pc' = [pc EXCEPT ![c] = "store"]
                                /\ job' = [job EXCEPT ![c].reply = reply]
      \/ \E reply \in Reply \ Content : \E l :
           /\ pc' = [pc EXCEPT ![c] = l]
           /\ job' = [job EXCEPT ![c] = After(c, reply)]
  BY DEF Post, Goto
<1>4. CASE \E reply \in Content : /\ pc' = [pc EXCEPT ![c] = "store"]
                                  /\ job' = [job EXCEPT ![c].reply = reply]
  <2>1. /\ job'[c].errors = job[c].errors /\ job'[c].at = job[c].at /\ pc'[c] = "store"
        /\ \A d \in Caller \ {c} : job'[d] = job[d] /\ pc'[d] = pc[d]
    BY <1>1, <1>4 DEF Job
  <2>2. Walked(job'[c]) /\ Unanswered(pc'[c], job'[c])
    BY <1>2, <2>1 DEF Walked, Unanswered
  <2>. QED
    BY <1>1, <2>1, <2>2, OneWalks
<1>5. CASE \E reply \in Reply \ Content : \E l :
             /\ pc' = [pc EXCEPT ![c] = l]
             /\ job' = [job EXCEPT ![c] = After(c, reply)]
  <2>1. PICK reply \in Reply \ Content : \E l :
          /\ pc' = [pc EXCEPT ![c] = l]
          /\ job' = [job EXCEPT ![c] = After(c, reply)]
    BY <1>5
  <2>2. /\ job'[c] = After(c, reply)
        /\ \A d \in Caller \ {c} : job'[d] = job[d] /\ pc'[d] = pc[d]
    BY <1>1, <2>1
  <2>3. Walked(job'[c]) /\ Unanswered(pc'[c], job'[c])
    BY <1>2, <2>2, AfterWalked DEF Unanswered
  <2>. QED
    BY <1>1, <2>2, <2>3, OneWalks
<1>. QED
  BY <1>3, <1>4, <1>5

LEMMA StoreWalks ==
  ASSUME Inv, WalkInv, NEW c \in Caller, Store(c)
  PROVE  WalkInv'
<1>1. UNCHANGED <<chain, job>> /\ pc' = [pc EXCEPT ![c] = "spend"] /\ pc[c] = "store"
      /\ pc \in [Caller -> {"idle", "lookup", "choose", "post", "store", "spend"}]
  BY DEF Store, Goto, Inv, TypeOK
<1>2. Walked(job'[c]) /\ Unanswered(pc'[c], job'[c])
  BY <1>1 DEF WalkInv, Unanswered
<1>. QED
  BY <1>1, <1>2, OneWalks

LEMMA InitWalk == Init => WalkInv
<1>. SUFFICES ASSUME Init, NEW c \in Caller PROVE Walked(job[c]) /\ Unanswered(pc[c], job[c])
  BY DEF WalkInv
<1>1. job[c] = Chat("none", "first")
  BY DEF Init, NoJob
<1>. QED
  BY <1>1, ChatWalked

LEMMA NextWalk == Inv /\ WalkInv /\ [Next]_vars => WalkInv'
<1>. SUFFICES ASSUME Inv, WalkInv, [Next]_vars PROVE WalkInv'
  OBVIOUS
<1>1. ASSUME NEW c \in Caller, Analyze(c) \/ Step(c) \/ Crash(c) PROVE WalkInv'
  BY <1>1, NewChatWalks, ChooseWalks, PostWalks, StoreWalks DEF Step
<1>2. ASSUME NEW c \in Caller, LoseRedis(c) PROVE WalkInv'
  BY <1>2, WalkAside DEF LoseRedis
<1>3. CASE Expire \/ Midnight \/ Idle \/ UNCHANGED vars
  BY <1>3, WalkAside DEF Expire, Midnight, Idle, vars
<1>. QED
  BY <1>1, <1>2, <1>3 DEF Next

\* An analysis ends as out of budget only when every provider of the chain was over
\* its budget, and for a provider's error only when all were refused or failed, or an
\* error escaped; for any chain. (chat_json: the loop and what it raises; analyze.)
THEOREM ChainWalkedHolds == Spec => ChainWalked
<1>. DEFINE Ends(c) ==
       LET refused == {e[1] : e \in job[c].errors}
           failed == {e \in job[c].errors : e[2] = "failed"}
           all == {chain[i] : i \in DOMAIN chain}
           told == IF outcome[c] = "none" THEN outcome'[c] ELSE "none"
       IN /\ told = "provider_error" =>
               \/ job[c].reply \in {"broken", "misshapen"}
               \/ refused = all /\ failed # {}
          /\ told = "budget_exhausted" => refused = all /\ failed = {}
<1>1. Inv /\ WalkInv /\ [Next]_vars => [\A c \in Caller : Ends(c)]_vars
  <2>. SUFFICES ASSUME Inv, WalkInv, Next, NEW c \in Caller, outcome[c] = "none",
                       outcome'[c] \in {"provider_error", "budget_exhausted"}
                PROVE  Ends(c)
    OBVIOUS
  <2>. USE DEF shared, counts, history
  <2>1. outcome \in [Caller -> Outcome]
    BY DEF Inv, TypeOK, Outcome
  <2>2. GiveUp(c)
    <3>1. ASSUME NEW d \in Caller, GiveUp(d) PROVE d = c
      BY <2>1, <3>1 DEF GiveUp, End
    <3>2. ASSUME NEW d \in Caller,
                 Analyze(d) \/ Lookup(d) \/ Choose(d) \/ Post(d) \/ Store(d) \/ Spend(d)
                   \/ LoseRedis(d) \/ Crash(d)
          PROVE  FALSE
      BY <2>1, <3>2 DEF Analyze, Lookup, Choose, Post, Store, Spend, LoseRedis, Crash, Judge, End
    <3>. QED
      BY <3>1, <3>2 DEF Next, Step, Expire, Midnight, Idle, vars
  <2>3. /\ outcome'[c] = IF job[c].reply = "none" /\ \A e \in job[c].errors : e[2] = "budget"
                         THEN "budget_exhausted" ELSE "provider_error"
        /\ job[c].at > Len(chain) \/ job[c].reply \in Uncaught
        /\ pc[c] = "choose"
    BY <2>1, <2>2 DEF GiveUp, End
  <2>4. job[c].reply \in {"none", "broken", "misshapen"}
    BY <2>3 DEF WalkInv, Unanswered, Uncaught
  <2>5. job[c].errors \in Errors /\ job[c].at \in 1 .. Len(chain) + 1
        /\ Len(chain) \in Nat /\ DOMAIN chain = 1 .. Len(chain)
    BY ChainSeq DEF Inv, TypeOK, Errors
  <2>6. ASSUME job[c].at > Len(chain)
        PROVE  {e[1] : e \in job[c].errors} = {chain[i] : i \in DOMAIN chain}
    <3>1. 1 .. job[c].at - 1 = DOMAIN chain
      BY <2>5, <2>6
    <3>. QED
      BY <3>1 DEF WalkInv, Walked
  <2>7. \A e \in job[c].errors : e[2] \in {"budget", "failed"}
    BY <2>5 DEF Errors
  <2>. QED
    BY <2>3, <2>4, <2>6, <2>7 DEF Uncaught
<1>2. Spec => []WalkInv
  BY AlwaysInv, InitWalk, NextWalk, PTL DEF Spec
<1>. QED
  BY <1>1, <1>2, AlwaysInv, PTL DEF Spec, ChainWalked

=============================================================================
