------------------------------ MODULE LlmGateway ------------------------------
(***************************************************************************)
(* llm/gateway.py and correlation/agent.py.  Each caller, the correlator or *)
(* the evaluation script, analyses incidents one at a time through a        *)
(* gateway object of its own; the gateways share Redis, which holds the     *)
(* answers of the last day and what each provider's daily budget has left.  *)
(* An analysis is a chat and, if the answer breaks the rules, one repair    *)
(* chat; a chat walks the chain of providers.                               *)
(***************************************************************************)
EXTENDS Integers, Sequences, FiniteSets

CONSTANTS
  Caller,
  Question,     \* what the prompt of an incident says
  Chains,       \* the chains of providers that may be configured
  Attempts,     \* attempts of _call_with_retries
  Budget,       \* settings.llm_daily_budget
  MaxAnalyses,  \* bound: analyses
  MaxEvents     \* bound: midnights, expired entries, lost Redis clients, crashes

Provider == UNION {{ch[i] : i \in DOMAIN ch} : ch \in Chains}

\* The messages of a repair chat hold the rejected answer, which takes one value.
Round == {"first", "repair"}
Key == Question \X Round

Content == {"fits", "unfit"}  \* a JSON object, and what the validators say of it
\* A 200 that does not parse: no JSON object in its content, or another body.
Unparsable == {"not_json", "misshapen"}
\* A status of _RETRY_STATUS or a timeout; another status; no connection.
Reply == Content \cup Unparsable \cup {"retry", "refused", "broken"}

ASSUME GatewayAssumption ==
  /\ IsFiniteSet(Caller) /\ Caller # {}
  /\ Chains \subseteq Seq(Provider)
  /\ {Attempts, Budget} \subseteq Nat \ {0}
  /\ {MaxAnalyses, MaxEvents} \subseteq Nat
  /\ \A ch \in Chains : \A i, j \in DOMAIN ch : ch[i] = ch[j] => i = j

VARIABLES
  chain,     \* the providers with a key, in order
  redis,     \* is the gateway's Redis client still there?
  cache,     \* llm:cache:*
  spent,     \* llm:budget:<provider>:<today>
  pc, job,   \* the callers: where each is, and with what
  outcome,   \* of its last analysis, as the llm_calls row tells it
  analyses, lapses, losses, crashes,
  asked,     \* history: parsed answers a caller got to a key since its entry expired
  parsed,    \* history: answers of each provider today that parse
  burnt      \* history: answers, parsed or not, since its budget ran out today

shared  == <<cache, spent>>
history == <<asked, parsed, burnt>>
counts  == <<analyses, lapses, losses, crashes>>
vars == <<chain, redis, shared, pc, job, outcome, counts, history>>

\* A chat that begins.
Chat(q, r) ==
  [question |-> q, round |-> r, at |-> 1, tries |-> 0, errors |-> {}, reply |-> "none"]
NoJob == Chat("none", "first")

Init ==
  /\ chain \in Chains
  /\ redis = [c \in Caller |-> TRUE]
  /\ cache = [k \in Key |-> "none"]
  /\ spent = [p \in Provider |-> 0]
  /\ pc = [c \in Caller |-> "idle"]
  /\ job = [c \in Caller |-> NoJob]
  /\ outcome = [c \in Caller |-> "none"]
  /\ analyses = 0 /\ lapses = 0 /\ losses = 0 /\ crashes = 0
  /\ asked = [c \in Caller |-> [k \in Key |-> 0]]
  /\ parsed = [p \in Provider |-> 0]
  /\ burnt = [p \in Provider |-> 0]

Goto(c, l) == pc' = [pc EXCEPT ![c] = l]

\* CorrelationAgent.analyze returns.
End(c, o) ==
  /\ Goto(c, "idle")
  /\ outcome' = [outcome EXCEPT ![c] = o]
  /\ job' = [job EXCEPT ![c] = NoJob]

----------------------------------------------------------------------------
(* CorrelationAgent.analyze *)

Analyze(c) ==
  /\ pc[c] = "idle" /\ analyses < MaxAnalyses
  /\ analyses' = analyses + 1
  /\ IF chain = <<>> THEN End(c, "unavailable")
     ELSE /\ Goto(c, "lookup")
          /\ \E q \in Question : job' = [job EXCEPT ![c] = Chat(q, "first")]
          /\ outcome' = [outcome EXCEPT ![c] = "none"]
  /\ UNCHANGED <<chain, redis, shared, lapses, losses, crashes, history>>

\* validate_analysis_payload: the first rejected answer is repaired, the second
\* one ends the analysis.
Judge(c, content) ==
  IF content = "fits" THEN End(c, IF job[c].round = "first" THEN "ok" ELSE "ok_repaired")
  ELSE IF job[c].round = "repair" THEN End(c, "schema_invalid_failed")
  ELSE /\ Goto(c, "lookup")
       /\ job' = [job EXCEPT ![c] = Chat(@.question, "repair")]
       /\ UNCHANGED outcome

----------------------------------------------------------------------------
(* LlmGateway.chat_json *)

KeyOf(c) == <<job[c].question, job[c].round>>

\* A repair asks to forget the key of the answer it repairs, if it is its own.
Busted(c) == job[c].round = "repair" /\ KeyOf(c) = <<job[c].question, "first">>
Cached(c) == IF redis[c] /\ ~Busted(c) THEN cache[KeyOf(c)] ELSE "none"

Lookup(c) ==
  /\ pc[c] = "lookup"
  /\ cache' = IF redis[c] /\ Busted(c) THEN [cache EXCEPT ![KeyOf(c)] = "none"] ELSE cache
  /\ IF Cached(c) # "none" THEN Judge(c, Cached(c))
     ELSE Goto(c, "choose") /\ UNCHANGED <<job, outcome>>
  /\ UNCHANGED <<chain, redis, spent, counts, history>>

Chosen(c) == chain[job[c].at]
FailAround(c, why) ==  \* mutant: the chain starts over
  [job[c] EXCEPT !.errors = @ \cup {<<Chosen(c), why>>}, !.at = (@ % Len(chain)) + 1, !.tries = 0]
Fail(c, why) ==
  [job[c] EXCEPT !.errors = @ \cup {<<Chosen(c), why>>}, !.at = @ + 1, !.tries = 0]

\* _budget_allows: there is no budget without Redis.
UnderBudget(c) == ~redis[c] \/ spent[Chosen(c)] < Budget

\* Errors chat_json does not catch: the agent takes them for the chain's end.
UncaughtStatus == {"broken", "misshapen", "refused"}  \* mutant: HTTPStatusError too
Uncaught == {"broken", "misshapen"}

Choose(c) ==
  /\ pc[c] = "choose" /\ job[c].at <= Len(chain) /\ job[c].reply \notin Uncaught
  /\ IF UnderBudget(c) THEN Goto(c, "post") /\ UNCHANGED job
     ELSE job' = [job EXCEPT ![c] = Fail(c, "budget")] /\ UNCHANGED pc
  /\ UNCHANGED <<chain, redis, shared, outcome, counts, history>>

\* BudgetExhausted; AllProvidersFailed and anything else.
GiveUp(c) ==
  /\ pc[c] = "choose" /\ (job[c].at > Len(chain) \/ job[c].reply \in Uncaught)
  /\ End(c, IF job[c].reply = "none" /\ \A e \in job[c].errors : e[2] = "budget"
            THEN "budget_exhausted" ELSE "provider_error")
  /\ UNCHANGED <<chain, redis, shared, counts, history>>

----------------------------------------------------------------------------
(* _call_with_retries and _call_once *)

TryAgain(c) == job[c].tries < Attempts  \* mutant: one attempt more
MoreTries(c) == job[c].tries + 1 < Attempts

After(c, reply) ==
  IF reply \in Uncaught THEN [job[c] EXCEPT !.reply = reply]
  ELSE IF reply = "retry" /\ MoreTries(c) THEN [job[c] EXCEPT !.tries = @ + 1]
  ELSE Fail(c, "failed")

\* The answer of c's provider counts once the budget has run out.
Burn(c) ==
  burnt' = IF spent[Chosen(c)] < Budget THEN burnt ELSE [burnt EXCEPT ![Chosen(c)] = @ + 1]

\* One attempt and what it brings.  What is slept before it, for a provider's
\* cooldown or after a timeout, changes nothing here.
Post(c) ==
  /\ pc[c] = "post"
  /\ \E reply \in Reply :
       IF reply \in Content
       THEN /\ Goto(c, "store")
            /\ job' = [job EXCEPT ![c].reply = reply]
            /\ asked' = [asked EXCEPT ![c][KeyOf(c)] = @ + 1]
            /\ parsed' = [parsed EXCEPT ![Chosen(c)] = @ + 1]
            /\ Burn(c)
       ELSE /\ job' = [job EXCEPT ![c] = After(c, reply)]
            /\ Goto(c, IF After(c, reply).at = job[c].at /\ reply \notin Uncaught
                       THEN "post" ELSE "choose")
            /\ IF reply \in Unparsable THEN Burn(c) ELSE UNCHANGED burnt
            /\ UNCHANGED <<asked, parsed>>
  /\ UNCHANGED <<chain, redis, shared, outcome, counts>>

CacheNothing(c) == cache  \* mutant: the write is forgotten

\* An answer is cached before anyone has validated it.
CacheWrite(c) == [cache EXCEPT ![KeyOf(c)] = job[c].reply]
Store(c) ==
  /\ pc[c] = "store"
  /\ cache' = IF redis[c] THEN CacheWrite(c) ELSE cache
  /\ Goto(c, "spend")
  /\ UNCHANGED <<chain, redis, spent, job, outcome, counts, history>>

SpendNothing(c) == spent  \* mutant: the budget is never charged
SpendOne(c) == [spent EXCEPT ![Chosen(c)] = @ + 1]

\* _record_budget_spend; chat_json returns.
Spend(c) ==
  /\ pc[c] = "spend"
  /\ spent' = IF redis[c] THEN SpendOne(c) ELSE spent
  /\ Judge(c, job[c].reply)
  /\ UNCHANGED <<chain, redis, cache, counts, history>>

Step(c) == Lookup(c) \/ Choose(c) \/ GiveUp(c) \/ Post(c) \/ Store(c) \/ Spend(c)

----------------------------------------------------------------------------
(* Faults, and time *)

\* An operation on Redis raises, done or not: the gateway drops its client.
LoseRedis(c) ==
  /\ redis[c] /\ pc[c] \in {"lookup", "choose", "store", "spend"}
  /\ lapses + losses + crashes < MaxEvents /\ losses' = losses + 1
  /\ redis' = [redis EXCEPT ![c] = FALSE]
  /\ \/ UNCHANGED shared
     \/ pc[c] = "store" /\ cache' = CacheWrite(c) /\ UNCHANGED spent
     \/ pc[c] = "spend" /\ spent' = SpendOne(c) /\ UNCHANGED cache
  /\ UNCHANGED <<chain, pc, job, outcome, analyses, lapses, crashes, history>>

\* The process dies; the next one has a gateway of its own.
Crash(c) ==
  /\ pc[c] # "idle" /\ lapses + losses + crashes < MaxEvents
  /\ crashes' = crashes + 1
  /\ Goto(c, "idle")
  /\ redis' = [redis EXCEPT ![c] = TRUE]
  /\ job' = [job EXCEPT ![c] = NoJob]
  /\ UNCHANGED <<chain, shared, outcome, analyses, lapses, losses, history>>

\* Midnight comes or an entry expires.
Lapse == lapses + losses + crashes < MaxEvents /\ lapses' = lapses + 1

Expire ==
  /\ Lapse
  /\ \E k \in Key :
       /\ cache[k] # "none"
       /\ cache' = [cache EXCEPT ![k] = "none"]
       /\ asked' = [c \in Caller |-> [asked[c] EXCEPT ![k] = 0]]
  /\ UNCHANGED <<chain, redis, spent, pc, job, outcome, analyses, losses, crashes, parsed, burnt>>

Midnight ==
  /\ Lapse
  /\ spent' = [p \in Provider |-> 0]
  /\ parsed' = [p \in Provider |-> 0]
  /\ burnt' = [p \in Provider |-> 0]
  /\ UNCHANGED <<chain, redis, cache, pc, job, outcome, analyses, losses, crashes, asked>>

\* Every caller has done its analyses.
Idle ==
  /\ analyses = MaxAnalyses /\ \A c \in Caller : pc[c] = "idle"
  /\ UNCHANGED vars

Next ==
  \/ \E c \in Caller :
       Analyze(c) \/ Step(c) \/ LoseRedis(c) \/ Crash(c)
  \/ Expire \/ Midnight \/ Idle

\* An analysis goes on once begun: every wait in it has a bound.
Fairness == \A c \in Caller : WF_vars(Step(c))

Spec == Init /\ [][Next]_vars /\ Fairness

----------------------------------------------------------------------------
(* What is claimed of it *)

\* Type correctness: no provider beyond the chain's end is chosen, and no call
\* makes more than Attempts requests (gateway.py:258-261).
TypeOK ==
  /\ chain \in Chains
  /\ redis \in [Caller -> BOOLEAN]
  /\ cache \in [Key -> {"none"} \cup Content] /\ spent \in [Provider -> Nat]
  /\ pc \in [Caller -> {"idle", "lookup", "choose", "post", "store", "spend"}]
  /\ job \in [Caller ->
       [question : {"none"} \cup Question, round : Round, at : 1 .. Len(chain) + 1,
        tries : 0 .. Attempts - 1, errors : SUBSET (Provider \X {"budget", "failed"}),
        reply : {"none"} \cup Content \cup Uncaught]]
  /\ outcome \in [Caller -> {"none", "ok", "ok_repaired", "schema_invalid_failed",
                             "budget_exhausted", "provider_error", "unavailable"}]
  /\ analyses \in 0 .. MaxAnalyses /\ {lapses, losses, crashes} \subseteq 0 .. MaxEvents
  /\ asked \in [Caller -> [Key -> Nat]]
  /\ parsed \in [Provider -> Nat] /\ burnt \in [Provider -> Nat]

\* The budget is read before a call and charged after it, so callers that overlap
\* overrun it, by no more than one parsed answer each, and a crash between the two
\* costs another.  Once it has run out for the day, only callers that had found it
\* open get one more answer each, parsed or not.  Before that nothing bounds the
\* answers that do not parse, as the code never charges them.
\* (gateway.py:143-164, 237-242, 337-338.)
BudgetHolds ==
  losses = 0 =>
    \A p \in Provider : /\ parsed[p] < Budget + Cardinality(Caller) + crashes
                        /\ burnt[p] < Cardinality(Caller)

\* The cache spares the providers: while an entry lives each caller gets its answer
\* from a provider at most once, and once more for a crash before the entry is
\* written.  Answers that do not parse are neither cached nor counted here.
\* (gateway.py:220-233, 345-368.)
AskedOnce ==
  losses = 0 => \A c \in Caller, k \in Key : asked[c][k] <= 1 + crashes

\* An analysis is called off only when every provider has been refused by the
\* budget or has failed, unless an error chat_json does not catch cuts the chain
\* short; and out of budget means nobody was asked.  (gateway.py:236-251.)
ChainWalked ==
  [][\A c \in Caller :
       LET refused == {e[1] : e \in job[c].errors}
           failed == {e \in job[c].errors : e[2] = "failed"}
           all == {chain[i] : i \in DOMAIN chain}
           told == IF outcome[c] = "none" THEN outcome'[c] ELSE "none"
       IN /\ told = "provider_error" =>
               \/ job[c].reply \in {"broken", "misshapen"}
               \/ refused = all /\ failed # {}
          /\ told = "budget_exhausted" => refused = all /\ failed = {}]_vars

\* An analysis ends, whatever the providers answer and whatever the others do.
\* (agent.py:170-218.)
AnalysesEnd == \A c \in Caller : pc[c] # "idle" ~> pc[c] = "idle"

=============================================================================
