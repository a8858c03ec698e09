------------------------------ MODULE Ingestion ------------------------------
(***************************************************************************)
(* workers/injector.py, workers/normalizer.py and persistence/repository.py *)
(* around the Redis stream events:raw and its consumer group.  The injector *)
(* replays a scenario file in chunks and saves a checkpoint after each;     *)
(* normalizers claim stale messages, read new ones, store their events in   *)
(* one transaction and acknowledge them, or dead-letter what cannot be      *)
(* stored.  A message is its position in the stream, an event the line it   *)
(* came from.                                                               *)
(***************************************************************************)
EXTENDS Integers, Sequences, FiniteSets, FiniteSetsExt

CONSTANTS
  Lines,      \* number of lines of the scenario file
  Scenarios,  \* the files that may be replayed: kinds of their lines
  Limits,     \* values of run(limit); one above Lines stands for none
  XaddBatch,  \* XADD_BATCH
  Worker,     \* normalizer processes
  BatchSize,  \* settings.event_batch_size
  Attempts,   \* INLINE_RETRY_ATTEMPTS
  MaxRuns,    \* bound: injector runs
  MaxFaults   \* bound: deaths, broken connections, database outages

Line == 1 .. Lines

\* A line the injector refuses; one only the normalizer refuses (a duration of
\* Infinity is dumped as null); a row the tables refuse with a constraint, or
\* with any other error (an identifier over 255 characters); a good one.
Kind == {"unreadable", "malformed", "constraint", "oversized", "good"}

ASSUME IngestionAssumption ==
  /\ {Lines, XaddBatch, BatchSize, Attempts} \subseteq Nat \ {0}
  /\ {MaxRuns, MaxFaults} \subseteq Nat
  /\ Scenarios \subseteq [Line -> Kind]
  /\ Limits \subseteq Nat

VARIABLES
  kind,        \* the file replayed
  inj,         \* the injector: where it is, lines taken so far, where to stop
  checkpoint,  \* replay:checkpoint:<name>, 0 when there is none
  runs,
  stream,      \* events:raw
  delivered,   \* the group's last delivered message
  pending,     \* the group's pending entries, whoever owns them
  stale,       \* those idle for longer than CLAIM_IDLE_MS
  dead,        \* events:dead, by the origin of each entry
  stored,      \* table events, by event_id
  pc, hand, tries,  \* the normalizers: where each is, its messages, its retries
  faults

injector == <<inj, checkpoint, runs>>
group == <<delivered, pending, stale>>
worker == <<pc, hand, tries>>
vars == <<kind, injector, stream, group, dead, stored, worker, faults>>

Message == DOMAIN stream
KindOf(m) == kind[stream[m]]
Storable(m) == KindOf(m) = "good"

Init ==
  /\ kind \in Scenarios
  /\ inj = [pc |-> "idle", at |-> 0, stop |-> 0]
  /\ checkpoint = 0 /\ runs = 0
  /\ stream = <<>>
  /\ delivered = 0 /\ pending = {} /\ stale = {}
  /\ dead = {} /\ stored = {}
  /\ pc = [w \in Worker |-> "idle"]
  /\ hand = [w \in Worker |-> {}]
  /\ tries = [w \in Worker |-> 0]
  /\ faults = 0

Fault == faults < MaxFaults /\ faults' = faults + 1

----------------------------------------------------------------------------
(* ReplayInjector.run *)

Least(S) == CHOOSE x \in S : \A y \in S : x <= y

StartRun ==
  /\ inj.pc = "idle" /\ runs < MaxRuns
  /\ runs' = runs + 1
  /\ \E reset \in BOOLEAN, limit \in Limits :
       LET from == IF reset THEN 0 ELSE Least({checkpoint, Lines})
       IN /\ checkpoint' = IF reset THEN 0 ELSE checkpoint
          /\ inj' = [pc |-> "fill", at |-> from, stop |-> from + limit]
  /\ UNCHANGED <<kind, stream, group, dead, stored, worker, faults>>

\* The lines of the next chunk.
ChunkEnd == Least({inj.at + XaddBatch, inj.stop, Lines})
Chunk(end) == [k \in 1 .. end - inj.at |-> inj.at + k]
Readable == \A l \in inj.at + 1 .. ChunkEnd : kind[l] # "unreadable"

\* Parse a chunk and send it.  After the last one the run ends.
SendChunk ==
  /\ inj.pc = "fill" /\ inj.at < ChunkEnd /\ Readable
  /\ stream' = stream \o Chunk(ChunkEnd)
  /\ inj' = [inj EXCEPT !.pc = "sent", !.at = ChunkEnd]
  /\ UNCHANGED <<kind, checkpoint, runs, group, dead, stored, worker, faults>>

\* Pipelined XADDs without MULTI: the connection breaks, any of them is done.
SendBreaks ==
  /\ inj.pc = "fill" /\ inj.at < ChunkEnd /\ Readable
  /\ Fault
  /\ \E end \in inj.at .. ChunkEnd : stream' = stream \o Chunk(end)
  /\ inj' = [inj EXCEPT !.pc = "idle"]
  /\ UNCHANGED <<kind, checkpoint, runs, group, dead, stored, worker>>

CheckpointAhead(at) == at + 1  \* mutant: one line too far
Checkpoint(at) == at

SaveCheckpoint ==
  /\ inj.pc = "sent"
  /\ checkpoint' = Checkpoint(inj.at)
  /\ inj' = [inj EXCEPT !.pc = "fill"]
  /\ UNCHANGED <<kind, runs, stream, group, dead, stored, worker, faults>>

\* A bad line ends the run, without its chunk; so does the last line or the limit.
EndRun ==
  /\ inj.pc = "fill" /\ (inj.at >= ChunkEnd \/ ~Readable)
  /\ inj' = [inj EXCEPT !.pc = "idle"]
  /\ UNCHANGED <<kind, checkpoint, runs, stream, group, dead, stored, worker, faults>>

InjectorDies ==
  /\ inj.pc # "idle"
  /\ Fault
  /\ inj' = [inj EXCEPT !.pc = "idle"]
  /\ UNCHANGED <<kind, checkpoint, runs, stream, group, dead, stored, worker>>

Injector ==
  \/ StartRun \/ SendChunk \/ SendBreaks \/ SaveCheckpoint \/ EndRun \/ InjectorDies

----------------------------------------------------------------------------
(* Normalizer: process_batch *)

Goto(w, l) == pc' = [pc EXCEPT ![w] = l]

\* Back to the loop, with nothing in hand; after an exception nobody catches,
\* back there with a new process.
Return(w) ==
  /\ Goto(w, "idle")
  /\ hand' = [hand EXCEPT ![w] = {}]
  /\ tries' = [tries EXCEPT ![w] = 0]

\* XACK, whoever owns the entries by now.
AckedAll(ms) == Message \cap 1 .. delivered  \* mutant: all the group was given
Acked(ms) == ms
Acknowledge(ms) ==
  /\ pending' = pending \ Acked(ms)
  /\ stale' = stale \ Acked(ms)
  /\ UNCHANGED delivered

FirstOf(S, n) == {m \in S : Cardinality({o \in S : o < m}) < n}

\* XAUTOCLAIM, then XREADGROUP for what is left of the batch.
ClaimedNone == {}  \* mutant: only its own messages
Claimed == FirstOf(stale, BatchSize)
Read == FirstOf({m \in Message : m > delivered}, BatchSize - Cardinality(Claimed))

CollectEntries(w) ==
  /\ pc[w] = "idle" /\ Claimed \cup Read # {}
  /\ pending' = pending \cup Read
  /\ stale' = stale \ Claimed
  /\ delivered' = delivered + Cardinality(Read)
  /\ hand' = [hand EXCEPT ![w] = Claimed \cup Read]
  /\ Goto(w, "parse")
  /\ UNCHANGED <<kind, injector, stream, dead, stored, tries, faults>>

Malformed(w) == {m \in hand[w] : KindOf(m) = "malformed"}

PoisonLast(w) ==  \* mutant: the wrong end of the batch
  IF pc[w] = "parse" THEN Malformed(w)
  ELSE IF pc[w] = "refused" THEN {m \in hand[w] : hand[w] \subseteq 1 .. m} ELSE {}

\* The messages _dead_letter is called with.
Poison(w) ==
  CASE pc[w] = "parse" -> Malformed(w)
    [] pc[w] = "refused" -> {Least(hand[w])}
    [] OTHER -> {}

Next1(w, m) ==  \* after one message: the next
  /\ hand' = [hand EXCEPT ![w] = @ \ {m}]
  /\ IF pc[w] = "parse" THEN UNCHANGED pc
     ELSE Goto(w, IF hand[w] = {m} THEN "idle" ELSE "single")
  /\ UNCHANGED tries

DeadLetter(w) ==
  /\ Poison(w) # {}
  /\ LET m == Least(Poison(w))
     IN dead' = dead \cup {m} /\ Acknowledge({m}) /\ Next1(w, m)
  /\ UNCHANGED <<kind, injector, stream, stored, faults>>

\* The connection breaks between its XADD and its XACK.
DeadLetterBreaks(w) ==
  /\ Poison(w) # {}
  /\ Fault
  /\ dead' = dead \cup {Least(Poison(w))}
  /\ Return(w)
  /\ UNCHANGED <<kind, injector, stream, group, stored>>

Parsed(w) == pc[w] = "parse" /\ Malformed(w) = {}
InHand(w, k) == \E m \in hand[w] : KindOf(m) = k

\* Nothing but poison in the batch.
NothingLeft(w) ==
  /\ Parsed(w) /\ hand[w] = {}
  /\ Return(w)
  /\ UNCHANGED <<kind, injector, stream, group, dead, stored, faults>>

----------------------------------------------------------------------------
(* _persist_and_ack, _persist_per_event and persist_batch *)

\* insert_events_batch: duplicates are skipped.
StoredWith(ms) == stored \cup {stream[m] : m \in ms}

Persist(w) ==
  /\ Parsed(w) /\ hand[w] # {} /\ ~InHand(w, "oversized") /\ ~InHand(w, "constraint")
  /\ stored' = StoredWith(hand[w])
  /\ Goto(w, "stored")
  /\ UNCHANGED <<kind, injector, stream, group, dead, hand, tries, faults>>

\* IntegrityError, as NonRetryableBatchError: event by event from here on, and no
\* attempts are counted any more.
FallBack(w) ==
  /\ Parsed(w) /\ InHand(w, "constraint") /\ ~InHand(w, "oversized")
  /\ Goto(w, "single")
  /\ tries' = [tries EXCEPT ![w] = 0]
  /\ UNCHANGED <<kind, injector, stream, group, dead, stored, hand, faults>>

\* Any other error of the database: nobody catches it.
Raises(w) ==
  /\ Parsed(w) /\ InHand(w, "oversized")
  /\ Return(w)
  /\ UNCHANGED <<kind, injector, stream, group, dead, stored, faults>>

\* OperationalError, in time or after the commit took effect: try again, and
\* leave the batch to XAUTOCLAIM at last.  A fault may last for all the attempts.
TransientError(w) ==
  /\ Parsed(w) /\ hand[w] # {}
  /\ IF tries[w] = 0 THEN Fault ELSE UNCHANGED faults
  /\ \/ UNCHANGED stored
     \/ (\A m \in hand[w] : Storable(m)) /\ stored' = StoredWith(hand[w])
  /\ IF tries[w] + 1 < Attempts
     THEN tries' = [tries EXCEPT ![w] = @ + 1] /\ UNCHANGED <<pc, hand>>
     ELSE Return(w)
  /\ UNCHANGED <<kind, injector, stream, group, dead>>

Ack(w) ==
  /\ pc[w] = "stored"
  /\ Acknowledge(hand[w])
  /\ Return(w)
  /\ UNCHANGED <<kind, injector, stream, dead, stored, faults>>

PersistOne(w) ==
  /\ pc[w] = "single"
  /\ LET m == Least(hand[w])
     IN /\ stored' = IF Storable(m) THEN StoredWith({m}) ELSE stored
        /\ Goto(w, IF Storable(m) THEN "stored one" ELSE "refused")
  /\ UNCHANGED <<kind, injector, stream, group, dead, hand, tries, faults>>

AckOne(w) ==
  /\ pc[w] = "stored one"
  /\ Acknowledge({Least(hand[w])})
  /\ Next1(w, Least(hand[w]))
  /\ UNCHANGED <<kind, injector, stream, dead, stored, faults>>

\* Here any exception dead-letters: a transient error, an XACK that fails.
OneFails(w) ==
  /\ pc[w] \in {"single", "stored one"}
  /\ Fault
  /\ Goto(w, "refused")
  /\ UNCHANGED <<kind, injector, stream, group, dead, stored, hand, tries>>

NormalizerDies(w) ==
  /\ pc[w] # "idle"
  /\ Fault
  /\ Return(w)
  /\ UNCHANGED <<kind, injector, stream, group, dead, stored>>

Process(w) ==
  \/ CollectEntries(w) \/ DeadLetter(w) \/ NothingLeft(w) \/ Persist(w) \/ FallBack(w)
  \/ Raises(w) \/ Ack(w) \/ PersistOne(w) \/ AckOne(w)

Fail(w) == DeadLetterBreaks(w) \/ TransientError(w) \/ OneFails(w) \/ NormalizerDies(w)

\* Pending entries grow idle, even those of a consumer at work on them.
TimePasses ==
  /\ stale # pending
  /\ stale' = pending
  /\ UNCHANGED <<kind, injector, stream, delivered, pending, dead, stored, worker, faults>>

\* Nothing to read: XREADGROUP times out.
Idle ==
  /\ inj.pc = "idle" /\ runs = MaxRuns /\ pending = {} /\ delivered = Len(stream)
  /\ \A w \in Worker : pc[w] = "idle"
  /\ UNCHANGED vars

Next == Injector \/ TimePasses \/ Idle \/ \E w \in Worker : Process(w) \/ Fail(w)

\* The loops of the normalizers, restarted when they die, and time.
Fairness == WF_vars(TimePasses) /\ \A w \in Worker : WF_vars(Process(w))

Spec == Init /\ [][Next]_vars /\ Fairness

=============================================================================
