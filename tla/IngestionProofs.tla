--------------------------- MODULE IngestionProofs ---------------------------
(***************************************************************************)
(* For any scenario, number of normalizers, batch sizes and faults: no      *)
(* message is acknowledged before it has landed, the replay skips no line,  *)
(* and nothing is dead-lettered without a reason.                           *)
(***************************************************************************)
EXTENDS IngestionProperties, FiniteSetTheorems, SequenceTheorems,
        WellFoundedInduction, TLAPS

(* Sets of naturals and batches *)

\* A non-empty set of naturals has a least element. (The first message of a
\* batch; min(checkpoint, len(lines)).)
LEMMA LeastElement ==
  ASSUME NEW S \in SUBSET Nat, S # {}
  PROVE  Least(S) \in S /\ \A x \in S : Least(S) <= x
<1> DEFINE R == OpToRel(<, Nat)
<1>1. R = OpToRel(<, Nat)
  OBVIOUS
<1> HIDE DEF R
<1>2. PICK t \in S : \A u \in S : <<u, t>> \notin R
  BY <1>1, WFMin, NatLessThanWellFounded
<1>3. \A u \in S : ~(u < t)
  BY <1>1, <1>2 DEF OpToRel
<1>4. \A u \in S : t <= u
  BY <1>3
<1> QED BY <1>4 DEF Least

\* What is new of a batch read from the group is a run of messages right after
\* the last delivered one. (_collect_entries: XREADGROUP with ">".)
LEMMA ReadIsNext ==
  ASSUME stream \in Seq(Line), delivered \in 0 .. Len(stream), stale \subseteq 1 .. delivered
  PROVE  /\ Read \subseteq 1 .. delivered + Cardinality(Read)
         /\ delivered + Cardinality(Read) \in delivered .. Len(stream)
         /\ \A m \in delivered + 1 .. delivered + Cardinality(Read) : m \in Read
<1> DEFINE New == {m \in Message : m > delivered}
           room == BatchSize - Cardinality(Claimed)
           top == IF delivered + room <= Len(stream) THEN delivered + room ELSE Len(stream)
<1>1. Len(stream) \in Nat /\ delivered \in Nat /\ Message = 1 .. Len(stream)
  BY DEF Message
<1>2. room \in Int
  <2>1. Claimed \in SUBSET (1 .. delivered)
    BY DEF Claimed, FirstOf
  <2>2. IsFiniteSet(1 .. delivered)
    BY <1>1, FS_Interval
  <2>3. Cardinality(Claimed) \in Nat
    BY <2>1, <2>2, FS_Subset, FS_CardinalityType
  <2> QED BY <2>3, IngestionAssumption
<1>3. \A m \in New : Cardinality({o \in New : o < m}) = m - delivered - 1
  <2> TAKE m \in New
  <2>1. {o \in New : o < m} = delivered + 1 .. m - 1
    BY <1>1
  <2>2. Cardinality(delivered + 1 .. m - 1) = m - delivered - 1
    <3>1. m \in Int /\ delivered + 1 <= m
      BY <1>1
    <3>2. delivered + 1 \in Int /\ m - 1 \in Int
      BY <1>1, <3>1
    <3>3. Cardinality(delivered + 1 .. m - 1)
            = IF delivered + 1 > m - 1 THEN 0 ELSE m - 1 - (delivered + 1) + 1
      BY <3>2, FS_Interval
    <3> QED BY <1>1, <3>1, <3>3
  <2> QED BY <2>1, <2>2
<1>4. Read = {m \in New : m - delivered - 1 < room}
  BY <1>3 DEF Read, FirstOf
<1>5. Read = delivered + 1 .. top
  BY <1>1, <1>2, <1>4
<1>6. top \in Int /\ top <= Len(stream)
  BY <1>1, <1>2
<1> HIDE DEF top
<1>7. CASE top <= delivered
  <2>1. Read = {} /\ Cardinality(Read) = 0
    BY <1>1, <1>5, <1>6, <1>7, FS_EmptySet
  <2> QED BY <1>1, <2>1
<1>8. CASE delivered < top
  <2>1. Cardinality(Read) = top - delivered
    BY <1>1, <1>5, <1>6, <1>8, FS_Interval
  <2> QED BY <1>1, <1>5, <1>6, <1>8, <2>1
<1> QED BY <1>1, <1>6, <1>7, <1>8

----------------------------------------------------------------------------
(* The inductive invariant *)

\* A worker that goes message by message has one in hand.
Busy == \A w \in Worker : pc[w] \in {"single", "stored one", "refused"} => hand[w] # {}

\* What a worker is about to acknowledge is in the database.
AckStored ==
  \A w \in Worker :
    /\ pc[w] = "stored" => \A m \in hand[w] : stream[m] \in stored
    /\ pc[w] = "stored one" => stream[Least(hand[w])] \in stored

DeliveryInv == TypeOK /\ Busy /\ AckStored /\ AckedLanded

LEMMA InitDelivery == Init => DeliveryInv
<1> SUFFICES ASSUME Init PROVE DeliveryInv
  OBVIOUS
<1>1. TypeOK
  BY IngestionAssumption DEF Init, TypeOK
<1> QED BY <1>1 DEF Init, DeliveryInv, Busy, AckStored, AckedLanded

LEMMA DeliveredTypes ==
  ASSUME TypeOK
  PROVE  /\ stream \in Seq(Line) /\ Len(stream) \in Nat /\ DOMAIN stream = 1 .. Len(stream)
         /\ delivered \in Nat /\ delivered <= Len(stream)
<1>1. stream \in Seq(Line) /\ delivered \in 0 .. Len(stream)
  BY DEF TypeOK
<1>2. Len(stream) \in Nat /\ DOMAIN stream = 1 .. Len(stream)
  BY <1>1, LenProperties
<1> QED BY <1>1, <1>2

\* The first message a worker has in hand is one the group was given.
LEMMA FirstInHand ==
  ASSUME TypeOK, NEW w \in Worker, hand[w] # {}
  PROVE  Least(hand[w]) \in hand[w] /\ Least(hand[w]) \in 1 .. delivered
<1>1. hand[w] \in SUBSET (1 .. delivered)
  BY DEF TypeOK
<1>2. delivered \in Nat
  BY DeliveredTypes
<1>3. hand[w] \in SUBSET Nat
  BY <1>1, <1>2
<1> QED BY <1>1, <1>3, LeastElement

\* A chunk is a run of lines of the file. (run: the loop over seq.)
LEMMA ChunkOfLines ==
  ASSUME TypeOK
  PROVE  /\ ChunkEnd \in Nat /\ ChunkEnd <= Lines
         /\ \A end \in inj.at .. ChunkEnd : Chunk(end) \in Seq(Line)
<1>1. inj.at \in 0 .. Lines /\ inj.stop \in Nat /\ Lines \in Nat /\ XaddBatch \in Nat
  BY IngestionAssumption DEF TypeOK
<1>2. {inj.at + XaddBatch, inj.stop, Lines} \in SUBSET Nat
  BY <1>1
<1>3. ChunkEnd \in Nat /\ ChunkEnd <= Lines
  BY <1>2, LeastElement DEF ChunkEnd
<1>4. ASSUME NEW end \in inj.at .. ChunkEnd
      PROVE  Chunk(end) \in Seq(Line)
  <2>1. end - inj.at \in Nat
    BY <1>1, <1>3
  <2>2. \A k \in 1 .. end - inj.at : inj.at + k \in Line
    BY <1>1, <1>3 DEF Line
  <2> QED BY <2>1, <2>2 DEF Chunk
<1> QED BY <1>3, <1>4

----------------------------------------------------------------------------
(* The injector's steps *)

\* Sending lines changes nothing for the messages there.
LEMMA SendDelivery ==
  ASSUME DeliveryInv, NEW c \in Seq(Line), stream' = stream \o c,
         UNCHANGED <<kind, checkpoint, runs, group, dead, stored, worker>>,
         inj' \in [pc : {"idle", "fill", "sent"}, at : 0 .. Lines, stop : Nat],
         faults' \in 0 .. MaxFaults
  PROVE  DeliveryInv'
<1> stream \in Seq(Line) /\ Len(stream) \in Nat /\ Len(c) \in Nat
  BY DeliveredTypes, LenProperties DEF DeliveryInv
<1>1. /\ stream' \in Seq(Line) /\ Len(stream') = Len(stream) + Len(c)
      /\ \A m \in 1 .. Len(stream) : stream'[m] = stream[m]
  BY ConcatProperties
<1>2. delivered \in 0 .. Len(stream) /\ delivered \in 0 .. Len(stream')
  BY <1>1, DeliveredTypes DEF DeliveryInv
<1>3. TypeOK'
  BY <1>1, <1>2 DEF DeliveryInv, TypeOK, group, worker
<1>4. \A m \in 1 .. delivered : stream'[m] = stream[m]
  BY <1>1, <1>2
<1>5. \A w \in Worker : hand[w] \subseteq 1 .. delivered
  BY DEF DeliveryInv, TypeOK
<1>6. \A w \in Worker : hand[w] # {} => Least(hand[w]) \in 1 .. delivered
  BY FirstInHand DEF DeliveryInv
<1>7. Busy' /\ AckStored' /\ AckedLanded'
  BY <1>4, <1>5, <1>6 DEF DeliveryInv, Busy, AckStored, AckedLanded, group, worker
<1> QED BY <1>3, <1>7 DEF DeliveryInv

LEMMA InjectorDelivery == DeliveryInv /\ Injector => DeliveryInv'
<1> SUFFICES ASSUME DeliveryInv, Injector PROVE DeliveryInv'
  OBVIOUS
<1>1. /\ inj \in [pc : {"idle", "fill", "sent"}, at : 0 .. Lines, stop : Nat]
      /\ checkpoint \in 0 .. Lines /\ Lines \in Nat /\ faults \in 0 .. MaxFaults
      /\ {MaxFaults, MaxRuns} \subseteq Nat /\ runs \in 0 .. MaxRuns
  BY IngestionAssumption DEF DeliveryInv, TypeOK
<1>2. CASE SendChunk
  <2>1. Chunk(ChunkEnd) \in Seq(Line) /\ ChunkEnd \in 0 .. Lines
    BY <1>1, <1>2, ChunkOfLines DEF SendChunk, DeliveryInv
  <2>2. inj' \in [pc : {"idle", "fill", "sent"}, at : 0 .. Lines, stop : Nat]
    BY <1>1, <1>2, <2>1 DEF SendChunk
  <2> QED BY <1>1, <1>2, <2>1, <2>2, SendDelivery DEF SendChunk
<1>3. CASE SendBreaks
  <2>1. PICK end \in inj.at .. ChunkEnd : stream' = stream \o Chunk(end)
    BY <1>3 DEF SendBreaks
  <2>2. Chunk(end) \in Seq(Line)
    BY ChunkOfLines DEF DeliveryInv
  <2>3. inj' \in [pc : {"idle", "fill", "sent"}, at : 0 .. Lines, stop : Nat]
    BY <1>1, <1>3 DEF SendBreaks
  <2>4. faults' \in 0 .. MaxFaults
    BY <1>1, <1>3 DEF SendBreaks, Fault
  <2> QED BY <1>3, <2>1, <2>2, <2>3, <2>4, SendDelivery DEF SendBreaks
<1>4. ASSUME UNCHANGED <<kind, stream, group, dead, stored, worker>>, TypeOK'
      PROVE  DeliveryInv'
  BY <1>4 DEF DeliveryInv, Busy, AckStored, AckedLanded, group, worker
<1>5. CASE StartRun
  <2>1. PICK reset \in BOOLEAN, limit \in Limits :
          LET from == IF reset THEN 0 ELSE Least({checkpoint, Lines})
          IN /\ checkpoint' = IF reset THEN 0 ELSE checkpoint
             /\ inj' = [pc |-> "fill", at |-> from, stop |-> from + limit]
    BY <1>5 DEF StartRun
  <2>2. Least({checkpoint, Lines}) \in 0 .. Lines
    BY <1>1, LeastElement
  <2>3. limit \in Nat
    BY IngestionAssumption
  <2>4. inj' \in [pc : {"idle", "fill", "sent"}, at : 0 .. Lines, stop : Nat]
    <3>1. CASE reset
      BY <1>1, <2>1, <2>3, <3>1
    <3>2. CASE ~reset
      BY <1>1, <2>1, <2>2, <2>3, <3>2
    <3> QED BY <3>1, <3>2
  <2>5. runs' \in 0 .. MaxRuns
    BY <1>1, <1>5 DEF StartRun
  <2>6. TypeOK'
    BY <1>1, <1>5, <2>1, <2>4, <2>5 DEF StartRun, DeliveryInv, TypeOK, group, worker
  <2> QED BY <1>4, <1>5, <2>6 DEF StartRun
<1>6. CASE SaveCheckpoint
  <2>1. TypeOK'
    BY <1>1, <1>6 DEF SaveCheckpoint, Checkpoint, DeliveryInv, TypeOK, group, worker
  <2> QED BY <1>4, <1>6, <2>1 DEF SaveCheckpoint
<1>7. CASE EndRun
  <2>1. TypeOK'
    BY <1>1, <1>7 DEF EndRun, DeliveryInv, TypeOK, group, worker
  <2> QED BY <1>4, <1>7, <2>1 DEF EndRun
<1>8. CASE InjectorDies
  <2>1. faults' \in 0 .. MaxFaults /\ inj' \in [pc : {"idle", "fill", "sent"}, at : 0 .. Lines, stop : Nat]
    BY <1>1, <1>8 DEF InjectorDies, Fault
  <2>2. TypeOK'
    BY <1>8, <2>1 DEF InjectorDies, DeliveryInv, TypeOK, group, worker
  <2> QED BY <1>4, <1>8, <2>2 DEF InjectorDies
<1> QED BY <1>2, <1>3, <1>5, <1>6, <1>7, <1>8 DEF Injector

----------------------------------------------------------------------------
(* The normalizers' steps *)

\* What leaves the pending entries has landed.
LEMMA AckedStep ==
  ASSUME DeliveryInv, UNCHANGED <<stream, delivered>>,
         stored \subseteq stored', dead \subseteq dead',
         \A m \in pending \ pending' : stream[m] \in stored' \/ m \in dead'
  PROVE  AckedLanded'
  BY DEF DeliveryInv, AckedLanded

\* A worker goes back to its loop.
LEMMA ReturnDelivery ==
  ASSUME DeliveryInv, NEW w \in Worker, Return(w),
         UNCHANGED <<kind, injector, stream, delivered>>,
         pending' \subseteq pending, stale' \subseteq pending',
         dead \subseteq dead', dead' \subseteq 1 .. delivered,
         stored \subseteq stored', stored' \subseteq Line,
         \A m \in pending \ pending' : stream[m] \in stored' \/ m \in dead',
         faults' \in 0 .. MaxFaults
  PROVE  DeliveryInv'
<1>1. AckedLanded'
  BY AckedStep
<1>2. /\ pc' \in [Worker -> {"idle", "parse", "stored", "single", "stored one", "refused"}]
      /\ hand' \in [Worker -> SUBSET (1 .. delivered)]
      /\ tries' \in [Worker -> 0 .. Attempts - 1]
  <2>1. 0 \in 0 .. Attempts - 1
    BY IngestionAssumption
  <2> QED BY <2>1 DEF Return, Goto, DeliveryInv, TypeOK
<1>3. TypeOK'
  BY <1>2 DEF DeliveryInv, TypeOK, injector
<1>4. \A v \in Worker : v # w => pc'[v] = pc[v] /\ hand'[v] = hand[v]
  BY DEF Return, Goto, DeliveryInv, TypeOK
<1>5. pc'[w] = "idle"
  BY DEF Return, Goto, DeliveryInv, TypeOK
<1>6. Busy' /\ AckStored'
  BY <1>4, <1>5 DEF DeliveryInv, Busy, AckStored
<1> QED BY <1>1, <1>3, <1>6 DEF DeliveryInv

\* A worker goes on with part of what it has in hand.
LEMMA GoOnDelivery ==
  ASSUME DeliveryInv, NEW w \in Worker,
         NEW l \in {"idle", "parse", "stored", "single", "stored one", "refused"},
         NEW h \in SUBSET hand[w],
         pc' = [pc EXCEPT ![w] = l], hand' = [hand EXCEPT ![w] = h],
         tries' \in [Worker -> 0 .. Attempts - 1],
         UNCHANGED <<kind, injector, stream, delivered>>,
         pending' \subseteq pending, stale' \subseteq pending',
         dead \subseteq dead', dead' \subseteq 1 .. delivered,
         stored \subseteq stored', stored' \subseteq Line,
         \A m \in pending \ pending' : stream[m] \in stored' \/ m \in dead',
         faults' \in 0 .. MaxFaults,
         l \in {"single", "stored one", "refused"} => h # {},
         l = "stored" => \A m \in h : stream[m] \in stored',
         l = "stored one" => stream[Least(h)] \in stored'
  PROVE  DeliveryInv'
<1>1. AckedLanded'
  BY AckedStep
<1>2. /\ pc' \in [Worker -> {"idle", "parse", "stored", "single", "stored one", "refused"}]
      /\ hand' \in [Worker -> SUBSET (1 .. delivered)]
  BY DEF DeliveryInv, TypeOK
<1>3. TypeOK'
  BY <1>2 DEF DeliveryInv, TypeOK, injector
<1>4. \A v \in Worker : v # w => pc'[v] = pc[v] /\ hand'[v] = hand[v]
  BY DEF DeliveryInv, TypeOK
<1>5. pc'[w] = l /\ hand'[w] = h
  BY DEF DeliveryInv, TypeOK
<1>6. Busy' /\ AckStored'
  BY <1>4, <1>5 DEF DeliveryInv, Busy, AckStored
<1> QED BY <1>1, <1>3, <1>6 DEF DeliveryInv

LEMMA CollectDelivery ==
  ASSUME DeliveryInv, NEW w \in Worker, CollectEntries(w)
  PROVE  DeliveryInv'
<1> USE DEF DeliveryInv
<1>1. /\ stream \in Seq(Line) /\ delivered \in 0 .. Len(stream) /\ stale \subseteq pending
      /\ pending \subseteq 1 .. delivered /\ delivered \in Nat /\ Len(stream) \in Nat
  BY DeliveredTypes DEF TypeOK
<1> DEFINE d == delivered + Cardinality(Read)
<1>2. /\ Read \subseteq 1 .. d /\ d \in delivered .. Len(stream)
      /\ \A m \in delivered + 1 .. d : m \in Read
  BY <1>1, ReadIsNext
<1>3. /\ pending' = pending \cup Read /\ stale' = stale \ Claimed /\ delivered' = d
      /\ hand' = [hand EXCEPT ![w] = Claimed \cup Read] /\ pc' = [pc EXCEPT ![w] = "parse"]
      /\ UNCHANGED <<kind, injector, stream, dead, stored, tries, faults>>
  BY DEF CollectEntries, Goto
<1> HIDE DEF d
<1>4. Claimed \subseteq stale
  BY DEF Claimed, FirstOf
<1>5. 1 .. delivered \subseteq 1 .. d
  BY <1>1, <1>2
<1>6. Claimed \cup Read \subseteq 1 .. d
  BY <1>1, <1>2, <1>4, <1>5
<1>7. hand' \in [Worker -> SUBSET (1 .. d)]
  <2>1. hand \in [Worker -> SUBSET (1 .. d)]
    BY <1>5 DEF TypeOK
  <2> QED BY <1>3, <1>6, <2>1
<1>8. pc' \in [Worker -> {"idle", "parse", "stored", "single", "stored one", "refused"}]
  BY <1>3 DEF TypeOK
<1>9. pending' \subseteq 1 .. d /\ stale' \subseteq pending' /\ dead' \subseteq 1 .. d
  BY <1>1, <1>2, <1>3, <1>5 DEF TypeOK
<1>10. d \in 0 .. Len(stream)
  BY <1>1, <1>2
<1>11. TypeOK'
  BY <1>3, <1>7, <1>8, <1>9, <1>10 DEF TypeOK, injector
<1>12. \A v \in Worker : v # w => pc'[v] = pc[v] /\ hand'[v] = hand[v]
  BY <1>3 DEF TypeOK
<1>13. pc'[w] = "parse"
  BY <1>3 DEF TypeOK
<1>14. Busy' /\ AckStored'
  <2>1. stream' = stream /\ stored' = stored
    BY <1>3
  <2> QED BY <2>1, <1>12, <1>13 DEF Busy, AckStored
<1>15. AckedLanded'
  <2> SUFFICES ASSUME NEW m \in 1 .. d PROVE m \in pending' \/ stream[m] \in stored \/ m \in dead
    BY <1>3 DEF AckedLanded
  <2>1. CASE m \in 1 .. delivered
    BY <1>3, <2>1 DEF AckedLanded
  <2>2. CASE m \notin 1 .. delivered
    BY <1>1, <1>2, <1>3, <2>2
  <2> QED BY <2>1, <2>2
<1> QED BY <1>11, <1>14, <1>15

\* What the lemmas on a worker's step ask of the parts it leaves alone.
LEMMA Untouched ==
  ASSUME DeliveryInv
  PROVE  /\ stale \subseteq pending /\ dead \subseteq 1 .. delivered /\ stored \subseteq Line
         /\ faults \in 0 .. MaxFaults /\ MaxFaults \in Nat
         /\ tries \in [Worker -> 0 .. Attempts - 1]
         /\ hand \in [Worker -> SUBSET (1 .. delivered)]
         /\ pc \in [Worker -> {"idle", "parse", "stored", "single", "stored one", "refused"}]
         /\ \A w \in Worker : hand[w] \subseteq 1 .. delivered
  BY IngestionAssumption DEF DeliveryInv, TypeOK

LEMMA FaultType ==
  ASSUME DeliveryInv, Fault
  PROVE  faults' \in 0 .. MaxFaults
<1>1. faults \in 0 .. MaxFaults /\ MaxFaults \in Nat
  BY Untouched
<1> QED BY <1>1 DEF Fault

\* The events of messages are lines of the file.
LEMMA StoredType ==
  ASSUME DeliveryInv, NEW ms \in SUBSET (1 .. delivered)
  PROVE  /\ StoredWith(ms) \subseteq Line /\ stored \subseteq StoredWith(ms)
         /\ \A m \in ms : stream[m] \in StoredWith(ms)
<1>1. \A m \in 1 .. delivered : stream[m] \in Line
  <2>1. delivered \in Nat /\ Len(stream) \in Nat /\ delivered <= Len(stream)
    BY DeliveredTypes DEF DeliveryInv
  <2>2. 1 .. delivered \subseteq 1 .. Len(stream)
    BY <2>1
  <2>3. \A m \in 1 .. Len(stream) : stream[m] \in Line
    BY DeliveredTypes, ElementOfSeq DEF DeliveryInv
  <2> QED BY <2>2, <2>3
<1> QED BY <1>1, Untouched DEF StoredWith

\* The message a worker dead-letters is one of those it has in hand.
LEMMA PoisonInHand ==
  ASSUME DeliveryInv, NEW w \in Worker, Poison(w) # {}
  PROVE  /\ Least(Poison(w)) \in Poison(w) /\ Least(Poison(w)) \in 1 .. delivered
         /\ pc[w] = "parse" \/ (pc[w] = "refused" /\ Least(Poison(w)) = Least(hand[w]))
<1>1. hand[w] \subseteq 1 .. delivered /\ delivered \in Nat
  BY Untouched, DeliveredTypes DEF DeliveryInv
<1>2. CASE pc[w] = "parse"
  <2>1. Poison(w) \in SUBSET (1 .. delivered) /\ Poison(w) \in SUBSET Nat
    BY <1>1, <1>2 DEF Poison, Malformed
  <2>2. Least(Poison(w)) \in Poison(w)
    BY <2>1, LeastElement
  <2> QED BY <1>2, <2>1, <2>2
<1>3. CASE pc[w] = "refused"
  <2>1. hand[w] # {}
    BY <1>3 DEF DeliveryInv, Busy
  <2>2. Least(hand[w]) \in 1 .. delivered
    BY <2>1, FirstInHand DEF DeliveryInv
  <2>3. Poison(w) = {Least(hand[w])}
    BY <1>3 DEF Poison
  <2>4. Poison(w) \in SUBSET Nat
    BY <1>1, <2>2, <2>3
  <2>5. Least(Poison(w)) \in Poison(w)
    BY <2>3, <2>4, LeastElement
  <2> QED BY <1>3, <2>2, <2>3, <2>5
<1> QED BY <1>2, <1>3 DEF Poison

LEMMA DeadLetterDelivery ==
  ASSUME DeliveryInv, NEW w \in Worker, DeadLetter(w)
  PROVE  DeliveryInv'
<1> DEFINE m == Least(Poison(w))
           l == IF pc[w] = "parse" THEN "parse" ELSE IF hand[w] = {m} THEN "idle" ELSE "single"
<1>1. /\ dead' = dead \cup {m} /\ pending' = pending \ {m} /\ stale' = stale \ {m}
      /\ UNCHANGED <<delivered, kind, injector, stream, stored, tries, faults>>
      /\ hand' = [hand EXCEPT ![w] = hand[w] \ {m}]
  BY Untouched DEF DeadLetter, Acknowledge, Acked, Next1
<1>2. pc' = [pc EXCEPT ![w] = l]
  <2>1. CASE pc[w] = "parse"
    BY <2>1, Untouched DEF DeadLetter, Next1
  <2>2. CASE pc[w] # "parse"
    BY <2>2 DEF DeadLetter, Next1, Goto
  <2> QED BY <2>1, <2>2
<1>3. m \in 1 .. delivered /\ (pc[w] = "parse" \/ (pc[w] = "refused" /\ m = Least(hand[w])))
  BY PoisonInHand DEF DeadLetter
<1>4. l = "single" => hand[w] \ {m} # {}
  BY <1>3 DEF DeliveryInv, Busy
<1>5. l \in {"idle", "parse", "single"}
  OBVIOUS
<1> HIDE DEF l, m
<1>6. stale' \subseteq pending' /\ pending' \subseteq pending /\ dead' \subseteq 1 .. delivered
  BY <1>1, <1>3, Untouched
<1>7. \A x \in pending \ pending' : stream[x] \in stored' \/ x \in dead'
  BY <1>1
<1> QED
  BY <1>1, <1>2, <1>4, <1>5, <1>6, <1>7, Untouched, GoOnDelivery

\* The steps that send a worker back to its loop.
LEMMA BackDelivery ==
  ASSUME DeliveryInv, NEW w \in Worker,
         DeadLetterBreaks(w) \/ NothingLeft(w) \/ Raises(w) \/ Ack(w) \/ NormalizerDies(w)
  PROVE  DeliveryInv'
<1>1. CASE DeadLetterBreaks(w)
  <2>1. Least(Poison(w)) \in 1 .. delivered
    BY <1>1, PoisonInHand DEF DeadLetterBreaks
  <2>2. faults' \in 0 .. MaxFaults
    BY <1>1, FaultType DEF DeadLetterBreaks
  <2> QED BY <1>1, <2>1, <2>2, Untouched, ReturnDelivery DEF DeadLetterBreaks, group
<1>2. CASE NothingLeft(w)
  BY <1>2, Untouched, ReturnDelivery DEF NothingLeft, group
<1>3. CASE Raises(w)
  BY <1>3, Untouched, ReturnDelivery DEF Raises, group
<1>4. CASE Ack(w)
  <2>1. /\ pending' = pending \ hand[w] /\ stale' = stale \ hand[w] /\ Return(w)
        /\ UNCHANGED <<delivered, kind, injector, stream, dead, stored, faults>>
    BY <1>4 DEF Ack, Acknowledge, Acked
  <2>2. \A m \in hand[w] : stream[m] \in stored
    BY <1>4 DEF Ack, DeliveryInv, AckStored
  <2> QED BY <2>1, <2>2, Untouched, ReturnDelivery
<1>5. CASE NormalizerDies(w)
  <2>1. faults' \in 0 .. MaxFaults
    BY <1>5, FaultType DEF NormalizerDies
  <2> QED BY <1>5, <2>1, Untouched, ReturnDelivery DEF NormalizerDies, group
<1> QED BY <1>1, <1>2, <1>3, <1>4, <1>5

\* The steps that store, or fail to.
LEMMA StoreDelivery ==
  ASSUME DeliveryInv, NEW w \in Worker, Persist(w) \/ FallBack(w) \/ PersistOne(w)
  PROVE  DeliveryInv'
<1>1. hand = [hand EXCEPT ![w] = hand[w]] /\ hand[w] \in SUBSET (1 .. delivered)
  BY Untouched
<1>2. CASE Persist(w)
  <2>1. pc' = [pc EXCEPT ![w] = "stored"] /\ stored' = StoredWith(hand[w])
    BY <1>2 DEF Persist, Goto
  <2>2. UNCHANGED <<kind, injector, stream, delivered, pending, stale, dead, hand, tries, faults>>
    BY <1>2 DEF Persist, group
  <2>3. stored \subseteq stored' /\ stored' \subseteq Line /\ \A m \in hand[w] : stream[m] \in stored'
    BY <1>1, <2>1, StoredType
  <2> QED BY <1>1, <2>1, <2>2, <2>3, Untouched, GoOnDelivery
<1>3. CASE FallBack(w)
  <2>1. pc' = [pc EXCEPT ![w] = "single"] /\ hand[w] # {}
    BY <1>3 DEF FallBack, Goto, InHand
  <2>2. UNCHANGED <<kind, injector, stream, delivered, pending, stale, dead, stored, hand, faults>>
    BY <1>3 DEF FallBack, group
  <2>3. tries' \in [Worker -> 0 .. Attempts - 1]
    <3>1. Attempts \in Nat \ {0} /\ tries \in [Worker -> 0 .. Attempts - 1]
      BY IngestionAssumption, Untouched
    <3>2. 0 \in 0 .. Attempts - 1 /\ tries' = [tries EXCEPT ![w] = 0]
      BY <1>3, <3>1 DEF FallBack
    <3> QED BY <3>1, <3>2
  <2> QED BY <1>1, <2>1, <2>2, <2>3, Untouched, GoOnDelivery
<1>4. CASE PersistOne(w)
  <2> DEFINE m == Least(hand[w])
             l == IF Storable(m) THEN "stored one" ELSE "refused"
  <2>1. pc' = [pc EXCEPT ![w] = l] /\ stored' = IF Storable(m) THEN StoredWith({m}) ELSE stored
    BY <1>4 DEF PersistOne, Goto
  <2>2. UNCHANGED <<kind, injector, stream, delivered, pending, stale, dead, hand, tries, faults>>
    BY <1>4 DEF PersistOne, group
  <2>3. hand[w] # {}
    BY <1>4 DEF PersistOne, DeliveryInv, Busy
  <2>4. {m} \in SUBSET (1 .. delivered)
    BY <2>3, FirstInHand DEF DeliveryInv
  <2>5. /\ stored \subseteq StoredWith({m}) /\ StoredWith({m}) \subseteq Line
        /\ stream[m] \in StoredWith({m})
    BY <2>4, StoredType
  <2>6. /\ stored \subseteq stored' /\ stored' \subseteq Line
        /\ l = "stored one" => stream[m] \in stored'
    BY <2>1, <2>5, Untouched
  <2>7. l \in {"stored one", "refused"} /\ m = Least(hand[w])
    OBVIOUS
  <2> HIDE DEF l, m
  <2> QED BY <1>1, <2>1, <2>2, <2>3, <2>6, <2>7, Untouched, GoOnDelivery
<1> QED BY <1>2, <1>3, <1>4

LEMMA TransientDelivery ==
  ASSUME DeliveryInv, NEW w \in Worker, TransientError(w)
  PROVE  DeliveryInv'
<1>1. faults' \in 0 .. MaxFaults
  BY FaultType, Untouched DEF TransientError
<1>2. hand = [hand EXCEPT ![w] = hand[w]] /\ hand[w] \in SUBSET (1 .. delivered)
      /\ pc = [pc EXCEPT ![w] = pc[w]] /\ pc[w] = "parse"
  BY Untouched DEF TransientError, Parsed
<1>3. stored \subseteq stored' /\ stored' \subseteq Line
  BY <1>2, StoredType, Untouched DEF TransientError
<1>4. UNCHANGED <<kind, injector, stream, delivered, pending, stale, dead>>
  BY DEF TransientError, group
<1>5. CASE tries[w] + 1 < Attempts
  <2>1. UNCHANGED <<pc, hand>> /\ tries' = [tries EXCEPT ![w] = @ + 1]
    BY <1>5 DEF TransientError
  <2>2. tries' \in [Worker -> 0 .. Attempts - 1]
    <3>1. Attempts \in Nat /\ tries \in [Worker -> 0 .. Attempts - 1]
      BY IngestionAssumption, Untouched
    <3>2. tries[w] + 1 \in 0 .. Attempts - 1
      BY <1>5, <3>1
    <3> QED BY <2>1, <3>1, <3>2
  <2> QED BY <1>1, <1>2, <1>3, <1>4, <2>1, <2>2, Untouched, GoOnDelivery
<1>6. CASE ~(tries[w] + 1 < Attempts)
  <2>1. Return(w)
    BY <1>6 DEF TransientError
  <2> QED BY <1>1, <1>3, <1>4, <2>1, Untouched, ReturnDelivery
<1> QED BY <1>5, <1>6

\* The steps of the per-event fallback that acknowledge or give up.
LEMMA SingleDelivery ==
  ASSUME DeliveryInv, NEW w \in Worker, AckOne(w) \/ OneFails(w)
  PROVE  DeliveryInv'
<1>1. CASE AckOne(w)
  <2> DEFINE m == Least(hand[w])
             l == IF hand[w] = {m} THEN "idle" ELSE "single"
  <2>1. /\ pending' = pending \ {m} /\ stale' = stale \ {m}
        /\ hand' = [hand EXCEPT ![w] = hand[w] \ {m}] /\ pc' = [pc EXCEPT ![w] = l]
        /\ UNCHANGED <<delivered, kind, injector, stream, dead, stored, tries, faults>>
    BY <1>1, Untouched DEF AckOne, Acknowledge, Acked, Next1, Goto
  <2>2. stream[m] \in stored /\ hand[w] # {}
    BY <1>1 DEF AckOne, DeliveryInv, AckStored, Busy
  <2>3. l \in {"idle", "single"} /\ (l = "single" => hand[w] \ {m} # {})
    BY <2>2
  <2> HIDE DEF l, m
  <2> QED BY <2>1, <2>2, <2>3, Untouched, GoOnDelivery
<1>2. CASE OneFails(w)
  <2>1. /\ pc' = [pc EXCEPT ![w] = "refused"] /\ hand' = [hand EXCEPT ![w] = hand[w]]
        /\ UNCHANGED <<kind, injector, stream, delivered, pending, stale, dead, stored, tries>>
    BY <1>2, Untouched DEF OneFails, Goto, group
  <2>2. hand[w] # {} /\ faults' \in 0 .. MaxFaults
    BY <1>2, FaultType DEF OneFails, DeliveryInv, Busy
  <2> QED BY <2>1, <2>2, Untouched, GoOnDelivery
<1> QED BY <1>1, <1>2

----------------------------------------------------------------------------
(* Every step of the system *)

LEMMA NextDelivery == DeliveryInv /\ [Next]_vars => DeliveryInv'
<1> SUFFICES ASSUME DeliveryInv, [Next]_vars PROVE DeliveryInv'
  OBVIOUS
<1>1. CASE Injector
  BY <1>1, InjectorDelivery
<1>2. CASE TimePasses
  BY <1>2 DEF TimePasses, DeliveryInv, TypeOK, Busy, AckStored, AckedLanded, injector, worker
<1>3. ASSUME NEW w \in Worker, Process(w) \/ Fail(w)
      PROVE  DeliveryInv'
  BY <1>3, CollectDelivery, DeadLetterDelivery, BackDelivery, StoreDelivery,
     TransientDelivery, SingleDelivery DEF Process, Fail
<1>4. CASE Idle \/ UNCHANGED vars
  BY <1>4 DEF Idle, DeliveryInv, TypeOK, Busy, AckStored, AckedLanded, vars, injector,
              group, worker
<1> QED BY <1>1, <1>2, <1>3, <1>4 DEF Next

LEMMA AlwaysDelivery == Spec => []DeliveryInv
  BY InitDelivery, NextDelivery, PTL DEF Spec

----------------------------------------------------------------------------
(* The replay skips no line *)

Sent == {stream[m] : m \in Message}

\* What a run has taken from the file is on the stream.
ReplayInv == ReplayLeavesNoGap /\ (inj.pc # "idle" => 1 .. inj.at \subseteq Sent)

LEMMA InitReplay == Init => ReplayInv
<1> SUFFICES ASSUME Init PROVE ReplayInv
  OBVIOUS
<1>1. Message = {} /\ 1 .. checkpoint = {}
  BY DEF Init, Message
<1> QED BY <1>1 DEF Init, ReplayInv, ReplayLeavesNoGap

\* What SendChunk, or what SendBreaks, appends continues the file.
LEMMA SendReplay ==
  ASSUME TypeOK, ReplayInv, inj.pc = "fill", Readable, NEW end \in inj.at .. ChunkEnd,
         stream' = stream \o Chunk(end), UNCHANGED <<kind, checkpoint>>
  PROVE  ReplayLeavesNoGap' /\ 1 .. end \subseteq Sent'
<1>1. /\ stream \in Seq(Line) /\ Len(stream) \in Nat /\ Message = 1 .. Len(stream)
      /\ inj.at \in Nat /\ ChunkEnd \in Nat /\ end \in Nat /\ inj.at <= end
      /\ end <= ChunkEnd /\ Chunk(end) \in Seq(Line)
  <2>1. stream \in Seq(Line) /\ Len(stream) \in Nat /\ Message = 1 .. Len(stream)
    BY DeliveredTypes DEF Message
  <2>2. inj.at \in Nat /\ ChunkEnd \in Nat
    <3>1. inj.at \in 0 .. Lines /\ Lines \in Nat
      BY IngestionAssumption DEF TypeOK
    <3> QED BY <3>1, ChunkOfLines
  <2>3. Chunk(end) \in Seq(Line)
    BY ChunkOfLines
  <2> QED BY <2>1, <2>2, <2>3
<1>2. Len(Chunk(end)) = end - inj.at /\ \A k \in 1 .. end - inj.at : Chunk(end)[k] = inj.at + k
  <2>1. end - inj.at \in Nat
    BY <1>1
  <2> QED BY <2>1 DEF Chunk
<1>3. /\ Message' = 1 .. Len(stream) + end - inj.at
      /\ \A m \in Message : stream'[m] = stream[m]
      /\ \A k \in 1 .. end - inj.at : stream'[Len(stream) + k] = inj.at + k
  <2>1. Len(stream') = Len(stream) + Len(Chunk(end)) /\ stream' \in Seq(Line)
    BY <1>1, ConcatProperties
  <2>2. Message' = 1 .. Len(stream) + end - inj.at
    BY <1>1, <1>2, <2>1, LenProperties DEF Message
  <2>3. \A m \in Message : stream'[m] = stream[m]
    BY <1>1, <1>2, ConcatProperties
  <2>4. ASSUME NEW k \in 1 .. end - inj.at
        PROVE  stream'[Len(stream) + k] = inj.at + k
    <3>1. stream'[Len(stream) + k] = Chunk(end)[k]
      BY <1>1, <1>2, ConcatProperties
    <3> QED BY <1>2, <3>1
  <2> QED BY <2>2, <2>3, <2>4
<1>4. Message \subseteq Message' /\ Sent \subseteq Sent'
  BY <1>1, <1>3 DEF Sent
<1>5. 1 .. end \subseteq Sent'
  <2>1. ASSUME NEW l \in inj.at + 1 .. end PROVE l \in Sent'
    <3>1. PICK k \in 1 .. end - inj.at : inj.at + k = l
      <4>1. l - inj.at \in 1 .. end - inj.at /\ inj.at + (l - inj.at) = l
        BY <1>1
      <4> QED BY <4>1
    <3>2. stream'[Len(stream) + k] = l
      BY <1>3, <3>1
    <3>3. Len(stream) + k \in 1 .. Len(stream) + end - inj.at
      BY <1>1
    <3>4. Len(stream) + k \in Message'
      BY <1>3, <3>3
    <3> QED BY <3>2, <3>4 DEF Sent
  <2>2. \A l \in 1 .. inj.at : l \in Sent'
    BY <1>4 DEF ReplayInv
  <2>3. \A l \in 1 .. end : l \in 1 .. inj.at \/ l \in inj.at + 1 .. end
    BY <1>1
  <2> QED BY <2>1, <2>2, <2>3
<1>6. ASSUME NEW m \in Message', m \notin Message
       PROVE  \E k \in 1 .. end - inj.at : m = Len(stream) + k
  <2>1. m \in 1 .. Len(stream) + end - inj.at /\ ~(m <= Len(stream))
    BY <1>1, <1>3, <1>6
  <2>2. m - Len(stream) \in 1 .. end - inj.at /\ m = Len(stream) + (m - Len(stream))
    BY <1>1, <2>1
  <2> QED BY <2>2
<1>7. ASSUME NEW m \in Message', stream'[m] > 1
      PROVE  \E o \in 1 .. m - 1 : stream'[o] = stream'[m] - 1
  <2>1. CASE m \in Message
    <3>1. PICK o \in 1 .. m - 1 : stream[o] = stream[m] - 1
      BY <1>3, <1>7, <2>1 DEF ReplayInv, ReplayLeavesNoGap
    <3>2. o \in Message
      BY <1>1, <2>1, <3>1
    <3> QED BY <1>3, <2>1, <3>1, <3>2
  <2>2. CASE m \notin Message
    <3>1. PICK k \in 1 .. end - inj.at : m = Len(stream) + k
      BY <1>6, <2>2
    <3>2. stream'[m] = inj.at + k
      BY <1>3, <3>1
    <3>5. k \in Nat /\ inj.at + k > 1
      BY <1>1, <1>7, <3>2
    <3>3. CASE k = 1
      <4>1. inj.at \in 1 .. inj.at /\ stream'[m] - 1 = inj.at
        <5>1. inj.at \in Nat /\ inj.at + 1 > 1 /\ stream'[m] = inj.at + 1
          BY <1>1, <3>2, <3>3, <3>5
        <5>2. ASSUME NEW a \in Nat, a + 1 > 1 PROVE a \in 1 .. a /\ (a + 1) - 1 = a
          BY <5>2
        <5> QED BY <5>1, <5>2
      <4>2. PICK o \in Message : stream[o] = inj.at
        BY <4>1 DEF ReplayInv, Sent
      <4>3. stream'[o] = inj.at /\ o \in 1 .. m - 1
        BY <1>1, <1>3, <3>1, <3>3, <4>2
      <4> QED BY <4>1, <4>3
    <3>4. CASE k # 1
      <4>1. PICK j \in 1 .. end - inj.at : k = j + 1
        <5>1. k - 1 \in 1 .. end - inj.at /\ k = (k - 1) + 1
          BY <1>1, <3>4
        <5> QED BY <5>1
      <4>2. m - 1 = Len(stream) + j /\ m - 1 \in 1 .. m - 1
        BY <1>1, <3>1, <4>1
      <4>3. stream'[m - 1] = inj.at + j /\ inj.at + j = stream'[m] - 1
        <5>1. stream'[m - 1] = inj.at + j
          BY <1>3, <4>2
        <5>2. inj.at \in Nat /\ j \in Nat /\ k = j + 1
          BY <1>1, <4>1
        <5>3. \A a, b \in Nat : a + b = (a + (b + 1)) - 1
          OBVIOUS
        <5> QED BY <3>2, <5>1, <5>2, <5>3
      <4> QED BY <4>2, <4>3
    <3> QED BY <3>3, <3>4
  <2> QED BY <2>1, <2>2
<1>8. ASSUME NEW m \in Message' PROVE kind'[stream'[m]] # "unreadable"
  <2>1. CASE m \in Message
    BY <1>3, <2>1 DEF ReplayInv, ReplayLeavesNoGap
  <2>2. CASE m \notin Message
    <3>1. PICK k \in 1 .. end - inj.at : m = Len(stream) + k
      BY <1>6, <2>2
    <3>2. stream'[m] = inj.at + k
      BY <1>3, <3>1
    <3>3. inj.at + k \in inj.at + 1 .. ChunkEnd
      BY <1>1
    <3> QED BY <3>2, <3>3 DEF Readable
  <2> QED BY <2>1, <2>2
<1>9. 1 .. checkpoint' \subseteq Sent'
  BY <1>4 DEF ReplayInv, ReplayLeavesNoGap, Sent
<1> QED BY <1>5, <1>7, <1>8, <1>9 DEF ReplayLeavesNoGap, Sent

LEMMA InjectorReplay == TypeOK /\ ReplayInv /\ Injector => ReplayInv'
<1> SUFFICES ASSUME TypeOK, ReplayInv, Injector PROVE ReplayInv'
  OBVIOUS
<1>1. inj \in [pc : {"idle", "fill", "sent"}, at : 0 .. Lines, stop : Nat] /\ checkpoint \in 0 .. Lines
  BY DEF TypeOK
<1>2. CASE StartRun
  <2>1. PICK reset \in BOOLEAN :
          /\ inj'.at = IF reset THEN 0 ELSE Least({checkpoint, Lines})
          /\ checkpoint' = IF reset THEN 0 ELSE checkpoint
    BY <1>2 DEF StartRun
  <2>2. Least({checkpoint, Lines}) <= checkpoint /\ Least({checkpoint, Lines}) \in Nat
    BY <1>1, LeastElement, IngestionAssumption
  <2>3. inj'.at <= checkpoint /\ checkpoint' <= checkpoint /\ {inj'.at, checkpoint'} \subseteq Nat
    BY <1>1, <2>1, <2>2
  <2>4. 1 .. inj'.at \subseteq 1 .. checkpoint /\ 1 .. checkpoint' \subseteq 1 .. checkpoint
    BY <1>1, <2>3
  <2>5. Sent' = Sent /\ Message' = Message /\ UNCHANGED <<stream, kind>>
    BY <1>2 DEF StartRun, Sent, Message
  <2> QED BY <2>4, <2>5 DEF ReplayInv, ReplayLeavesNoGap, Sent
<1>3. CASE SendChunk
  <2>1. inj.at \in Nat /\ ChunkEnd \in Nat /\ inj.at < ChunkEnd
    BY <1>1, <1>3, ChunkOfLines, IngestionAssumption DEF SendChunk
  <2>2. ChunkEnd \in inj.at .. ChunkEnd /\ inj'.at = ChunkEnd
    BY <1>1, <1>3, <2>1 DEF SendChunk
  <2> QED BY <1>3, <2>2, SendReplay DEF SendChunk, ReplayInv
<1>4. CASE SendBreaks
  <2>1. PICK end \in inj.at .. ChunkEnd : stream' = stream \o Chunk(end)
    BY <1>4 DEF SendBreaks
  <2>2. inj'.pc = "idle"
    BY <1>1, <1>4 DEF SendBreaks
  <2> QED BY <1>4, <2>1, <2>2, SendReplay DEF SendBreaks, ReplayInv
<1>5. CASE SaveCheckpoint
  <2>1. checkpoint' = inj.at /\ inj'.at = inj.at /\ 1 .. inj.at \subseteq Sent
    BY <1>1, <1>5 DEF SaveCheckpoint, Checkpoint, ReplayInv
  <2>2. Sent' = Sent /\ Message' = Message /\ UNCHANGED <<stream, kind>>
    BY <1>5 DEF SaveCheckpoint, Sent, Message
  <2> QED BY <2>1, <2>2 DEF ReplayInv, ReplayLeavesNoGap, Sent
<1>6. CASE EndRun \/ InjectorDies
  <2>1. inj'.pc = "idle" /\ UNCHANGED <<kind, checkpoint, stream>>
    BY <1>1, <1>6 DEF EndRun, InjectorDies
  <2> QED BY <2>1 DEF ReplayInv, ReplayLeavesNoGap, Message
<1> QED BY <1>2, <1>3, <1>4, <1>5, <1>6 DEF Injector

LEMMA NextReplay == TypeOK /\ ReplayInv /\ [Next]_vars => ReplayInv'
<1> SUFFICES ASSUME TypeOK, ReplayInv, [Next]_vars PROVE ReplayInv'
  OBVIOUS
<1>1. CASE UNCHANGED <<kind, injector, stream>>
  BY <1>1 DEF injector, ReplayInv, ReplayLeavesNoGap, Sent, Message
<1>2. ASSUME NEW w \in Worker, Process(w) \/ Fail(w) PROVE UNCHANGED <<kind, injector, stream>>
  BY <1>2 DEF Process, Fail, CollectEntries, DeadLetter, NothingLeft, Persist, FallBack, Raises,
       Ack, PersistOne, AckOne, DeadLetterBreaks, TransientError, OneFails, NormalizerDies
<1>3. CASE TimePasses \/ Idle \/ UNCHANGED vars
  BY <1>1, <1>3 DEF TimePasses, Idle, vars
<1> QED BY <1>1, <1>2, <1>3, InjectorReplay DEF Next

----------------------------------------------------------------------------
(* Dead letters *)

\* Why a message may be dead.
Reason(m) ==
  \/ KindOf(m) \in {"malformed", "constraint"}
  \/ Storable(m) /\ faults > 0 /\ \E l \in Line : kind[l] = "constraint"

\* A worker goes message by message only over a batch with a row that breaks a
\* constraint, and gives up a good one only after a fault.
OneByOne(w) ==
  pc[w] \in {"single", "stored one", "refused"} =>
    /\ \A m \in hand[w] : KindOf(m) \in {"constraint", "good"}
    /\ \E l \in Line : kind[l] = "constraint"
    /\ pc[w] = "refused" /\ Storable(Least(hand[w])) => faults > 0

DeadInv == (\A m \in dead : Reason(m)) /\ \A w \in Worker : OneByOne(w)

LEMMA InitDead == Init => DeadInv
BY DEF Init, DeadInv, OneByOne

\* What a step of one worker has to keep.
LEMMA WorkerDead ==
  ASSUME DeadInv, NEW w \in Worker, UNCHANGED <<kind, stream>>,
         faults \in Nat, faults' \in Nat, faults <= faults',
         \A v \in Worker \ {w} : pc'[v] = pc[v] /\ hand'[v] = hand[v],
         \A m \in dead' : m \in dead \/ Reason(m),
         OneByOne(w)'
  PROVE  DeadInv'
<1>1. ASSUME NEW m \in dead' PROVE Reason(m)'
  BY DEF DeadInv, Reason, KindOf, Storable
<1>2. ASSUME NEW v \in Worker, v # w PROVE OneByOne(v)'
  <2>1. OneByOne(v) /\ pc'[v] = pc[v] /\ hand'[v] = hand[v] /\ (faults > 0 => faults' > 0)
    BY <1>2 DEF DeadInv
  <2>2. \A m : KindOf(m)' = KindOf(m) /\ (kind' = kind)
    BY DEF KindOf
  <2> QED BY <2>1, <2>2 DEF OneByOne, Storable
<1> QED BY <1>1, <1>2 DEF DeadInv

\* A message in hand carries a line of the file, of one kind or another.
LEMMA InHandKind ==
  ASSUME DeliveryInv, ReplayLeavesNoGap, NEW w \in Worker, NEW m \in hand[w]
  PROVE  stream[m] \in Line /\ KindOf(m) \in Kind \ {"unreadable"}
<1>1. m \in Message
  <2>1. m \in 1 .. delivered
    BY Untouched
  <2> QED BY <2>1, DeliveredTypes DEF Message, DeliveryInv
<1>2. stream[m] \in Line
  BY <1>1, ElementOfSeq, DeliveredTypes DEF Message, DeliveryInv
<1>3. kind \in [Line -> Kind]
  BY IngestionAssumption DEF DeliveryInv, TypeOK
<1> QED BY <1>1, <1>2, <1>3 DEF KindOf, ReplayLeavesNoGap

\* The message to be dead-lettered has a reason.
LEMMA PoisonReason ==
  ASSUME DeliveryInv, DeadInv, NEW w \in Worker, Poison(w) # {}
  PROVE  Reason(Least(Poison(w)))
<1>1. CASE pc[w] = "parse"
  <2>1. Least(Poison(w)) \in Malformed(w)
    BY <1>1, PoisonInHand DEF Poison
  <2> QED BY <2>1 DEF Malformed, Reason
<1>2. CASE pc[w] = "refused"
  <2>1. Least(Poison(w)) = Least(hand[w]) /\ Least(hand[w]) \in hand[w]
    BY <1>2, PoisonInHand, FirstInHand DEF DeliveryInv, Busy
  <2> QED BY <1>2, <2>1 DEF DeadInv, OneByOne, Reason, Storable
<1> QED BY <1>1, <1>2, PoisonInHand

LEMMA Faults ==
  ASSUME DeliveryInv
  PROVE  faults \in Nat /\ (Fault => faults' \in Nat /\ faults <= faults' /\ faults' > 0)
<1>1. faults \in 0 .. MaxFaults
  BY Untouched
<1> QED BY <1>1 DEF Fault

\* A worker is done with one message and turns to the next.
LEMMA NextOneDead ==
  ASSUME DeliveryInv, DeadInv, NEW w \in Worker, NEW m, Next1(w, m), UNCHANGED <<kind, stream>>,
         pc[w] \in {"parse", "stored one", "refused"}
  PROVE  OneByOne(w)' /\ \A v \in Worker \ {w} : pc'[v] = pc[v] /\ hand'[v] = hand[v]
<1>1. /\ hand'[w] = hand[w] \ {m} /\ pc'[w] # "refused"
      /\ pc'[w] = "single" => pc[w] # "parse"
      /\ pc'[w] = "stored one" => FALSE
      /\ \A v \in Worker \ {w} : pc'[v] = pc[v] /\ hand'[v] = hand[v]
  BY Untouched DEF Next1, Goto
<1>2. OneByOne(w)'
  <2>1. ASSUME pc'[w] = "single"
        PROVE  /\ \A n \in hand'[w] : KindOf(n) \in {"constraint", "good"}
               /\ \E l \in Line : kind[l] = "constraint"
    <3>1. pc[w] \in {"single", "stored one", "refused"}
      BY <1>1, <2>1 DEF Next1
    <3> QED BY <1>1, <3>1 DEF DeadInv, OneByOne
  <2> QED BY <1>1, <2>1 DEF OneByOne, KindOf
<1> QED BY <1>1, <1>2

LEMMA ProcessDead ==
  ASSUME DeliveryInv, DeadInv, ReplayLeavesNoGap, NEW w \in Worker, Process(w)
  PROVE  DeadInv'
<1>1. faults \in Nat
  BY Faults
<1>2. CASE CollectEntries(w) \/ NothingLeft(w) \/ Persist(w) \/ Raises(w) \/ Ack(w)
  <2>1. /\ pc'[w] \in {"idle", "parse", "stored"} /\ UNCHANGED <<kind, stream, dead, faults>>
        /\ \A v \in Worker \ {w} : pc'[v] = pc[v] /\ hand'[v] = hand[v]
    BY <1>2, Untouched DEF CollectEntries, NothingLeft, Persist, Raises, Ack, Return, Goto
  <2>2. OneByOne(w)'
    BY <2>1 DEF OneByOne
  <2> QED BY <1>1, <2>1, <2>2, WorkerDead
<1>3. CASE FallBack(w)
  <2>1. /\ pc'[w] = "single" /\ UNCHANGED <<kind, stream, dead, faults, hand>>
        /\ \A v \in Worker \ {w} : pc'[v] = pc[v] /\ hand'[v] = hand[v]
    BY <1>3, Untouched DEF FallBack, Goto
  <2>2. \A m \in hand[w] : KindOf(m) \in {"constraint", "good"}
    BY <1>3, InHandKind DEF FallBack, Parsed, Malformed, InHand, Kind
  <2>3. \E l \in Line : kind[l] = "constraint"
    BY <1>3, InHandKind DEF FallBack, InHand, KindOf
  <2>4. OneByOne(w)'
    BY <2>1, <2>2, <2>3 DEF OneByOne, KindOf
  <2> QED BY <1>1, <2>1, <2>4, WorkerDead
<1>4. CASE DeadLetter(w)
  <2>1. dead' = dead \cup {Least(Poison(w))} /\ UNCHANGED <<kind, stream, faults>>
    BY <1>4 DEF DeadLetter
  <2>2. OneByOne(w)' /\ \A v \in Worker \ {w} : pc'[v] = pc[v] /\ hand'[v] = hand[v]
    BY <1>4, <2>1, NextOneDead, PoisonInHand DEF DeadLetter
  <2>3. Reason(Least(Poison(w)))
    BY <1>4, PoisonReason DEF DeadLetter
  <2> QED BY <1>1, <2>1, <2>2, <2>3, WorkerDead
<1>5. CASE AckOne(w)
  <2>1. OneByOne(w)' /\ \A v \in Worker \ {w} : pc'[v] = pc[v] /\ hand'[v] = hand[v]
    BY <1>5, NextOneDead DEF AckOne
  <2>2. UNCHANGED <<kind, stream, dead, faults>>
    BY <1>5 DEF AckOne
  <2> QED BY <1>1, <2>1, <2>2, WorkerDead
<1>6. CASE PersistOne(w)
  <2>1. /\ pc[w] = "single" /\ UNCHANGED <<kind, stream, dead, faults, hand>>
        /\ pc'[w] = IF Storable(Least(hand[w])) THEN "stored one" ELSE "refused"
        /\ \A v \in Worker \ {w} : pc'[v] = pc[v] /\ hand'[v] = hand[v]
    BY <1>6, Untouched DEF PersistOne, Goto
  <2>2. /\ \A m \in hand'[w] : KindOf(m)' \in {"constraint", "good"}
        /\ \E l \in Line : kind'[l] = "constraint"
    BY <2>1 DEF DeadInv, OneByOne, KindOf
  <2>3. ASSUME pc'[w] = "refused" PROVE ~Storable(Least(hand[w]))'
    <3>1. ~Storable(Least(hand[w]))
      BY <2>1, <2>3
    <3> QED BY <2>1, <3>1 DEF Storable, KindOf
  <2>4. OneByOne(w)'
    BY <2>2, <2>3 DEF OneByOne
  <2>5. UNCHANGED <<kind, stream, dead, faults>>
    BY <2>1
  <2>6. faults' \in Nat /\ faults <= faults'
    BY <1>1, <2>5
  <2>7. \A v \in Worker \ {w} : pc'[v] = pc[v] /\ hand'[v] = hand[v]
    BY <2>1
  <2>8. \A m \in dead' : m \in dead \/ Reason(m)
    BY <2>5
  <2> QED BY <1>1, <2>4, <2>5, <2>6, <2>7, <2>8, WorkerDead
<1> QED BY <1>2, <1>3, <1>4, <1>5, <1>6 DEF Process

LEMMA FailDead ==
  ASSUME DeliveryInv, DeadInv, NEW w \in Worker, Fail(w)
  PROVE  DeadInv'
<1>1. CASE NormalizerDies(w) \/ DeadLetterBreaks(w)
  <2>1. /\ pc'[w] = "idle" /\ UNCHANGED <<kind, stream>> /\ Fault
        /\ \A v \in Worker \ {w} : pc'[v] = pc[v] /\ hand'[v] = hand[v]
    BY <1>1, Untouched DEF NormalizerDies, DeadLetterBreaks, Return, Goto
  <2>2. \A m \in dead' : m \in dead \/ Reason(m)
    BY <1>1, PoisonReason DEF NormalizerDies, DeadLetterBreaks
  <2>3. OneByOne(w)'
    BY <2>1 DEF OneByOne
  <2> QED BY <2>1, <2>2, <2>3, Faults, WorkerDead
<1>2. CASE TransientError(w)
  <2>1. /\ pc'[w] \in {"idle", "parse"} /\ UNCHANGED <<kind, stream, dead>>
        /\ \A v \in Worker \ {w} : pc'[v] = pc[v] /\ hand'[v] = hand[v]
    BY <1>2, Untouched DEF TransientError, Parsed, Return, Goto
  <2>2. faults' \in Nat /\ faults <= faults' /\ faults \in Nat
    BY <1>2, Faults DEF TransientError
  <2>3. OneByOne(w)'
    BY <2>1 DEF OneByOne
  <2> QED BY <2>1, <2>2, <2>3, WorkerDead
<1>3. CASE OneFails(w)
  <2>1. /\ pc[w] \in {"single", "stored one"} /\ pc'[w] = "refused" /\ Fault
        /\ UNCHANGED <<kind, stream, dead, hand>>
        /\ \A v \in Worker \ {w} : pc'[v] = pc[v] /\ hand'[v] = hand[v]
    BY <1>3, Untouched DEF OneFails, Goto
  <2>2. OneByOne(w)'
    BY <2>1, Faults DEF DeadInv, OneByOne, KindOf, Storable
  <2> QED BY <2>1, <2>2, Faults, WorkerDead
<1> QED BY <1>1, <1>2, <1>3 DEF Fail

\* The injector appends to the stream, and no more.
LEMMA InjectorDead ==
  ASSUME DeliveryInv, DeadInv, Injector
  PROVE  DeadInv'
<1>1. /\ UNCHANGED <<kind, dead, pc, hand>>
      /\ UNCHANGED stream \/ \E end \in inj.at .. ChunkEnd : stream' = stream \o Chunk(end)
  <2>1. CASE SendChunk
    <3>1. inj.at \in Nat /\ ChunkEnd \in Nat /\ inj.at < ChunkEnd
      <4>1. inj.at \in 0 .. Lines /\ Lines \in Nat
        BY IngestionAssumption DEF DeliveryInv, TypeOK
      <4> QED BY <2>1, <4>1, ChunkOfLines DEF SendChunk, DeliveryInv
    <3>2. ChunkEnd \in inj.at .. ChunkEnd
      BY <3>1
    <3> QED BY <2>1, <3>2 DEF SendChunk, worker
  <2>2. CASE ~SendChunk
    BY <2>2 DEF Injector, StartRun, SendBreaks, SaveCheckpoint, EndRun, InjectorDies, worker
  <2> QED BY <2>1, <2>2
<1>2. faults' \in Nat /\ faults <= faults' /\ faults \in Nat
  BY Faults DEF Injector, StartRun, SendChunk, SendBreaks, SaveCheckpoint, EndRun, InjectorDies
<1>3. \A m \in 1 .. delivered : stream'[m] = stream[m]
  <2>1. ASSUME NEW end \in inj.at .. ChunkEnd, stream' = stream \o Chunk(end), NEW m \in 1 .. delivered
        PROVE  stream'[m] = stream[m]
    <3>1. stream \in Seq(Line) /\ Chunk(end) \in Seq(Line) /\ m \in 1 .. Len(stream)
      BY ChunkOfLines, DeliveredTypes DEF DeliveryInv
    <3> QED BY <2>1, <3>1, ConcatProperties
  <2> QED BY <1>1, <2>1
<1>4. ASSUME NEW m \in dead PROVE Reason(m)'
  <2>1. Reason(m) /\ m \in 1 .. delivered
    BY Untouched DEF DeadInv
  <2>2. faults > 0 => faults' > 0
    BY <1>2
  <2>3. KindOf(m)' = KindOf(m) /\ kind' = kind
    BY <1>1, <1>3, <2>1 DEF KindOf
  <2> QED BY <2>1, <2>2, <2>3 DEF Reason, Storable
<1>5. ASSUME NEW w \in Worker PROVE OneByOne(w)'
  <2>1. \A m \in hand[w] : KindOf(m)' = KindOf(m)
    BY <1>1, <1>3, Untouched DEF KindOf
  <2>2. hand[w] # {} => Least(hand[w]) \in hand[w]
    BY FirstInHand DEF DeliveryInv
  <2>3. OneByOne(w) /\ (faults > 0 => faults' > 0)
    BY <1>2 DEF DeadInv
  <2>4. pc[w] = "refused" => Least(hand[w]) \in hand[w]
    BY <2>2 DEF DeliveryInv, Busy
  <2> QED BY <1>1, <2>1, <2>3, <2>4 DEF OneByOne, Storable
<1> QED BY <1>1, <1>4, <1>5 DEF DeadInv

LEMMA NextDead == DeliveryInv /\ ReplayLeavesNoGap /\ DeadInv /\ [Next]_vars => DeadInv'
<1> SUFFICES ASSUME DeliveryInv, ReplayLeavesNoGap, DeadInv, [Next]_vars PROVE DeadInv'
  OBVIOUS
<1>1. CASE TimePasses \/ Idle \/ UNCHANGED vars
  <2>1. UNCHANGED <<kind, stream, dead, faults, pc, hand>>
    BY <1>1 DEF TimePasses, Idle, vars, worker
  <2> QED BY <2>1 DEF DeadInv, Reason, OneByOne, KindOf, Storable
<1> QED BY <1>1, ProcessDead, FailDead, InjectorDead DEF Next

----------------------------------------------------------------------------
(* The theorems *)

\* The replay skips no line, for any file, chunks, limits, resets, number of runs
\* and faults: what the checkpoint covers was sent, in order, and no line the
\* injector refuses.  (flush, run.)
THEOREM ReplayLeavesNoGapHolds == Spec => []ReplayLeavesNoGap
<1>1. ReplayInv => ReplayLeavesNoGap
  BY DEF ReplayInv
<1>2. Spec => []TypeOK
  <2>1. DeliveryInv => TypeOK
    BY DEF DeliveryInv
  <2> QED BY <2>1, AlwaysDelivery, PTL
<1> QED BY <1>1, <1>2, InitReplay, NextReplay, PTL DEF Spec

\* The replay's checkpoint, the stream, the group's bookkeeping and the workers
\* keep their ranges for any scenario, limits, batch sizes and faults.
THEOREM TypesCorrect == Spec => []TypeOK
<1>1. DeliveryInv => TypeOK
  BY DEF DeliveryInv
<1> QED BY <1>1, AlwaysDelivery, PTL

\* No message is acknowledged before its event is stored or dead-lettered, for
\* any number of normalizers, any overlap, claims, deaths and broken connections.
\* (process_batch: ACK per outcome.)
THEOREM AckedLandedHolds == Spec => []AckedLanded
<1>1. DeliveryInv => AckedLanded
  BY DEF DeliveryInv
<1> QED BY <1>1, AlwaysDelivery, PTL

\* A message is dead-lettered only for what its row is, or beside a row that
\* breaks a constraint after a fault, for any scenario, workers and faults: a row
\* which fails in any other way never is. (_dead_letter, _persist_per_event.)
THEOREM DeadForAReasonHolds == Spec => []DeadForAReason
<1>1. DeadInv => DeadForAReason
  BY DEF DeadInv, Reason, DeadForAReason
<1>2. Spec => []DeadInv
  BY AlwaysDelivery, ReplayLeavesNoGapHolds, InitDead, NextDead, PTL DEF Spec
<1> QED BY <1>1, <1>2, PTL

=============================================================================
