------------------------ MODULE IngestionProperties ------------------------
(* What the replay of a scenario and its ingestion promise. *)
EXTENDS Ingestion

\* Type correctness: the checkpoint stays within the file (injector.py:93), the
\* group's bookkeeping within the stream, no worker holds an undelivered
\* message, and the retries of a batch stay below INLINE_RETRY_ATTEMPTS.
TypeOK ==
  /\ kind \in Scenarios
  /\ inj \in [pc : {"idle", "fill", "sent"}, at : 0 .. Lines, stop : Nat]
  /\ checkpoint \in 0 .. Lines
  /\ runs \in 0 .. MaxRuns /\ faults \in 0 .. MaxFaults
  /\ stream \in Seq(Line)
  /\ delivered \in 0 .. Len(stream)
  /\ pending \subseteq 1 .. delivered
  /\ stale \subseteq pending
  /\ dead \subseteq 1 .. delivered
  /\ stored \subseteq Line
  /\ pc \in [Worker -> {"idle", "parse", "stored", "single", "stored one", "refused"}]
  /\ hand \in [Worker -> SUBSET (1 .. delivered)]
  /\ tries \in [Worker -> 0 .. Attempts - 1]

\* A message leaves the group's pending entries only when its event is in the
\* database or in the dead-letter stream, whatever dies, breaks or overlaps:
\* process_batch acknowledges per outcome (normalizer.py:76).
AckedLanded ==
  \A m \in 1 .. delivered : m \in pending \/ stream[m] \in stored \/ m \in dead

\* The replay skips no line: what the checkpoint covers was sent, and a line is
\* on the stream only after the line before it, over any number of crashes,
\* limits and resets (injector.py:107-109).
ReplayLeavesNoGap ==
  /\ 1 .. checkpoint \subseteq {stream[m] : m \in Message}
  /\ \A m \in Message : stream[m] > 1 => \E o \in 1 .. m - 1 : stream[o] = stream[m] - 1
  /\ \A m \in Message : kind[stream[m]] # "unreadable"

\* Only what cannot be stored is dead-lettered, with one exception: in the
\* per-event fallback a good event dies beside a refused row when a transient
\* error hits it (normalizer.py:192).  A row that fails with anything but an
\* IntegrityError is never dead-lettered.
DeadForAReason ==
  \A m \in dead :
    \/ KindOf(m) \in {"malformed", "constraint"}
    \/ Storable(m) /\ faults > 0 /\ \E l \in Line : kind[l] = "constraint"

\* A row which fails with another error than IntegrityError is on the stream.
Looping == \E m \in pending : KindOf(m) = "oversized"

\* Every message is acknowledged in the end, however often workers die over it,
\* unless a row no handler catches (normalizer.py:163-180) kills each worker that
\* claims it, which holds up its batch for ever.
EveryMessageLands ==
  \A m \in 1 .. MaxRuns * Lines :
    m \in Message ~> (m \in 1 .. delivered \ pending \/ Looping)

=============================================================================
