---------------------------- MODULE MCDetection ----------------------------
(* Instances of DetectionWorker for TLC. *)
EXTENDS DetectionProperties

Ev(e, t, p) == [entity |-> e, ts |-> t, port |-> p]

\* Two buckets of two ticks with a gap, a second port, a second entity.
Flows == {Ev(1, 0, 1), Ev(1, 3, 1), Ev(1, 7, 1), Ev(1, 6, 2), Ev(2, 3, 1)}

=============================================================================
