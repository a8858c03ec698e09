----------------------------- MODULE MCResponse -----------------------------
(***************************************************************************)
(* Instances of ResponseOrchestrator for TLC.  The playbooks are those the *)
(* worker seeds.                                                           *)
(***************************************************************************)
EXTENDS ResponseProperties, TLC

CONSTANTS host, lan  \* an external and an internal entity

MCEntity   == {host, lan}
MCExternal == {host}

\* The seeded playbooks.
MCPlaybookDef == DefaultPlaybooks

\* The same table after an administrator made the throttle wait for approval.
MCAllHigh ==
  [DefaultPlaybooks EXCEPT !.throttle_flood_source.blast = "high"]

\* A flood that both playbooks answer.
MCFlood == {[entity |-> host, risk |-> 90, detectors |-> {"rate_deviation"}]}

\* Also a scan below the throttle threshold and the same from inside.
MCMixed ==
  MCFlood \cup
  {[entity |-> host, risk |-> 60, detectors |-> {"port_velocity"}],
   [entity |-> lan,  risk |-> 90, detectors |-> {"port_velocity"}]}

\* Requests are alike until they are received, and so are approvers.
Interchangeable == Permutations(Request) \cup Permutations(Approver)

=============================================================================
