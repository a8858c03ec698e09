-------------------------- MODULE ActionLifecycle --------------------------
(***************************************************************************)
(* What the response orchestrator keeps of a containment action's life,    *)
(* with every transaction one indivisible step: an action is created once; *)
(* a high-blast one waits for an approver's decision or for its expiry;    *)
(* each run of its effector has a decision of its own, and a low-blast one *)
(* runs once.  Transactions overlap, so a later commit may settle again    *)
(* what another settled meanwhile, with a decision of its own, but no      *)
(* action is ever pending again.                                           *)
(***************************************************************************)
EXTENDS Naturals

CONSTANTS Action, HighBlast, Approver, Nobody

VARIABLES
  st,       \* the state of each action
  decider,  \* the approver who decided it last
  decided,  \* how often it was decided
  runs      \* how often its effector took effect

Init ==
  /\ st      = [a \in Action |-> "none"]
  /\ decider = [a \in Action |-> Nobody]
  /\ decided = [a \in Action |-> 0]
  /\ runs    = [a \in Action |-> 0]

\* The outcomes of running the effector, and what they add to runs.
Outcome == {"executed", "failed"}
Ran(s)  == IF s = "executed" THEN 1 ELSE 0

\* The actions a transaction may take for pending: it read them earlier.
Undecided == {a \in HighBlast : st[a] # "none"}

\* An approver settles an action.
Decide(a) ==
  /\ a \in Undecided
  /\ \E s \in Outcome \cup {"rejected"} : /\ st'   = [st EXCEPT ![a] = s]
                                          /\ runs' = [runs EXCEPT ![a] = @ + Ran(s)]
  /\ \E u \in Approver : decider' = [decider EXCEPT ![a] = u]
  /\ decided' = [decided EXCEPT ![a] = @ + 1]

\* One pass of the worker: some actions expire, some are created.
Sweep ==
  /\ \A a \in Action :
       \/ st'[a] = st[a]
       \/ a \in Undecided                     /\ st'[a] = "expired"
       \/ st[a] = "none" /\ a \in HighBlast    /\ st'[a] = "pending_approval"
       \/ st[a] = "none" /\ a \notin HighBlast /\ st'[a] \in Outcome
  /\ st'   = [a \in Action |-> st'[a]]
  /\ runs' = [a \in Action |-> runs[a] + IF st[a] = "none" THEN Ran(st'[a]) ELSE 0]
  /\ UNCHANGED <<decider, decided>>

Next == Sweep \/ \E a \in Action : Decide(a)

Spec == Init /\ [][Next]_<<st, decider, decided, runs>>

=============================================================================
