------------------------------ MODULE MCRollout ------------------------------
(* Instances of Rollout for TLC. *)
EXTENDS RolloutInvariant, TLC

\* Every target set; the whole fleet, or nobody; always the whole fleet
AnyTargets == SUBSET Endpoint
AllOrNone  == {{}, Endpoint}
AllTargets == {Endpoint}

\* Budgets: nothing goes wrong, one fault of F, two faults of F (or one twice)
None   == [f \in Fault |-> 0]
One(F) == {[None EXCEPT ![f] = 1] : f \in F}
Two(F) == {[b EXCEPT ![f] = @ + 1] : b \in One(F), f \in F}

\* The two faults whose instance is by far the largest are left out: a redelivery
\* together with a report that comes late.
NoFault       == {None}
AnyTwoFaults  == {b \in Two(Fault) : b["redeliver"] = 0 \/ b["late"] = 0}
AgentFaults   == {None} \cup One({"error", "crash", "expire"})
OneCancel     == One({"cancel"})
OneRedelivery == One({"redeliver"})

Fleet == Permutations(Endpoint) \cup Permutations(Worker)
=============================================================================
