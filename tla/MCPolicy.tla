----------------------------- MODULE MCPolicy -----------------------------
(* An instance of Policy for TLC. *)
EXTENDS Policy, TLC

CONSTANTS p1, p2, e1, e2, g1, o1, x1

\* Days of six units, polls every two.  Windows: within a day and longer than a
\* poll and its delay; shorter than a poll; over midnight, on one day and on
\* both; in another time zone; of no length; for a whole day.
W(days, start, end, tz) == [days |-> days, start |-> start, end |-> end, tz |-> tz]
Windows == {W({0}, 1, 5, 0), W({1}, 2, 3, 0), W({0}, 5, 1, 0), W({0, 1}, 4, 2, 0),
            W({1}, 1, 4, 3), W({0}, 3, 3, Null), W({1}, 0, 6, 0)}

Pol(i, type, id, w) ==
  [active |-> TRUE, priority |-> i, target |-> [type |-> type, id |-> id], types |-> {x1},
   window |-> w, excluded |-> {}]

Policies ==
  {Pol(1, "group", g1, W({0}, 1, 5, 0)), Pol(2, "group", g1, W({0}, 5, 1, 0)),
   Pol(1, "organization", o1, Null), Pol(2, "endpoint", e1, Null)}

Bodies == {[window |-> w] : w \in Windows} \cup {[priority |-> 2, active |-> TRUE], [types |-> {}], [window |-> Empty]}

HostOf(g, o, m) == [status |-> "active", group |-> g, org |-> o, member |-> m]
Fleet  == {[e \in Endpoint |-> IF e = e1 THEN HostOf(g1, Null, {}) ELSE HostOf(Null, o1, {g1})]}

\* Either a deployment waits for the window of a policy that is changed or
\* deleted meanwhile, or the fleet and the exceptions change under two policies.
None     == [a \in Act |-> 0]
Some(A)  == {[None EXCEPT ![a] = 1] : a \in A}
Waiting  == {[b EXCEPT !["create"] = 1, !["deploy"] = 1] : b \in Some({"update", "delete", "decommission"})}
Changing == {[b EXCEPT ![a] = @ + 1, !["create"] = 2] :
               b \in Some({"except"}), a \in {"update", "delete", "except", "move", "decommission"}}
Worlds   == Waiting \cup Changing
=============================================================================
