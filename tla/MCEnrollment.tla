---------------------------- MODULE MCEnrollment ----------------------------
(* Instances of Enrollment for TLC. *)
EXTENDS Enrollment, TLC

None   == [f \in Fault |-> 0]
One(F) == {[None EXCEPT ![f] = 1] : f \in F}
Two(F) == {[b EXCEPT ![f] = @ + 1] : b \in One(F), f \in F}

\* Two of the faults that meet calls under way, or one expiry
NoFault == {None}
Faults  == Two({"error", "late", "crash", "admin"}) \cup One({"lapse", "stale"})
=============================================================================
