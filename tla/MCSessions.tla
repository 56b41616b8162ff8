---------------------------- MODULE MCSessions ----------------------------
(* An instance of Sessions for TLC. *)
EXTENDS Sessions, TLC

CONSTANTS t1, t2

\* Two requests of one tab at a time, one of another
ThreeRequests == {<<t1, 1>>, <<t1, 2>>, <<t2, 1>>}

None   == [f \in Fault |-> 0]
One(F) == {[None EXCEPT ![f] = 1] : f \in F}

\* An access token expires and one other thing happens, the account is
\* deactivated, or the processes start for the first time
Worlds == {[b EXCEPT !["expire"] = 1] : b \in One(Fault \ {"install", "die", "disable"})}
          \cup One({"disable"})
          \cup {[b EXCEPT !["install"] = 1] : b \in One({"die", "leave"})}
=============================================================================
