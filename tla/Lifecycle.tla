------------------------------ MODULE Lifecycle ------------------------------
(***************************************************************************)
(* What a deployment promises to the operator who watches it: it starts on *)
(* a set of endpoints, every endpoint settles on one outcome, and it ends  *)
(* once, when nobody is waited for, as "completed" if no endpoint failed.  *)
(* How PostgreSQL, Redis, Celery and the agents bring this about is the    *)
(* business of Rollout, which implements this module.                      *)
(***************************************************************************)
CONSTANTS Deployment, Endpoint

VARIABLES
  status,    \* Deployment.status
  waiting,   \* the endpoints whose result is outstanding
  failed     \* the endpoints whose result is a failure

vars == <<status, waiting, failed>>

Init ==
  /\ status  = [d \in Deployment |-> "absent"]
  /\ waiting = [d \in Deployment |-> {}]
  /\ failed  = [d \in Deployment |-> {}]

Create(d) ==
  /\ status[d] = "absent"
  /\ status' = [status EXCEPT ![d] = "pending"]
  /\ UNCHANGED <<waiting, failed>>

Start(d, S) ==
  /\ status[d] = "pending"
  /\ status'  = [status EXCEPT ![d] = IF S = {} THEN "completed" ELSE "in_progress"]
  /\ waiting' = [waiting EXCEPT ![d] = S]
  /\ UNCHANGED failed

Settle(d, e) ==
  /\ e \in waiting[d]
  /\ waiting' = [waiting EXCEPT ![d] = @ \ {e}]
  /\ failed' \in {failed, [failed EXCEPT ![d] = @ \cup {e}]}
  /\ UNCHANGED status

Finish(d) ==
  /\ status[d] = "in_progress" /\ waiting[d] = {}
  /\ status' = [status EXCEPT ![d] = IF failed[d] = {} THEN "completed" ELSE "failed"]
  /\ UNCHANGED <<waiting, failed>>

Next ==
  \E d \in Deployment :
    \/ Create(d) \/ Finish(d)
    \/ \E S \in SUBSET Endpoint : Start(d, S)
    \/ \E e \in Endpoint : Settle(d, e)

Spec == Init /\ [][Next]_vars
=============================================================================
