-------------------------- MODULE RolloutInvariant --------------------------
(***************************************************************************)
(* Why no task vanishes: the inductive invariant behind NoTaskVanishes.    *)
(* It follows a task from the schedule job that queues it, before its row  *)
(* exists, through the agent that holds a copy of it, to the report that   *)
(* takes it off the list and the commit that ends its row.                 *)
(***************************************************************************)
EXTENDS Rollout

\* No install task is twice in q.
Distinct(q) == \A j, k \in DOMAIN q : q[j] = q[k] /\ q[j].kind = "install" => j = k

\* A list holds tasks of its own endpoint, and of runs that have begun.
QueueInv ==
  \A e \in Endpoint :
    /\ Distinct(queue[e])
    /\ \A i \in Elements(queue[e]) :
         i.task.ep = e /\ (i.kind = "install" => i.task.run <= runs[i.task.dep])

\* Rows exist only of runs that have begun, and a handler of the API works on
\* rows that exist.
RowInv == \A t \in Task : row[t] # "none" => t.run <= runs[t.dep]
OpInv  == \A o \in ops : \A t \in o.rows : row[t] # "none"

\* What is true of a task that still has to end: it is on its list, or its end
\* has been reported.
Safe(t) == Spared(t) => IsQueued(Install(t)) \/ Ending(t)

\* A schedule job works on a run of its own, which has no rows yet.  What it has
\* pushed is safe, what it has not pushed is not queued.
Scheduling(w) == worker[w].pc \in {"loaded", "push"}
RunTask(w, e) == TaskOf(worker[w].dep, worker[w].run, e)

ScheduleInv ==
  \A w \in Worker : Scheduling(w) =>
    /\ worker[w].run <= runs[worker[w].dep]
    /\ \A e \in Endpoint : row[RunTask(w, e)] = "none"
    /\ \A e \in worker[w].todo : ~IsQueued(Install(RunTask(w, e)))
    /\ \A e \in worker[w].pushed : Safe(RunTask(w, e))
    /\ \A v \in Worker : Scheduling(v) /\ worker[v].dep = worker[w].dep
                           /\ worker[v].run = worker[w].run => v = w

\* What an agent has fetched is still on its list, but for the task whose end
\* it is reporting.
Held(e, k) ==
  LET i == agent[e].todo[k] IN
  i.kind = "install" /\ Spared(i.task) => IsQueued(i) \/ (agent[e].phase = "closing" /\ k = 1)

AgentInv ==
  \A e \in Endpoint :
    /\ Distinct(agent[e].todo)
    /\ \A k \in DOMAIN agent[e].todo : agent[e].todo[k].task.ep = e /\ Held(e, k)

\* The phase in which an agent waits for the answer to a report
PhaseOf(s) == IF s \in Ended THEN "closing" ELSE s

\* An agent waits for one report at a time, on its current task, and when the
\* report that ends the task is answered the row is over.
Awaited(r) ==
  LET e == r.item.task.ep IN
  /\ agent[e].phase = PhaseOf(r.status) /\ r.item = Current(e)
  /\ \A q \in Mine(e) : q = r
Effective(r) ==
  LET t == r.item.task IN
  r.status \in Ended /\ r.item.kind = "install" /\ Spared(t) =>
    /\ r.stage = "loaded" => r.seen # "none" /\ (r.seen \in Ended => row[t] \in Ended)
    /\ r.stage = "replied" => row[t] \in Ended

RequestInv ==
  \A r \in reqs :
    /\ r.status \in Ended \cup {"downloading", "installing"}
    /\ r.seen # "none" => r.item.kind = "install" /\ row[r.item.task] # "none"
    /\ r.live => Awaited(r) /\ Effective(r)

TaskInv ==
  /\ QueueInv
  /\ RowInv
  /\ OpInv
  /\ ScheduleInv
  /\ AgentInv
  /\ RequestInv
  /\ NoTaskVanishes

IInv == TypeOK /\ TaskInv

\* Why a rollback has something to restore: from the moment the API has chosen
\* its rows to the moment the agent takes the task, the row keeps its snapshot.
OpSnapshots == \A o \in ops : o.kind = "rollback" => \A t \in o.rows : snap[t]
SnapInv == RollbackHasSnapshot /\ OpSnapshots
=============================================================================
