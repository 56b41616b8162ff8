------------------------------- MODULE Rollout -------------------------------
(***************************************************************************)
(* A patch deployment, from the API call that creates it to its final      *)
(* status.  Four kinds of process work on it:                              *)
(*                                                                         *)
(*   - the deployment API (app/routers/deployments.py): create, cancel and *)
(*     roll back;                                                          *)
(*   - the Celery workers (app/tasks/deployment_tasks.py): a schedule job  *)
(*     expands the targets, pushes one task per endpoint on its Redis list *)
(*     and commits the result rows; a finalize job counts the rows;        *)
(*   - the agent API (app/routers/agent.py): hands out tasks, takes the    *)
(*     reports on them;                                                    *)
(*   - the agents (pms-agent/agent/main.py, api_client.py).                *)
(*                                                                         *)
(* They share two stores that no transaction spans: PostgreSQL (dep, row,  *)
(* snap) and Redis (queue, ttl), and the Celery broker (sched, final).     *)
(* Every read, push and commit that another process can come between is a  *)
(* step of its own.                                                        *)
(***************************************************************************)
EXTENDS Integers, Sequences, FiniteSets

CONSTANTS
  Deployment,           \* deployment ids
  Endpoint,             \* endpoint ids, one agent each
  Worker,               \* Celery worker processes of the queue "deployment"
  TargetChoices,        \* what expand_targets may return
  HasPolicy,            \* deployments with a policy_id
  MaxRuns,              \* bound: schedule jobs executed per deployment
  MaxRetries,           \* max_retries of schedule_deployment
  MaxAttempts,          \* attempts of one HTTP call of the agent
  FetchLimit,           \* tasks one GET /agent/tasks returns
  Budgets,              \* bound: how often each fault or operator action occurs
  FetchAfterCommit,     \* TRUE: agents poll more slowly than a schedule commits
  FinalizeAfterCommit   \* TRUE: the countdown of finalize outlasts the report

\* What the environment and the operators may do, each as often as the
\* budget of the behaviour says.
Fault == {"cancel", "rollback", "leave", "expire", "redeliver", "worker",
          "api", "error", "late", "crash"}

ASSUME RolloutAssumption ==
  /\ IsFiniteSet(Deployment) /\ IsFiniteSet(Endpoint)
  /\ TargetChoices \subseteq SUBSET Endpoint
  /\ HasPolicy \subseteq Deployment
  /\ MaxRuns \in Nat /\ MaxRetries \in Nat
  /\ MaxAttempts \in Nat \ {0} /\ FetchLimit \in Nat \ {0}
  /\ Budgets \subseteq [Fault -> Nat]
  /\ FetchAfterCommit \in BOOLEAN /\ FinalizeAfterCommit \in BOOLEAN

-----------------------------------------------------------------------------
(* Data *)

\* DeploymentResult.status: a row that can still change, and one that is over.
\* "none" stands for a row that does not exist.
Active    == {"pending", "downloading", "installing"}
Ended     == {"success", "failed", "rolled_back", "skipped"}
RowStatus == Active \cup Ended \cup {"none"}

\* Deployment.status; "absent" before the deployment exists.
Open      == {"pending", "in_progress"}
Closed    == {"completed", "failed", "cancelled", "rolled_back"}
DepStatus == Open \cup Closed \cup {"absent"}

\* The columns of a deployments row that its writers change.  A total of 0 stands
\* for NULL: no job has set it, or there was nobody to deploy to.
Dep == [status : DepStatus, total : Nat, succ : Nat, fail : Nat]

\* A DeploymentResult: the endpoint's share of one execution of the schedule
\* job.  Its uuid is also the id of the task that is queued for the agent.
Task == [dep : Deployment, run : 1..MaxRuns, ep : Endpoint]
TaskOf(d, k, e) == [dep |-> d, run |-> k, ep |-> e]

\* An element of the list pms:tasks:<endpoint>.  A rollback task has an id of
\* its own: nth numbers the calls of the rollback endpoint.
Item == {i \in [kind : {"install", "rollback"}, task : Task, nth : Nat] :
           i.kind = "install" => i.nth = 0}
Install(t)     == [kind |-> "install", task |-> t, nth |-> 0]
Rollback(t, n) == [kind |-> "rollback", task |-> t, nth |-> n]

\* A call of POST /agent/tasks/<id>/status.  live: the agent waits for it;
\* a call the agent gave up on stays with the server as one that is not live.
\* seen is the status of the row as the handler read it.
Request == [item : Item, status : RowStatus, snap : BOOLEAN, try : Nat,
            live : BOOLEAN, stage : {"sent", "removed", "loaded", "replied"},
            seen : RowStatus]

\* A handler of the deployment API between two of its steps.
Op == [kind : {"create", "cancel", "rollback"}, dep : Deployment,
       stage : {"loaded", "locked"}, seen : Dep, rows : SUBSET Task, nth : Nat]

\* A worker that is not idle has a deployment; a schedule job also has a run.
WorkerState ==
  {x \in [pc : {"idle", "loaded", "push", "count", "finish"},
          dep : Deployment \cup {"none"}, run : Nat, tries : Nat,
          todo : SUBSET Endpoint, pushed : SUBSET Endpoint, seen : Dep, new : Dep] :
     /\ x.pc # "idle" => x.dep \in Deployment
     /\ x.pc \in {"loaded", "push"} => x.run \in 1..MaxRuns}

\* An agent sleeps exactly when it has no task left.
AgentState ==
  {a \in [phase : {"idle", "next", "downloading", "installing", "closing"},
          todo : Seq(Item), snap : BOOLEAN] :
     a.phase = "idle" <=> a.todo = <<>>}

\* The ways in which a task can leave the protocol: see mishap below.
Mishap == {"expired", "early", "late", "refused", "abandoned"}

NoDep    == [status |-> "absent", total |-> 0, succ |-> 0, fail |-> 0]
Resting  == [pc |-> "idle", dep |-> "none", run |-> 0, tries |-> 0, todo |-> {},
             pushed |-> {}, seen |-> NoDep, new |-> NoDep]
Sleeping == [phase |-> "idle", todo |-> <<>>, snap |-> FALSE]

VARIABLES
  dep,       \* deployments table
  row,       \* deployment_results.status
  snap,      \* deployment_results.rollback_snapshot_id is set
  runs,      \* schedule jobs executed so far, the source of fresh row ids
  queue,     \* pms:tasks:<endpoint>
  ttl,       \* the key pms:tasks:<endpoint> has an expiry
  gone,      \* endpoints whose status get_current_agent refuses
  sched,     \* schedule jobs in the broker, by deployment and retry number
  final,     \* finalize jobs in the broker, by deployment
  worker,    \* the workers
  ops,       \* API handlers under way
  agent,     \* the agents
  reqs,      \* status reports under way
  installs,  \* history: executions of the installer, by task
  restarts,  \* history: restarts and refusals, by agent
  mishap,    \* history: what befell a task on its way
  budget     \* what may still happen

db     == <<dep, row, snap>>
redis  == <<queue, ttl>>
broker == <<sched, final>>
ghosts == <<installs, restarts, mishap>>
vars   == <<dep, row, snap, runs, queue, ttl, gone, sched, final, worker, ops,
            agent, reqs, installs, restarts, mishap, budget>>

-----------------------------------------------------------------------------
(* Helpers *)

Spend(f) == budget[f] > 0 /\ budget' = [budget EXCEPT ![f] = @ - 1]

Elements(q) == {q[k] : k \in DOMAIN q}

IsQueued(i) == i \in Elements(queue[i.task.ep])

\* LREM key 1 value: the element goes, the others keep their order.  Task ids
\* are fresh uuids, so an id is in a list at most once.
LRem(q, i) ==
  IF i \in Elements(q)
  THEN LET k == CHOOSE k \in DOMAIN q : q[k] = i
       IN  SubSeq(q, 1, k - 1) \o SubSeq(q, k + 1, Len(q))
  ELSE q

\* LRANGE key 0 n-1
LRange(q, n) == SubSeq(q, 1, IF Len(q) < n THEN Len(q) ELSE n)

\* What an SQLAlchemy session writes at flush: the columns whose value differs
\* from the one it loaded.  The others keep what the table holds by then.
Flush(cur, old, new) ==
  [c \in DOMAIN cur |-> IF new[c] # old[c] THEN new[c] ELSE cur[c]]

\* The tasks T meet with the mishap k.
Mark(T, k) ==
  mishap' = [t \in Task |-> IF t \in T THEN mishap[t] \cup {k} ELSE mishap[t]]

\* The task of item i, unless i is a rollback task, which has no row.
RowsOf(i)  == IF i.kind = "install" THEN {i.task} ELSE {}
StatusOf(i) == IF i.kind = "install" THEN row[i.task] ELSE "none"

Count(d, s) == Cardinality({t \in Task : t.dep = d /\ row[t] = s})

\* The row lock a transaction takes with its first UPDATE and keeps until it
\* commits: a schedule job with a policy flushes when it reads the policy again,
\* a cancellation when it reads the pending rows.
HoldsLock(x) == x.pc = "push" /\ x.dep \in HasPolicy /\ x.todo \cup x.pushed # {}
Locked(d) ==
  \/ \E w \in Worker : HoldsLock(worker[w]) /\ worker[w].dep = d
  \/ \E o \in ops : o.dep = d /\ o.stage = "locked"

NewOp(k, d, rs, n) ==
  [kind |-> k, dep |-> d, stage |-> "loaded", seen |-> dep[d], rows |-> rs, nth |-> n]

-----------------------------------------------------------------------------
(* The deployment API *)

\* create_deployment, up to its commit
CreateCommit(d) ==
  /\ dep[d].status = "absent"
  /\ dep' = [dep EXCEPT ![d].status = "pending"]
  /\ ops' = ops \cup {NewOp("create", d, {}, 0)}
  /\ UNCHANGED <<row, snap, runs, redis, gone, broker, worker, agent, reqs, ghosts, budget>>

\* create_deployment, the hand-over to Celery
CreateEnqueue(o) ==
  /\ o.kind = "create"
  /\ sched' = [sched EXCEPT ![<<o.dep, 0>>] = @ + 1]
  /\ ops' = ops \ {o}
  /\ UNCHANGED <<db, runs, redis, gone, final, worker, agent, reqs, ghosts, budget>>

CancelLoad(d) ==
  /\ Spend("cancel")
  /\ dep[d].status \in Open
  /\ ops' = ops \cup {NewOp("cancel", d, {}, 0)}
  /\ UNCHANGED <<db, runs, redis, gone, broker, worker, agent, reqs, ghosts>>

\* The select of the pending rows; the session flushes the new status first.
CancelSelect(o) ==
  /\ o.kind = "cancel" /\ o.stage = "loaded"
  /\ ~Locked(o.dep)
  /\ ops' = (ops \ {o}) \cup
              {[o EXCEPT !.stage = "locked",
                         !.rows = {t \in Task : t.dep = o.dep /\ row[t] = "pending"}]}
  /\ UNCHANGED <<db, runs, redis, gone, broker, worker, agent, reqs, ghosts, budget>>

CancelCommit(o) ==
  /\ o.kind = "cancel" /\ o.stage = "locked"
  /\ dep' = [dep EXCEPT ![o.dep] = Flush(@, o.seen, [o.seen EXCEPT !.status = "cancelled"])]
  /\ row' = [t \in Task |-> IF t \in o.rows THEN "skipped" ELSE row[t]]
  /\ ops' = ops \ {o}
  /\ UNCHANGED <<snap, runs, redis, gone, broker, worker, agent, reqs, ghosts, budget>>

\* Defect: the snapshot is not asked for.
CanRollBackAnyFailed(d) == {t \in Task : t.dep = d /\ row[t] = "failed"}

\* The rows rollback_deployment queues a rollback for
CanRollBack(d) == {t \in Task : t.dep = d /\ row[t] = "failed" /\ snap[t]}

\* rollback_deployment; it does not look at the status of the deployment.
RollbackLoad(d) ==
  /\ Spend("rollback")
  /\ dep[d].status # "absent"
  /\ ops' = ops \cup {NewOp("rollback", d, CanRollBack(d), budget["rollback"])}
  /\ UNCHANGED <<db, runs, redis, gone, broker, worker, agent, reqs, ghosts>>

RollbackPush(o) ==
  /\ o.kind = "rollback"
  /\ \E t \in o.rows :
       /\ queue' = [queue EXCEPT ![t.ep] = Append(@, Rollback(t, o.nth))]
       /\ ops' = (ops \ {o}) \cup {[o EXCEPT !.rows = @ \ {t}]}
  /\ UNCHANGED <<db, runs, ttl, gone, broker, worker, agent, reqs, ghosts, budget>>

RollbackCommit(o) ==
  /\ o.kind = "rollback" /\ o.rows = {}
  /\ ~Locked(o.dep)
  /\ dep' = [dep EXCEPT ![o.dep] = Flush(@, o.seen, [o.seen EXCEPT !.status = "rolled_back"])]
  /\ ops' = ops \ {o}
  /\ UNCHANGED <<row, snap, runs, redis, gone, broker, worker, agent, reqs, ghosts, budget>>

\* The API process dies, or a store refuses, between two steps of a handler.
ApiFails(o) ==
  /\ Spend("api")
  /\ ops' = ops \ {o}
  /\ UNCHANGED <<db, runs, redis, gone, broker, worker, agent, reqs, ghosts>>

\* decommission_endpoint, and quarantine_endpoint, which readmits the agent
Decommission(e) ==
  /\ e \notin gone
  /\ Spend("leave")
  /\ gone' = gone \cup {e}
  /\ UNCHANGED <<db, runs, redis, broker, worker, ops, agent, reqs, ghosts>>

Quarantine(e) ==
  /\ e \in gone
  /\ gone' = gone \ {e}
  /\ UNCHANGED <<db, runs, redis, broker, worker, ops, agent, reqs, ghosts, budget>>

-----------------------------------------------------------------------------
(* The Celery workers.  A job is acknowledged when it is received: a worker  *)
(* that dies takes it along.                                                 *)

\* _do_schedule: the job finds the deployment neither pending nor in progress.
ScheduleIgnored(d, k) ==
  /\ sched[<<d, k>>] > 0
  /\ dep[d].status \notin Open
  /\ sched' = [sched EXCEPT ![<<d, k>>] = @ - 1]
  /\ UNCHANGED <<db, runs, redis, gone, final, worker, ops, agent, reqs, ghosts, budget>>

\* Outside the install window: the job is replaced by a new one, an hour later.
ScheduleDefer(d, k) ==
  /\ sched[<<d, k>>] > 0
  /\ d \in HasPolicy /\ dep[d].status \in Open
  /\ sched' = [j \in DOMAIN sched |->
                 sched[j] + (IF j = <<d, 0>> THEN 1 ELSE 0) - (IF j = <<d, k>> THEN 1 ELSE 0)]
  /\ UNCHANGED <<db, runs, redis, gone, final, worker, ops, agent, reqs, ghosts, budget>>

\* The deployment row as the job is about to write it
Scheduled(old, S) ==
  IF S = {} THEN [old EXCEPT !.status = "completed"]
            ELSE [old EXCEPT !.status = "in_progress", !.total = Cardinality(S)]

\* _do_schedule up to expand_targets.  The next free run stands for the fresh
\* uuids of the rows the job will create.
ScheduleLoad(w, d) ==
  /\ worker[w].pc = "idle"
  /\ dep[d].status \in Open
  /\ runs[d] < MaxRuns
  /\ runs' = [runs EXCEPT ![d] = @ + 1]
  /\ \E k \in 0..MaxRetries, S \in TargetChoices :
       /\ sched[<<d, k>>] > 0
       /\ sched' = [sched EXCEPT ![<<d, k>>] = @ - 1]
       /\ worker' = [worker EXCEPT ![w] =
            [pc |-> "loaded", dep |-> d, run |-> runs[d] + 1, tries |-> k, todo |-> S,
             pushed |-> {}, seen |-> dep[d], new |-> Scheduled(dep[d], S)]]
  /\ UNCHANGED <<db, redis, gone, final, ops, agent, reqs, ghosts, budget>>

\* The job starts to queue.  With a policy it holds the row lock from here on.
ScheduleStart(w) ==
  /\ worker[w].pc = "loaded"
  /\ worker[w].dep \in HasPolicy /\ worker[w].todo # {} => ~Locked(worker[w].dep)
  /\ worker' = [worker EXCEPT ![w].pc = "push"]
  /\ UNCHANGED <<db, runs, redis, gone, broker, ops, agent, reqs, ghosts, budget>>

\* One turn of the loop: RPUSH, then EXPIRE, which restarts the clock of the
\* whole list.  The new row waits in the session.
SchedulePush(w) ==
  /\ worker[w].pc = "push"
  /\ \E e \in worker[w].todo :
       /\ queue' = [queue EXCEPT ![e] =
                      Append(@, Install(TaskOf(worker[w].dep, worker[w].run, e)))]
       /\ ttl' = [ttl EXCEPT ![e] = TRUE]
       /\ worker' = [worker EXCEPT ![w].todo = @ \ {e}, ![w].pushed = @ \cup {e}]
  /\ UNCHANGED <<db, runs, gone, broker, ops, agent, reqs, ghosts, budget>>

\* The rows a schedule job inserts when it commits
NewRows(x) == {t \in Task : t.dep = x.dep /\ t.run = x.run /\ t.ep \in x.pushed}

ScheduleCommit(w) ==
  LET x == worker[w] IN
  /\ x.pc = "push" /\ x.todo = {}
  /\ HoldsLock(x) \/ ~Locked(x.dep)
  /\ dep' = [dep EXCEPT ![x.dep] = Flush(@, x.seen, x.new)]
  /\ row' = [t \in Task |-> IF t \in NewRows(x) THEN "pending" ELSE row[t]]
  /\ worker' = [worker EXCEPT ![w] = Resting]
  /\ UNCHANGED <<snap, runs, redis, gone, broker, ops, agent, reqs, ghosts, budget>>

\* An exception before the commit: the transaction is rolled back, what is in
\* Redis stays, and Celery retries the job from the start, up to MaxRetries times.
ScheduleRetry(w) ==
  LET x == worker[w] IN
  /\ x.pc \in {"loaded", "push"} /\ x.tries < MaxRetries
  /\ Spend("worker")
  /\ sched' = [sched EXCEPT ![<<x.dep, x.tries + 1>>] = @ + 1]
  /\ worker' = [worker EXCEPT ![w] = Resting]
  /\ UNCHANGED <<db, runs, redis, gone, final, ops, agent, reqs, ghosts>>

\* The worker dies, or its job fails for good.
WorkerLost(w) ==
  /\ worker[w].pc # "idle"
  /\ Spend("worker")
  /\ worker' = [worker EXCEPT ![w] = Resting]
  /\ UNCHANGED <<db, runs, redis, gone, broker, ops, agent, reqs, ghosts>>

\* The job runs once more: the broker hands it out again, since the countdown or
\* eta it waits for is longer than the visibility timeout; or it has committed and
\* raises after that (the answer to COMMIT is lost, Redis or the engine does not
\* close), so that Celery retries it.  The second job may run before the first.
Redeliver(d) ==
  /\ Spend("redeliver")
  /\ \E k, n \in 0..MaxRetries :
       /\ sched[<<d, k>>] > 0 /\ n \in {k, k + 1}
       /\ sched' = [sched EXCEPT ![<<d, n>>] = @ + 1]
  /\ UNCHANGED <<db, runs, redis, gone, final, worker, ops, agent, reqs, ghosts>>

\* A terminal report has queued its finalize job and not committed yet.
ReportUncommitted(d) ==
  \E r \in reqs : r.stage = "loaded" /\ r.status \in Ended /\ r.item.task.dep = d

FinalizeLoad(w, d) ==
  /\ worker[w].pc = "idle"
  /\ final[d] > 0
  /\ FinalizeAfterCommit => ~ReportUncommitted(d)
  /\ final' = [final EXCEPT ![d] = @ - 1]
  /\ worker' = [worker EXCEPT ![w] = [Resting EXCEPT !.pc = "count", !.dep = d, !.seen = dep[d]]]
  /\ UNCHANGED <<db, runs, redis, gone, sched, ops, agent, reqs, ghosts, budget>>

\* Defects: a row nobody has started on is not waited for; a failed one is.
StillRunningOnceStarted == {"downloading", "installing"}
StillRunningIfFailed    == Active \cup {"failed"}

\* The statuses a finalize job waits for
StillRunning == Active

\* Defects: the status of a row in the place of the status of a deployment; one
\* success is enough.
OutcomeInRowTerms(d, old) ==
  [old EXCEPT !.status = IF Count(d, "failed") = 0 THEN "success" ELSE "failed"]
OutcomeBySuccess(d, old) ==
  [old EXCEPT !.succ = Count(d, "success") + Count(d, "rolled_back"),
              !.fail = Count(d, "failed"),
              !.status = IF Count(d, "success") > 0 THEN "completed" ELSE "failed"]

\* The outcome of a deployment as its rows tell it
Outcome(d, old) ==
  [old EXCEPT !.succ = Count(d, "success") + Count(d, "rolled_back"),
              !.fail = Count(d, "failed"),
              !.status = IF Count(d, "failed") = 0 THEN "completed" ELSE "failed"]

FinalizeCount(w) ==
  LET d == worker[w].dep IN
  /\ worker[w].pc = "count"
  /\ worker' = [worker EXCEPT ![w] =
       IF \E t \in Task : t.dep = d /\ row[t] \in StillRunning
       THEN Resting
       ELSE [@ EXCEPT !.pc = "finish", !.new = Outcome(d, worker[w].seen)]]
  /\ UNCHANGED <<db, runs, redis, gone, broker, ops, agent, reqs, ghosts, budget>>

FinalizeCommit(w) ==
  LET x == worker[w] IN
  /\ x.pc = "finish"
  /\ ~Locked(x.dep)
  /\ dep' = [dep EXCEPT ![x.dep] = Flush(@, x.seen, x.new)]
  /\ worker' = [worker EXCEPT ![w] = Resting]
  /\ UNCHANGED <<row, snap, runs, redis, gone, broker, ops, agent, reqs, ghosts, budget>>

-----------------------------------------------------------------------------
(* The agent API, and the agent's HTTP client *)

Mine(e)    == {r \in reqs : r.live /\ r.item.task.ep = e}
Waiting(e) == Mine(e) # {}

\* Defects: the handler forgets a status, or takes one too many.
TerminalButFailed(s)      == s \in Ended \ {"failed"}
TerminalAndInstalling(s)  == s \in Ended \cup {"installing"}

\* The statuses update_task_status takes for the end of a task
Terminal(s) == s \in Ended

Move(r, s) == reqs' = (reqs \ {r}) \cup {s}

Restart(e) == [restarts EXCEPT ![e] = @ + 1]

\* get_current_agent refuses.  The client takes any status below 500 for an
\* answer, so the agent goes on.
Refuse(r) ==
  /\ r.stage = "sent" /\ r.item.task.ep \in gone
  /\ IF r.live THEN Move(r, [r EXCEPT !.stage = "replied"]) ELSE reqs' = reqs \ {r}
  /\ Mark(IF Terminal(r.status) THEN RowsOf(r.item) ELSE {}, "refused")
  /\ restarts' = IF r.live THEN Restart(r.item.task.ep) ELSE restarts
  /\ UNCHANGED <<db, runs, redis, gone, broker, worker, ops, agent, installs, budget>>

\* update_task_status: a terminal report takes the task off the agent's list ...
Dequeue(r) ==
  LET e == r.item.task.ep IN
  /\ r.stage = "sent" /\ e \notin gone
  /\ Move(r, [r EXCEPT !.stage = "removed"])
  /\ IF Terminal(r.status)
     THEN /\ queue' = [queue EXCEPT ![e] = LRem(@, r.item)]
          /\ ttl'   = [ttl EXCEPT ![e] = @ /\ queue'[e] # <<>>]
     ELSE UNCHANGED redis
  /\ Mark(IF r.live THEN {} ELSE RowsOf(r.item), "late")
  /\ UNCHANGED <<db, runs, gone, broker, worker, ops, agent, installs, restarts, budget>>

\* ... the row is read and finalize queued, both before the commit.  A report
\* that comes before the schedule job has committed finds no row.
LoadRow(r) ==
  LET ends == Terminal(r.status) /\ StatusOf(r.item) # "none" IN
  /\ r.stage = "removed"
  /\ Move(r, [r EXCEPT !.stage = "loaded", !.seen = StatusOf(r.item)])
  /\ final' = IF ends THEN [final EXCEPT ![r.item.task.dep] = @ + 1] ELSE final
  /\ Mark(IF Terminal(r.status) /\ ~ends THEN RowsOf(r.item) ELSE {}, "early")
  /\ UNCHANGED <<db, runs, redis, gone, sched, worker, ops, agent, installs, restarts, budget>>

CommitReport(r) ==
  LET t == r.item.task IN
  /\ r.stage = "loaded"
  /\ IF r.live THEN Move(r, [r EXCEPT !.stage = "replied"]) ELSE reqs' = reqs \ {r}
  /\ IF r.seen = "none" THEN UNCHANGED <<row, snap>>
     ELSE /\ row'  = [row EXCEPT ![t] = IF r.status # r.seen THEN r.status ELSE @]
          /\ snap' = [snap EXCEPT ![t] = @ \/ r.snap]
  /\ Mark(IF r.live THEN {} ELSE RowsOf(r.item), "late")
  /\ UNCHANGED <<dep, runs, redis, gone, broker, worker, ops, agent, installs, restarts, budget>>

\* The attempt fails: it never arrived, the server answers 5xx, or the answer is
\* lost.  The client sends it again.
Resend(r) == [r EXCEPT !.try = @ + 1, !.stage = "sent", !.seen = "none"]

AttemptFails(r) ==
  /\ r.live /\ r.try < MaxAttempts
  /\ Spend("error")
  /\ Move(r, Resend(r))
  /\ UNCHANGED <<db, runs, redis, gone, broker, worker, ops, agent, ghosts>>

\* The client times out and sends the report again; the server still works on
\* the first one.
AttemptTimesOut(r) ==
  /\ r.live /\ r.try < MaxAttempts /\ r.stage # "replied"
  /\ Spend("late")
  /\ reqs' = (reqs \ {r}) \cup {[r EXCEPT !.live = FALSE], Resend(r)}
  /\ UNCHANGED <<db, runs, redis, gone, broker, worker, ops, agent, ghosts>>

\* The keys of a list expire together, 48 hours after the last install task.
Expire(e) ==
  /\ ttl[e]
  /\ Spend("expire")
  /\ queue' = [queue EXCEPT ![e] = <<>>]
  /\ ttl' = [ttl EXCEPT ![e] = FALSE]
  /\ Mark(UNION {RowsOf(i) : i \in Elements(queue[e])}, "expired")
  /\ UNCHANGED <<db, runs, gone, broker, worker, ops, agent, reqs, installs, restarts>>

-----------------------------------------------------------------------------
(* The agents *)

Current(e) == Head(agent[e].todo)

Send(e, s, hasSnap, ph) ==
  /\ reqs' = reqs \cup {[item |-> Current(e), status |-> s, snap |-> hasSnap, try |-> 1,
                         live |-> TRUE, stage |-> "sent", seen |-> "none"]}
  /\ agent' = [agent EXCEPT ![e].phase = ph, ![e].snap = hasSnap]

\* A heartbeat that reports pending tasks, then get_tasks, which leaves them
\* on the list.
Fetch(e) ==
  /\ agent[e].phase = "idle" /\ e \notin gone
  /\ queue[e] # <<>>
  /\ FetchAfterCommit => \A w \in Worker : worker[w].pc = "push" => e \notin worker[w].pushed
  /\ agent' = [agent EXCEPT ![e] = [phase |-> "next", todo |-> LRange(queue[e], FetchLimit),
                                    snap |-> FALSE]]
  /\ UNCHANGED <<db, runs, redis, gone, broker, worker, ops, reqs, ghosts, budget>>

AtTask(e, kind) == agent[e].phase = "next" /\ Current(e).kind = kind

\* patch_install: report "downloading".  A payload without url or hash does not
\* occur: both come from columns that are never null.
StartInstall(e) ==
  /\ AtTask(e, "install")
  /\ Send(e, "downloading", FALSE, "downloading")
  /\ UNCHANGED <<db, runs, redis, gone, broker, worker, ops, ghosts, budget>>

\* The file is there and verified: take a snapshot if the system can, report
\* "installing".  Otherwise the task has failed.
FinishDownload(e) ==
  /\ agent[e].phase = "downloading" /\ ~Waiting(e)
  /\ \/ \E s \in BOOLEAN : Send(e, "installing", s, "installing")
     \/ Send(e, "failed", FALSE, "closing")
  /\ UNCHANGED <<db, runs, redis, gone, broker, worker, ops, ghosts, budget>>

\* installer.install, and after a failure the local restore.  The report of a
\* failure does not carry the snapshot.
RunInstaller(e) ==
  /\ agent[e].phase = "installing" /\ ~Waiting(e)
  /\ installs' = [installs EXCEPT ![Current(e).task] = @ + 1]
  /\ Send(e, "success", agent[e].snap, "closing") \/ Send(e, "failed", FALSE, "closing")
  /\ UNCHANGED <<db, runs, redis, gone, broker, worker, ops, restarts, mishap, budget>>

RunRollback(e) ==
  /\ AtTask(e, "rollback")
  /\ \E s \in {"rolled_back", "failed"} : Send(e, s, FALSE, "closing")
  /\ UNCHANGED <<db, runs, redis, gone, broker, worker, ops, ghosts, budget>>

\* The answer arrives.  After a terminal report comes the next task, and after
\* the last one the agent sleeps until its next heartbeat.
AfterTask(a) ==
  IF Len(a.todo) <= 1 THEN Sleeping
  ELSE [phase |-> "next", todo |-> Tail(a.todo), snap |-> FALSE]

Receive(r) ==
  LET e == r.item.task.ep IN
  /\ r.live /\ r.stage = "replied"
  /\ reqs' = reqs \ {r}
  /\ agent' = IF r.status \in Ended THEN [agent EXCEPT ![e] = AfterTask(@)] ELSE agent
  /\ UNCHANGED <<db, runs, redis, gone, broker, worker, ops, ghosts, budget>>

\* The agent process ends and is started again: a crash, a reboot, or the
\* RuntimeError that nothing catches after MaxAttempts failed attempts.  The
\* report under way is lost, or the server still completes it.
Abandoned(r) ==
  r.status \in Ended /\ ~IsQueued(r.item) /\ StatusOf(r.item) \notin Ended

AgentDies(e) ==
  /\ agent[e].phase # "idle"
  /\ Spend("crash")
  /\ agent' = [agent EXCEPT ![e] = Sleeping]
  /\ reqs' = reqs \ Mine(e)
  /\ restarts' = Restart(e)
  /\ Mark(UNION {RowsOf(r.item) : r \in {q \in Mine(e) : Abandoned(q)}}, "abandoned")
  /\ UNCHANGED <<db, runs, redis, gone, broker, worker, ops, installs>>

AgentDiesLate(e) ==
  /\ agent[e].phase # "idle"
  /\ budget["crash"] > 0 /\ budget["late"] > 0
  /\ budget' = [budget EXCEPT !["crash"] = @ - 1, !["late"] = @ - 1]
  /\ agent' = [agent EXCEPT ![e] = Sleeping]
  /\ reqs' = (reqs \ Mine(e)) \cup
               {[r EXCEPT !.live = FALSE] : r \in {q \in Mine(e) : q.stage # "replied"}}
  /\ restarts' = Restart(e)
  /\ UNCHANGED <<db, runs, redis, gone, broker, worker, ops, installs, mishap>>

-----------------------------------------------------------------------------
Init ==
  /\ dep      = [d \in Deployment |-> NoDep]
  /\ row      = [t \in Task |-> "none"]
  /\ snap     = [t \in Task |-> FALSE]
  /\ runs     = [d \in Deployment |-> 0]
  /\ queue    = [e \in Endpoint |-> <<>>]
  /\ ttl      = [e \in Endpoint |-> FALSE]
  /\ gone     = {}
  /\ sched    = [j \in Deployment \X (0..MaxRetries) |-> 0]
  /\ final    = [d \in Deployment |-> 0]
  /\ worker   = [w \in Worker |-> Resting]
  /\ ops      = {}
  /\ agent    = [e \in Endpoint |-> Sleeping]
  /\ reqs     = {}
  /\ installs = [t \in Task |-> 0]
  /\ restarts = [e \in Endpoint |-> 0]
  /\ mishap   = [t \in Task |-> {}]
  /\ budget   \in Budgets

ApiStep ==
  \/ \E d \in Deployment : CreateCommit(d) \/ CancelLoad(d) \/ RollbackLoad(d)
  \/ \E o \in ops : \/ CreateEnqueue(o) \/ CancelSelect(o) \/ CancelCommit(o)
                    \/ RollbackPush(o) \/ RollbackCommit(o) \/ ApiFails(o)
  \/ \E e \in Endpoint : Decommission(e) \/ Quarantine(e)

WorkerStep ==
  \/ \E d \in Deployment, k \in 0..MaxRetries : ScheduleIgnored(d, k) \/ ScheduleDefer(d, k)
  \/ \E d \in Deployment : Redeliver(d)
  \/ \E w \in Worker :
       \/ \E d \in Deployment : ScheduleLoad(w, d) \/ FinalizeLoad(w, d)
       \/ ScheduleStart(w) \/ SchedulePush(w) \/ ScheduleCommit(w) \/ ScheduleRetry(w)
       \/ FinalizeCount(w) \/ FinalizeCommit(w) \/ WorkerLost(w)

ReportStep ==
  \/ \E r \in reqs : \/ Refuse(r) \/ Dequeue(r) \/ LoadRow(r) \/ CommitReport(r)
                     \/ AttemptFails(r) \/ AttemptTimesOut(r) \/ Receive(r)
  \/ \E e \in Endpoint : Expire(e)

AgentStep ==
  \E e \in Endpoint : \/ Fetch(e) \/ StartInstall(e) \/ FinishDownload(e)
                      \/ RunInstaller(e) \/ RunRollback(e) \/ AgentDies(e) \/ AgentDiesLate(e)

Next == ApiStep \/ WorkerStep \/ ReportStep \/ AgentStep

Spec == Init /\ [][Next]_vars

(***************************************************************************)
(* A handler, a job and an agent that can go on do go on; faults and the   *)
(* operators' wishes need not happen.  A worker that is free at times      *)
(* takes every job (the broker is first in, first out): strong fairness.   *)
(* The install window opens again, so a job is not deferred forever.       *)
(***************************************************************************)
Fairness ==
  /\ WF_vars(\E o \in ops : CreateEnqueue(o))
  /\ WF_vars(\E o \in ops : CancelSelect(o) \/ CancelCommit(o))
  /\ WF_vars(\E o \in ops : RollbackPush(o) \/ RollbackCommit(o))
  /\ \A d \in Deployment :
       /\ SF_vars(\E w \in Worker : ScheduleLoad(w, d))
       /\ SF_vars(\E w \in Worker : FinalizeLoad(w, d))
  /\ \A w \in Worker :
       WF_vars(\/ ScheduleStart(w) \/ SchedulePush(w) \/ ScheduleCommit(w)
               \/ FinalizeCount(w) \/ FinalizeCommit(w))
  /\ \A e \in Endpoint :
       /\ WF_vars(Fetch(e) \/ StartInstall(e) \/ FinishDownload(e)
                  \/ RunInstaller(e) \/ RunRollback(e))
       /\ WF_vars(\E r \in Mine(e) : \/ Refuse(r) \/ Dequeue(r) \/ LoadRow(r)
                                     \/ CommitReport(r) \/ Receive(r))

FairSpec == Spec /\ Fairness

-----------------------------------------------------------------------------
(* Properties *)

TypeOK ==
  /\ dep \in [Deployment -> Dep]
  /\ row \in [Task -> RowStatus] /\ snap \in [Task -> BOOLEAN]
  /\ runs \in [Deployment -> 0..MaxRuns]
  /\ queue \in [Endpoint -> Seq(Item)] /\ ttl \in [Endpoint -> BOOLEAN]
  /\ gone \subseteq Endpoint
  /\ sched \in [Deployment \X (0..MaxRetries) -> Nat]
  /\ final \in [Deployment -> Nat]
  /\ worker \in [Worker -> WorkerState]
  /\ ops \subseteq Op
  /\ agent \in [Endpoint -> AgentState]
  /\ reqs \subseteq Request
  /\ installs \in [Task -> Nat] /\ restarts \in [Endpoint -> Nat]
  /\ mishap \in [Task -> SUBSET Mishap]
  /\ budget \in [Fault -> Nat]

\* No task vanishes between Redis and PostgreSQL: a result row that can still
\* change has its task on the agent's list or a terminal report for it under
\* way, unless one of the five known mishaps befell the task: its list expired,
\* its report came before the schedule job had committed its row, a report the
\* agent had given up on took effect late, the agent was refused, or the agent
\* died between the removal of the task and the commit of its row.
Spared(t)  == mishap[t] = {}
Ending(t)  == \E r \in reqs : r.item = Install(t) /\ r.status \in Ended
Accounted(t) == row[t] \in Active /\ Spared(t) => IsQueued(Install(t)) \/ Ending(t)
NoTaskVanishes == \A t \in Task : Accounted(t)

\* The installer runs once per task, and once more at most for every restart of
\* the agent and every refusal it took for an answer: retried reports, repeated
\* fetches and finalize jobs do not repeat an installation.
InstallsBounded == \A t \in Task : installs[t] <= 1 + restarts[t.ep]

\* A rollback task names a row that recorded a snapshot: the agent always has
\* something to restore.
RollbackHasSnapshot ==
  \A e \in Endpoint : \A i \in Elements(queue[e]) : i.kind = "rollback" => snap[i.task]

\* A result an agent reported stays: a row that says "success" or "failed" says
\* so for good, unless a report the agent had given up on comes late, or the row
\* was pending when a cancellation chose it and is skipped after all.
ResultStays ==
  [][\A t \in Task : row[t] \in {"success", "failed"} /\ "late" \notin mishap'[t]
                       => row'[t] \in {row[t], "skipped"}]_vars

\* A skipped row is not taken up again: cancellation reaches the tasks that
\* have not started.
SkippedStaysSkipped == [][\A t \in Task : row[t] = "skipped" => row'[t] = "skipped"]_vars

\* A deployment that is completed or failed has no row left to wait for.
DoneMeansDone ==
  \A d \in Deployment : dep[d].status \in {"completed", "failed"} =>
    \A t \in Task : t.dep = d => row[t] \notin Active

\* The counters of a finished deployment are the truth about its rows, and it
\* has completed exactly when no row failed.
CountsAreTrue ==
  \A d \in Deployment : dep[d].status \in {"completed", "failed"} =>
    /\ dep[d].succ = Count(d, "success") + Count(d, "rolled_back")
    /\ dep[d].fail = Count(d, "failed")
    /\ dep[d].total = dep[d].succ + dep[d].fail + Count(d, "skipped")
    /\ (dep[d].status = "completed") <=> (dep[d].fail = 0)

\* A deployment that was created comes to an end, unless a mishap befalls one
\* of its tasks.
RolloutEnds ==
  \A d \in Deployment :
    dep[d].status \in Open ~> \/ dep[d].status \in Closed
                              \/ \E t \in Task : t.dep = d /\ ~Spared(t)

\* A deployment that was created comes to an end, whatever happens.
EveryRolloutEnds == \A d \in Deployment : dep[d].status \in Open ~> dep[d].status \in Closed

\* Rollout keeps the promise of Lifecycle.
EndpointsWith(S) ==
  [d \in Deployment |-> {e \in Endpoint : \E t \in Task : t.dep = d /\ t.ep = e /\ row[t] \in S}]

LC == INSTANCE Lifecycle WITH
        status  <- [d \in Deployment |-> dep[d].status],
        waiting <- EndpointsWith(Active),
        failed  <- EndpointsWith({"failed"})

ImplementsLifecycle == LC!Spec
=============================================================================
