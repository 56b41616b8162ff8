-------------------------- MODULE RolloutTaskProofs --------------------------
(***************************************************************************)
(* No task vanishes: the proof that IInv is inductive.  A lemma for each   *)
(* part of the invariant says what a step must leave alone to keep it;     *)
(* then there is one lemma per group of actions, with one step per action, *)
(* that looks at the parts the action can disturb.                         *)
(***************************************************************************)
EXTENDS RolloutProofs

-----------------------------------------------------------------------------
(* What the parts of the invariant depend on *)

\* A task that is safe and not over stays safe.
SafeKeeps == \A t \in Task : row[t] \notin Ended /\ Safe(t) => Safe(t)'

\* A mishap is not forgotten.
MishapsKeep == \A t \in Task : mishap[t] \subseteq mishap'[t]

LEMMA MarkFacts ==
  ASSUME TypeOK, NEW T, NEW k, Mark(T, k)
  PROVE  /\ MishapsKeep
         /\ \A t \in Task : t \in T => ~Spared(t)'
BY DEF Mark, MishapsKeep, Spared

LEMMA InstallFacts ==
  /\ \A t \in Task : Install(t) \in Item /\ Install(t).task = t /\ Install(t).kind = "install"
  /\ \A i \in Item : i.kind = "install" => i = Install(i.task)
BY DEF Item, Install

\* The task of a schedule job for an endpoint
LEMMA RunTaskFacts ==
  ASSUME TypeOK, NEW w \in Worker, Scheduling(w)
  PROVE  /\ worker[w].dep \in Deployment /\ worker[w].run \in 1..MaxRuns
         /\ worker[w].todo \subseteq Endpoint /\ worker[w].pushed \subseteq Endpoint
         /\ \A e \in Endpoint :
              /\ RunTask(w, e) \in Task
              /\ RunTask(w, e).dep = worker[w].dep
              /\ RunTask(w, e).run = worker[w].run
              /\ RunTask(w, e).ep = e
<1>1. worker[w] \in WorkerState
  BY DEF TypeOK
<1>2. /\ worker[w].dep \in Deployment /\ worker[w].run \in 1..MaxRuns
      /\ worker[w].todo \subseteq Endpoint /\ worker[w].pushed \subseteq Endpoint
  BY <1>1 DEF Scheduling, WorkerState
<1> QED BY <1>2 DEF RunTask, TaskOf, Task

\* Tasks stay safe if lists and requests grow.
LEMMA SafeFrame ==
  ASSUME MishapsKeep,
         \A t \in Task : IsQueued(Install(t)) => Safe(t)',
         \A t \in Task : row[t] \notin Ended /\ Ending(t) => Safe(t)'
  PROVE  SafeKeeps
BY DEF MishapsKeep, SafeKeeps, Safe, Spared

LEMMA QueueFrame ==
  ASSUME QueueInv, UNCHANGED <<queue, runs>>
  PROVE  QueueInv'
BY DEF QueueInv, Elements, Distinct

LEMMA RowFrame ==
  ASSUME RowInv, UNCHANGED <<row, runs>>
  PROVE  RowInv'
BY DEF RowInv

\* A schedule job is not disturbed as long as its rows stay absent, nobody
\* queues its tasks, and what is safe stays safe.
SameJob(v) ==
  /\ Scheduling(v)
  /\ worker'[v].dep = worker[v].dep /\ worker'[v].run = worker[v].run
  /\ worker'[v].todo = worker[v].todo /\ worker'[v].pushed = worker[v].pushed

LEMMA ScheduleFrame ==
  ASSUME TypeOK, ScheduleInv, SafeKeeps, UNCHANGED runs,
         \A v \in Worker : Scheduling(v)' => SameJob(v),
         \A v \in Worker, e \in Endpoint : Scheduling(v)' => row'[RunTask(v, e)] = "none",
         \A t \in Task : IsQueued(Install(t))' => IsQueued(Install(t))
  PROVE  ScheduleInv'
<1> SUFFICES ASSUME NEW w \in Worker, Scheduling(w)'
             PROVE  /\ worker'[w].run <= runs'[worker'[w].dep]
                    /\ \A e \in Endpoint : row'[RunTask(w, e)'] = "none"
                    /\ \A e \in worker'[w].todo : ~IsQueued(Install(RunTask(w, e)))'
                    /\ \A e \in worker'[w].pushed : Safe(RunTask(w, e))'
                    /\ \A v \in Worker : Scheduling(v)' /\ worker'[v].dep = worker'[w].dep
                                           /\ worker'[v].run = worker'[w].run => v = w
  BY DEF ScheduleInv
<1>1. SameJob(w) /\ \A e : RunTask(w, e)' = RunTask(w, e)
  BY DEF SameJob, RunTask
<1>2. Scheduling(w)
  BY <1>1 DEF SameJob
<1>3. worker'[w].run <= runs'[worker'[w].dep]
  BY <1>1, <1>2 DEF ScheduleInv, SameJob
<1>4. \A e \in worker'[w].todo : ~IsQueued(Install(RunTask(w, e)))'
  BY <1>1, <1>2, RunTaskFacts DEF ScheduleInv, SameJob
<1>5. \A e \in worker'[w].pushed : Safe(RunTask(w, e))'
  BY <1>1, <1>2, RunTaskFacts DEF ScheduleInv, SameJob, SafeKeeps, Ended
<1>6. \A v \in Worker : Scheduling(v)' /\ worker'[v].dep = worker'[w].dep
                          /\ worker'[v].run = worker'[w].run => v = w
  BY <1>1, <1>2 DEF ScheduleInv, SameJob
<1> QED BY <1>1, <1>3, <1>4, <1>5, <1>6

LEMMA AgentFrame ==
  ASSUME TypeOK, AgentInv, MishapsKeep, UNCHANGED agent,
         \A e \in Endpoint : \A i \in Elements(queue[e]) :
            i.kind = "install" /\ Spared(i.task)' => i \in Elements(queue'[e])
  PROVE  AgentInv'
<1> SUFFICES ASSUME NEW e \in Endpoint, NEW k \in DOMAIN agent[e].todo PROVE Held(e, k)'
  BY DEF AgentInv
<1>0. agent[e].todo \in Seq(Item)
  BY DEF TypeOK, AgentState
<1>1. agent[e].todo[k] \in Item /\ agent[e].todo[k].task \in Task
  BY <1>0 DEF Item
<1>2. Held(e, k) /\ agent[e].todo[k].task.ep = e
  BY DEF AgentInv
<1> QED BY <1>1, <1>2 DEF Held, IsQueued, MishapsKeep, Spared

LEMMA RequestFrame ==
  ASSUME TypeOK, RequestInv, MishapsKeep, UNCHANGED <<reqs, agent>>,
         \A t \in Task : row[t] # "none" => row'[t] # "none",
         \A t \in Task : row[t] \in Ended /\ Spared(t)' => row'[t] \in Ended
  PROVE  RequestInv'
<1> SUFFICES ASSUME NEW r \in reqs
             PROVE  /\ r.status \in Ended \cup {"downloading", "installing"}
                    /\ r.seen # "none" => r.item.kind = "install" /\ row'[r.item.task] # "none"
                    /\ r.live => Awaited(r)' /\ Effective(r)'
  BY DEF RequestInv
<1>1. r.item.task \in Task
  BY RequestType
<1>2. r.live => Awaited(r)'
  BY DEF RequestInv, Awaited, Current, Mine
<1>3. r.live => Effective(r)'
  BY <1>1 DEF RequestInv, Effective, MishapsKeep, Spared
<1> QED BY <1>1, <1>2, <1>3 DEF RequestInv

LEMMA NoTaskVanishesFrame ==
  ASSUME NoTaskVanishes, SafeKeeps,
         \A t \in Task : row'[t] \in Active => row[t] \in Active
  PROVE  NoTaskVanishes'
BY DEF NoTaskVanishes, Accounted, SafeKeeps, Safe, Active, Ended

\* A step that leaves rows, lists, agents and requests alone and no more than
\* ends a job keeps the invariant.
LEMMA Quiet ==
  ASSUME IInv, OpInv', UNCHANGED <<row, runs, queue, agent, reqs, mishap>>,
         \A v \in Worker : Scheduling(v)' => SameJob(v)
  PROVE  TaskInv'
<1> USE DEF IInv, TaskInv
<1>1. MishapsKeep
  BY DEF MishapsKeep
<1>2. SafeKeeps
  BY DEF SafeKeeps, Safe, Spared, IsQueued, Ending
<1>3. ScheduleInv'
  <2>1. \A v \in Worker, e \in Endpoint : Scheduling(v)' => row'[RunTask(v, e)] = "none"
    BY DEF ScheduleInv, SameJob
  <2>2. \A t \in Task : IsQueued(Install(t))' => IsQueued(Install(t))
    BY DEF IsQueued
  <2> QED BY <1>2, <2>1, <2>2, ScheduleFrame
<1> QED BY <1>1, <1>2, <1>3, QueueFrame, RowFrame, AgentFrame, RequestFrame,
           NoTaskVanishesFrame

-----------------------------------------------------------------------------
(* The deployment API *)

LEMMA ApiKeeps ==
  ASSUME IInv, ApiStep
  PROVE  TaskInv'
<1> USE DEF IInv, TaskInv, db, redis, broker, ghosts
<1>j. ASSUME UNCHANGED worker PROVE \A v \in Worker : Scheduling(v)' => SameJob(v)
  BY <1>j DEF Scheduling, SameJob
<1>n. ASSUME NEW k, NEW d, NEW n, NEW rs, UNCHANGED row,
             ops' = ops \cup {NewOp(k, d, rs, n)}, \A t \in rs : row[t] # "none"
      PROVE  OpInv'
  BY <1>n DEF OpInv, NewOp
<1>1. ASSUME NEW d \in Deployment, CreateCommit(d) PROVE TaskInv'
  <2>1. OpInv'
    BY <1>1, <1>n DEF CreateCommit
  <2> QED BY <1>1, <1>j, <2>1, Quiet DEF CreateCommit
<1>2. ASSUME NEW d \in Deployment, CancelLoad(d) PROVE TaskInv'
  <2>1. OpInv'
    BY <1>2, <1>n DEF CancelLoad
  <2> QED BY <1>2, <1>j, <2>1, Quiet DEF CancelLoad
<1>3. ASSUME NEW d \in Deployment, RollbackLoad(d) PROVE TaskInv'
  <2>1. \A t \in CanRollBack(d) : row[t] # "none"
    BY DEF CanRollBack
  <2>2. OpInv'
    BY <1>3, <1>n, <2>1 DEF RollbackLoad
  <2> QED BY <1>3, <1>j, <2>2, Quiet DEF RollbackLoad
<1>4. ASSUME NEW o \in ops, CreateEnqueue(o) PROVE TaskInv'
  <2>1. OpInv'
    BY <1>4 DEF CreateEnqueue, OpInv
  <2> QED BY <1>4, <1>j, <2>1, Quiet DEF CreateEnqueue
<1>5. ASSUME NEW o \in ops, CancelSelect(o) PROVE TaskInv'
  <2>1. o \in Op
    BY DEF TypeOK
  <2> DEFINE R == {t \in Task : t.dep = o.dep /\ row[t] = "pending"}
             p == [o EXCEPT !.stage = "locked", !.rows = R]
  <2>2. p.rows = R
    BY <2>1 DEF Op
  <2>3. ops' = (ops \ {o}) \cup {p} /\ UNCHANGED row
    BY <1>5 DEF CancelSelect
  <2> HIDE DEF p
  <2>4. OpInv'
    BY <2>2, <2>3 DEF OpInv
  <2> QED BY <1>5, <1>j, <2>4, Quiet DEF CancelSelect
<1>6. ASSUME NEW o \in ops, CancelCommit(o) PROVE TaskInv'
  <2>1. \A t \in Task : row'[t] = IF t \in o.rows THEN "skipped" ELSE row[t]
    BY <1>6 DEF CancelCommit
  <2>2. \A t \in o.rows : row[t] # "none"
    BY DEF OpInv
  <2>3. \A t \in Task : /\ row[t] = "none" <=> row'[t] = "none"
                        /\ row[t] \in Ended => row'[t] \in Ended
                        /\ row'[t] \in Active => row[t] \in Active
    BY <2>1, <2>2 DEF Ended, Active
  <2>4. UNCHANGED <<runs, queue, worker, agent, reqs, mishap>> /\ ops' \subseteq ops
    BY <1>6 DEF CancelCommit
  <2>5. MishapsKeep /\ SafeKeeps
    BY <2>4 DEF MishapsKeep, SafeKeeps, Safe, Spared, IsQueued, Ending
  <2>6. QueueInv'
    BY <2>4, QueueFrame
  <2>7. RowInv'
    BY <2>3, <2>4 DEF RowInv
  <2>8. OpInv'
    <3>1. \A p \in ops : p.rows \subseteq Task
      BY DEF TypeOK, Op
    <3> QED BY <2>3, <2>4, <3>1 DEF OpInv
  <2>9. ScheduleInv'
    <3>1. \A v \in Worker, e \in Endpoint : Scheduling(v)' => row'[RunTask(v, e)] = "none"
      BY <2>3, <2>4, RunTaskFacts DEF ScheduleInv, Scheduling
    <3>2. \A t \in Task : IsQueued(Install(t))' => IsQueued(Install(t))
      BY <2>4 DEF IsQueued
    <3> QED BY <1>j, <2>4, <2>5, <3>1, <3>2, ScheduleFrame
  <2>10. AgentInv'
    BY <2>4, <2>5, AgentFrame
  <2>11. RequestInv'
    BY <2>3, <2>4, <2>5, RequestFrame
  <2>12. NoTaskVanishes'
    BY <2>3, <2>5, NoTaskVanishesFrame
  <2> QED BY <2>6, <2>7, <2>8, <2>9, <2>10, <2>11, <2>12
<1>7. ASSUME NEW o \in ops, RollbackPush(o) PROVE TaskInv'
  <2>1. PICK t \in o.rows :
          /\ queue' = [queue EXCEPT ![t.ep] = Append(@, Rollback(t, o.nth))]
          /\ ops' = (ops \ {o}) \cup {[o EXCEPT !.rows = @ \ {t}]}
    BY <1>7 DEF RollbackPush
  <2> DEFINE i == Rollback(t, o.nth)
  <2>2. /\ o \in Op /\ t \in Task /\ t.ep \in Endpoint
        /\ i \in Item /\ i.kind = "rollback" /\ i.task = t
    BY DEF TypeOK, Op, Task, Rollback, Item
  <2>3. UNCHANGED <<row, runs, worker, agent, reqs, mishap>>
    BY <1>7 DEF RollbackPush
  <2>4. /\ \A e \in Endpoint : e # t.ep => queue'[e] = queue[e]
        /\ queue'[t.ep] = Append(queue[t.ep], i)
    BY <2>1, <2>2 DEF TypeOK
  <2> HIDE DEF i
  <2>5. /\ Elements(queue'[t.ep]) = Elements(queue[t.ep]) \cup {i}
        /\ Distinct(queue[t.ep]) => Distinct(queue'[t.ep])
    BY <2>2, <2>4, AppendFacts DEF TypeOK
  <2>6. QueueInv'
    BY <2>2, <2>3, <2>4, <2>5 DEF QueueInv
  <2>7. OpInv'
    <3>1. \A x : x = [o EXCEPT !.rows = @ \ {t}] => x.rows \subseteq o.rows
      BY <2>2 DEF Op
    <3> QED BY <2>1, <2>3, <3>1 DEF OpInv
  <2>8. \A u \in Task : IsQueued(Install(u))' <=> IsQueued(Install(u))
    <3> SUFFICES ASSUME NEW u \in Task PROVE IsQueued(Install(u))' <=> IsQueued(Install(u))
      OBVIOUS
    <3>1. Install(u).task = u /\ Install(u) # i /\ u.ep \in Endpoint
      BY <2>2, InstallFacts DEF Task
    <3> QED BY <2>4, <2>5, <3>1 DEF IsQueued
  <2>9. MishapsKeep /\ SafeKeeps
    BY <2>3, <2>8 DEF MishapsKeep, SafeKeeps, Safe, Spared, Ending
  <2>10. ScheduleInv'
    <3>1. \A v \in Worker, e \in Endpoint : Scheduling(v)' => row'[RunTask(v, e)] = "none"
      BY <2>3 DEF ScheduleInv, Scheduling
    <3> QED BY <1>j, <2>3, <2>8, <2>9, <3>1, ScheduleFrame
  <2>11. AgentInv'
    BY <2>3, <2>4, <2>5, <2>9, AgentFrame
  <2> QED BY <2>3, <2>6, <2>7, <2>9, <2>10, <2>11, RowFrame, RequestFrame, NoTaskVanishesFrame
<1>8. ASSUME NEW o \in ops, RollbackCommit(o) PROVE TaskInv'
  <2>1. OpInv'
    BY <1>8 DEF RollbackCommit, OpInv
  <2> QED BY <1>8, <1>j, <2>1, Quiet DEF RollbackCommit
<1>9. ASSUME NEW o \in ops, ApiFails(o) PROVE TaskInv'
  <2>1. OpInv'
    BY <1>9 DEF ApiFails, OpInv
  <2> QED BY <1>9, <1>j, <2>1, Quiet DEF ApiFails
<1>10. ASSUME NEW e \in Endpoint, Decommission(e) PROVE TaskInv'
  <2>1. OpInv'
    BY <1>10 DEF Decommission, OpInv
  <2> QED BY <1>10, <1>j, <2>1, Quiet DEF Decommission
<1>11. ASSUME NEW e \in Endpoint, Quarantine(e) PROVE TaskInv'
  <2>1. OpInv'
    BY <1>11 DEF Quarantine, OpInv
  <2> QED BY <1>11, <1>j, <2>1, Quiet DEF Quarantine
<1> QED BY <1>1, <1>2, <1>3, <1>4, <1>5, <1>6, <1>7, <1>8, <1>9, <1>10, <1>11 DEF ApiStep

-----------------------------------------------------------------------------
(* The Celery workers *)

\* A new job takes a run of its own.
LEMMA ScheduleLoadKeeps ==
  ASSUME IInv, NEW w \in Worker, NEW d \in Deployment, ScheduleLoad(w, d)
  PROVE  TaskInv'
<1> USE DEF IInv, TaskInv, db, redis, broker, ghosts
<1>1. PICK k \in 0..MaxRetries, S \in TargetChoices :
          worker' = [worker EXCEPT ![w] =
               [pc |-> "loaded", dep |-> d, run |-> runs[d] + 1, tries |-> k, todo |-> S,
                pushed |-> {}, seen |-> dep[d], new |-> Scheduled(dep[d], S)]]
  BY DEF ScheduleLoad
<1>2. /\ worker'[w].pc = "loaded" /\ worker'[w].dep = d /\ worker'[w].run = runs[d] + 1
      /\ worker'[w].todo = S /\ worker'[w].pushed = {}
      /\ \A v \in Worker : v # w => worker'[v] = worker[v]
  BY <1>1 DEF TypeOK
<1>3. /\ UNCHANGED <<row, queue, ops, agent, reqs, mishap>>
      /\ runs' = [runs EXCEPT ![d] = @ + 1] /\ runs[d] < MaxRuns
  BY DEF ScheduleLoad
<1>4. /\ runs[d] \in Nat /\ runs[d] + 1 \in 1..MaxRuns /\ runs'[d] = runs[d] + 1
      /\ \A c \in Deployment : runs[c] \in Nat /\ runs'[c] \in Nat /\ runs[c] <= runs'[c]
  BY <1>3, RolloutAssumption DEF TypeOK
<1>5. MishapsKeep /\ SafeKeeps
  BY <1>3 DEF MishapsKeep, SafeKeeps, Safe, Spared, IsQueued, Ending
<1>6. QueueInv'
  <2> SUFFICES ASSUME NEW e \in Endpoint, NEW i \in Elements(queue[e]), i.kind = "install"
               PROVE  i.task.run <= runs'[i.task.dep]
    BY <1>3 DEF QueueInv, Distinct
  <2>1. i \in Item
    BY DEF TypeOK, Elements
  <2>2. i.task.run \in Nat /\ i.task.dep \in Deployment /\ i.task.run <= runs[i.task.dep]
    BY <2>1 DEF QueueInv, Item, Task
  <2> QED BY <1>4, <2>2
<1>7. RowInv'
  <2> SUFFICES ASSUME NEW t \in Task, row[t] # "none" PROVE t.run <= runs'[t.dep]
    BY <1>3 DEF RowInv
  <2>1. t.run \in Nat /\ t.dep \in Deployment /\ t.run <= runs[t.dep]
    BY DEF RowInv, Task
  <2> QED BY <1>4, <2>1
<1>8. OpInv'
  BY <1>3 DEF OpInv
<1>9. ScheduleInv'
  <2>1. ASSUME NEW v \in Worker, Scheduling(v)', v # w
        PROVE  /\ Scheduling(v) /\ worker[v].dep \in Deployment /\ worker[v].run \in Nat
               /\ worker[v].run <= runs[worker[v].dep]
               /\ \A e : RunTask(v, e)' = RunTask(v, e)
    <3>1. Scheduling(v) /\ worker'[v] = worker[v]
      BY <1>2, <2>1 DEF Scheduling
    <3> QED BY <3>1, RunTaskFacts DEF ScheduleInv, RunTask
  <2> SUFFICES ASSUME NEW v \in Worker, Scheduling(v)'
               PROVE  /\ worker'[v].run <= runs'[worker'[v].dep]
                      /\ \A e \in Endpoint : row'[RunTask(v, e)'] = "none"
                      /\ \A e \in worker'[v].todo : ~IsQueued(Install(RunTask(v, e)))'
                      /\ \A e \in worker'[v].pushed : Safe(RunTask(v, e))'
                      /\ \A u \in Worker : Scheduling(u)' /\ worker'[u].dep = worker'[v].dep
                                             /\ worker'[u].run = worker'[v].run => u = v
    BY DEF ScheduleInv
  <2>2. CASE v = w
    <3>1. ASSUME NEW e \in Endpoint
          PROVE  /\ RunTask(w, e)' \in Task /\ RunTask(w, e)'.ep = e
                 /\ RunTask(w, e)'.dep = d /\ RunTask(w, e)'.run = runs[d] + 1
      BY <1>2, <1>4 DEF RunTask, TaskOf, Task
    <3>2. \A e \in Endpoint : row'[RunTask(w, e)'] = "none"
      BY <1>3, <1>4, <3>1 DEF RowInv
    <3>3. \A e \in S : ~IsQueued(Install(RunTask(w, e)))'
      <4> SUFFICES ASSUME NEW e \in S, NEW t \in Task, t = RunTask(w, e)', IsQueued(Install(t))'
                   PROVE  FALSE
        BY <3>1, TargetType
      <4>1. e \in Endpoint /\ t.ep = e /\ t.dep = d /\ t.run = runs[d] + 1
        BY <3>1, TargetType
      <4>2. Install(t) \in Elements(queue[e]) /\ Install(t).task = t /\ Install(t).kind = "install"
        BY <1>3, <4>1, InstallFacts DEF IsQueued
      <4>3. t.run <= runs[t.dep]
        BY <4>1, <4>2 DEF QueueInv
      <4> QED BY <1>4, <4>1, <4>3
    <3>4. \A u \in Worker : Scheduling(u)' /\ worker'[u].dep = worker'[v].dep
                              /\ worker'[u].run = worker'[v].run => u = v
      BY <1>2, <1>4, <2>1, <2>2
    <3> QED BY <1>2, <1>4, <2>2, <3>2, <3>3, <3>4
  <2>3. CASE v # w
    <3>1. worker'[v] = worker[v]
      BY <1>2, <2>3
    <3>2. \A e \in Endpoint : row'[RunTask(v, e)'] = "none"
      BY <1>3, <2>1, <2>3 DEF ScheduleInv
    <3>3. \A e \in worker'[v].todo : ~IsQueued(Install(RunTask(v, e)))'
      BY <1>3, <2>1, <2>3, <3>1 DEF ScheduleInv, IsQueued
    <3>4. \A e \in worker'[v].pushed : Safe(RunTask(v, e))'
      BY <1>5, <2>1, <2>3, <3>1, RunTaskFacts DEF ScheduleInv, SafeKeeps, Ended
    <3>5. worker'[v].run <= runs'[worker'[v].dep]
      BY <1>4, <2>1, <2>3, <3>1
    <3>6. \A u \in Worker : Scheduling(u)' /\ worker'[u].dep = worker'[v].dep
                              /\ worker'[u].run = worker'[v].run => u = v
      BY <1>2, <1>4, <2>1, <2>3, <3>1 DEF ScheduleInv
    <3> QED BY <3>2, <3>3, <3>4, <3>5, <3>6
  <2> QED BY <2>2, <2>3
<1> QED BY <1>3, <1>5, <1>6, <1>7, <1>8, <1>9, AgentFrame, RequestFrame, NoTaskVanishesFrame

\* A pushed task is queued, and no other job queues it.
LEMMA SchedulePushKeeps ==
  ASSUME IInv, NEW w \in Worker, SchedulePush(w)
  PROVE  TaskInv'
<1> USE DEF IInv, TaskInv, db, redis, broker, ghosts
<1>1. PICK e \in worker[w].todo :
        /\ queue' = [queue EXCEPT ![e] = Append(@, Install(RunTask(w, e)))]
        /\ worker' = [worker EXCEPT ![w].todo = @ \ {e}, ![w].pushed = @ \cup {e}]
  BY DEF SchedulePush, RunTask
<1>2. UNCHANGED <<row, runs, ops, agent, reqs, mishap>> /\ Scheduling(w)
  BY DEF SchedulePush, Scheduling
<1> DEFINE t == RunTask(w, e)
           i == Install(t)
<1>3. /\ e \in Endpoint /\ t \in Task /\ t.ep = e
      /\ t.dep = worker[w].dep /\ t.run = worker[w].run
      /\ worker[w].todo \subseteq Endpoint /\ worker[w].pushed \subseteq Endpoint
  BY <1>2, RunTaskFacts
<1>4. /\ worker'[w].dep = worker[w].dep /\ worker'[w].run = worker[w].run
      /\ worker'[w].todo = worker[w].todo \ {e} /\ worker'[w].pushed = worker[w].pushed \cup {e}
      /\ \A v \in Worker : v # w => worker'[v] = worker[v]
  <2>1. worker[w] \in WorkerState
    BY DEF TypeOK
  <2> QED BY <1>1, <2>1 DEF TypeOK, WorkerState
<1>5. ~IsQueued(i) /\ t.run <= runs[t.dep]
  BY <1>2, <1>3 DEF ScheduleInv
<1> HIDE DEF t
<1>6. i \in Item /\ i.task = t /\ i.kind = "install"
  BY <1>3, InstallFacts
<1>7. /\ \A f \in Endpoint : f # e => queue'[f] = queue[f]
      /\ queue'[e] = Append(queue[e], i)
  BY <1>1, <1>3 DEF TypeOK, t
<1> HIDE DEF i
<1>8. /\ Elements(queue'[e]) = Elements(queue[e]) \cup {i}
      /\ Distinct(queue[e]) /\ i \notin Elements(queue[e]) => Distinct(queue'[e])
  BY <1>3, <1>6, <1>7, AppendFacts DEF TypeOK
<1>9. QueueInv'
  BY <1>2, <1>3, <1>5, <1>6, <1>7, <1>8 DEF QueueInv, IsQueued
<1>10. \A u \in Task : IsQueued(Install(u))' <=> IsQueued(Install(u)) \/ u = t
  <2> SUFFICES ASSUME NEW u \in Task
               PROVE  IsQueued(Install(u))' <=> IsQueued(Install(u)) \/ u = t
    OBVIOUS
  <2>1. Install(u).task = u /\ u.ep \in Endpoint /\ (Install(u) = i <=> u = t)
    BY <1>3, <1>6, InstallFacts DEF Task, i
  <2> QED BY <1>3, <1>7, <1>8, <2>1 DEF IsQueued
<1>11. MishapsKeep /\ SafeKeeps
  BY <1>2, <1>10 DEF MishapsKeep, SafeKeeps, Safe, Spared, Ending
<1>12. ScheduleInv'
  <2>1. ASSUME NEW v \in Worker, Scheduling(v)'
        PROVE  /\ Scheduling(v) /\ worker'[v].dep = worker[v].dep
               /\ worker'[v].run = worker[v].run
               /\ worker'[v].todo \subseteq worker[v].todo /\ e \notin worker'[w].todo
               /\ \A f : RunTask(v, f)' = RunTask(v, f)
    BY <1>2, <1>4, <2>1 DEF Scheduling, RunTask
  <2> SUFFICES ASSUME NEW v \in Worker, Scheduling(v)'
               PROVE  /\ worker'[v].run <= runs'[worker'[v].dep]
                      /\ \A f \in Endpoint : row'[RunTask(v, f)'] = "none"
                      /\ \A f \in worker'[v].todo : ~IsQueued(Install(RunTask(v, f)))'
                      /\ \A f \in worker'[v].pushed : Safe(RunTask(v, f))'
                      /\ \A u \in Worker : Scheduling(u)' /\ worker'[u].dep = worker'[v].dep
                                             /\ worker'[u].run = worker'[v].run => u = v
    BY DEF ScheduleInv
  <2>2. /\ \A f \in Endpoint : row'[RunTask(v, f)'] = "none"
        /\ worker'[v].run <= runs'[worker'[v].dep]
    BY <1>2, <2>1 DEF ScheduleInv
  <2>3. \A u \in Worker : Scheduling(u)' /\ worker'[u].dep = worker'[v].dep
                            /\ worker'[u].run = worker'[v].run => u = v
    BY <2>1 DEF ScheduleInv
  <2>4. \A f \in Endpoint : RunTask(v, f) = t => v = w /\ f = e
    BY <1>2, <1>3, <2>1, RunTaskFacts DEF ScheduleInv
  <2>5. \A f \in worker'[v].todo : ~IsQueued(Install(RunTask(v, f)))'
    <3> SUFFICES ASSUME NEW f \in worker'[v].todo
                 PROVE  ~IsQueued(Install(RunTask(v, f)))'
      OBVIOUS
    <3>1. f \in worker[v].todo /\ f \in Endpoint /\ RunTask(v, f) \in Task
      BY <2>1, RunTaskFacts
    <3>2. RunTask(v, f) # t /\ ~IsQueued(Install(RunTask(v, f)))
      BY <2>1, <2>4, <3>1 DEF ScheduleInv
    <3> QED BY <1>10, <2>1, <3>1, <3>2
  <2>6. \A f \in worker'[v].pushed : Safe(RunTask(v, f))'
    <3> SUFFICES ASSUME NEW f \in worker'[v].pushed PROVE Safe(RunTask(v, f))'
      OBVIOUS
    <3>1. f \in worker[v].pushed \/ (v = w /\ f = e)
      BY <1>4
    <3>2. CASE f \in worker[v].pushed
      <4>1. f \in Endpoint /\ RunTask(v, f) \in Task
        BY <2>1, <3>2, RunTaskFacts
      <4>2. Safe(RunTask(v, f)) /\ row[RunTask(v, f)] \notin Ended
        BY <2>1, <3>2, <4>1 DEF ScheduleInv, Ended
      <4> QED BY <1>11, <2>1, <4>1, <4>2 DEF SafeKeeps
    <3>3. CASE v = w /\ f = e
      <4>1. \A u \in Task : u = t => Safe(u)'
        BY <1>10 DEF Safe
      <4> QED BY <1>3, <2>1, <3>3, <4>1 DEF t
    <3> QED BY <3>1, <3>2, <3>3
  <2> QED BY <2>2, <2>3, <2>5, <2>6
<1>13. AgentInv'
  BY <1>2, <1>3, <1>7, <1>8, <1>11, AgentFrame
<1>14. OpInv'
  BY <1>2 DEF OpInv
<1> QED BY <1>2, <1>9, <1>11, <1>12, <1>13, <1>14, RowFrame, RequestFrame, NoTaskVanishesFrame

\* The rows that appear are those of tasks that are safe.
LEMMA ScheduleCommitKeeps ==
  ASSUME IInv, NEW w \in Worker, ScheduleCommit(w)
  PROVE  TaskInv'
<1> USE DEF IInv, TaskInv, db, redis, broker, ghosts
<1>1. /\ UNCHANGED <<runs, queue, ops, agent, reqs, mishap>> /\ Scheduling(w)
      /\ worker' = [worker EXCEPT ![w] = Resting]
  BY DEF ScheduleCommit, Scheduling
<1>2. \A t \in Task : row'[t] = IF t \in NewRows(worker[w]) THEN "pending" ELSE row[t]
  BY DEF ScheduleCommit
<1>3. \A v \in Worker : Scheduling(v)' => SameJob(v) /\ v # w
  BY <1>1, RestTypes DEF TypeOK, Scheduling, SameJob
<1>4. ASSUME NEW t \in Task, t \in NewRows(worker[w])
      PROVE  /\ t.ep \in worker[w].pushed /\ t = RunTask(w, t.ep) /\ row[t] = "none"
             /\ t.run = worker[w].run /\ t.dep = worker[w].dep
  <2>1. /\ t.ep \in worker[w].pushed /\ t.ep \in Endpoint
        /\ t.run = worker[w].run /\ t.dep = worker[w].dep
    BY <1>4 DEF NewRows, Task
  <2>2. t = RunTask(w, t.ep)
    BY <2>1 DEF RunTask, TaskOf, Task
  <2> QED BY <1>1, <2>1, <2>2 DEF ScheduleInv
<1>5. MishapsKeep /\ SafeKeeps
  BY <1>1 DEF MishapsKeep, SafeKeeps, Safe, Spared, IsQueued, Ending
<1>6. RowInv'
  BY <1>1, <1>2, <1>4 DEF RowInv, ScheduleInv
<1>7. \A t \in Task : /\ row[t] # "none" => row'[t] = row[t]
                      /\ row'[t] # "none" => row[t] # "none" \/ t \in NewRows(worker[w])
  BY <1>2, <1>4
<1>8. OpInv'
  <2>1. \A p \in ops : p.rows \subseteq Task
    BY DEF TypeOK, Op
  <2> QED BY <1>1, <1>7, <2>1 DEF OpInv
<1>9. ScheduleInv'
  <2>1. \A v \in Worker, e \in Endpoint : Scheduling(v)' => row'[RunTask(v, e)] = "none"
    <3> SUFFICES ASSUME NEW v \in Worker, NEW e \in Endpoint, Scheduling(v)'
                 PROVE  row'[RunTask(v, e)] = "none"
      OBVIOUS
    <3>1. Scheduling(v) /\ v # w
      BY <1>3 DEF SameJob
    <3>2. RunTask(v, e) \in Task /\ RunTask(v, e).dep = worker[v].dep
          /\ RunTask(v, e).run = worker[v].run /\ row[RunTask(v, e)] = "none"
      BY <3>1, RunTaskFacts DEF ScheduleInv
    <3>3. RunTask(v, e) \notin NewRows(worker[w])
      BY <1>1, <1>4, <3>1, <3>2 DEF ScheduleInv
    <3> QED BY <1>7, <3>2, <3>3
  <2>2. \A t \in Task : IsQueued(Install(t))' => IsQueued(Install(t))
    BY <1>1 DEF IsQueued
  <2> QED BY <1>1, <1>3, <1>5, <2>1, <2>2, ScheduleFrame
<1>10. RequestInv'
  <2>1. \A t \in Task : row[t] # "none" => row'[t] # "none"
    BY <1>7
  <2>2. \A t \in Task : row[t] \in Ended /\ Spared(t)' => row'[t] \in Ended
    BY <1>7 DEF Ended
  <2> QED BY <1>1, <1>5, <2>1, <2>2, RequestFrame
<1>11. NoTaskVanishes'
  <2> SUFFICES ASSUME NEW t \in Task, row'[t] \in Active PROVE Safe(t)'
    BY DEF NoTaskVanishes, Accounted, Safe
  <2>1. CASE row[t] # "none"
    BY <1>5, <1>7, <2>1 DEF NoTaskVanishes, Accounted, SafeKeeps, Safe, Active, Ended
  <2>2. CASE row[t] = "none"
    <3>1. t \in NewRows(worker[w])
      BY <1>7, <2>2 DEF Active
    <3>2. Safe(t)
      BY <1>1, <1>4, <3>1 DEF ScheduleInv
    <3> QED BY <1>5, <2>2, <3>2 DEF SafeKeeps, Ended
  <2> QED BY <2>1, <2>2
<1>12. AgentInv'
  BY <1>1, <1>5, AgentFrame
<1> QED BY <1>1, <1>6, <1>8, <1>9, <1>10, <1>11, <1>12, QueueFrame

LEMMA WorkerKeeps ==
  ASSUME IInv, WorkerStep
  PROVE  TaskInv'
<1> USE DEF IInv, TaskInv, db, redis, broker, ghosts
<1>o. ASSUME UNCHANGED <<ops, row>> PROVE OpInv'
  BY <1>o DEF OpInv
<1>j. ASSUME UNCHANGED worker PROVE \A v \in Worker : Scheduling(v)' => SameJob(v)
  BY <1>j DEF Scheduling, SameJob
<1>r. ASSUME NEW w \in Worker, NEW x, x.pc \notin {"loaded", "push"},
             worker' = [worker EXCEPT ![w] = x]
      PROVE  \A v \in Worker : Scheduling(v)' => SameJob(v)
  BY <1>r DEF TypeOK, Scheduling, SameJob
<1>1. ASSUME NEW d \in Deployment, NEW k \in 0..MaxRetries, ScheduleIgnored(d, k) PROVE TaskInv'
  BY <1>1, <1>o, <1>j, Quiet DEF ScheduleIgnored
<1>2. ASSUME NEW d \in Deployment, NEW k \in 0..MaxRetries, ScheduleDefer(d, k) PROVE TaskInv'
  BY <1>2, <1>o, <1>j, Quiet DEF ScheduleDefer
<1>3. ASSUME NEW d \in Deployment, Redeliver(d) PROVE TaskInv'
  BY <1>3, <1>o, <1>j, Quiet DEF Redeliver
<1>4. ASSUME NEW w \in Worker, NEW d \in Deployment, FinalizeLoad(w, d) PROVE TaskInv'
  <2>1. [Resting EXCEPT !.pc = "count", !.dep = d, !.seen = dep[d]].pc = "count"
    BY DEF Resting
  <2> QED BY <1>4, <1>o, <1>r, <2>1, Quiet DEF FinalizeLoad
<1>5. ASSUME NEW w \in Worker, ScheduleStart(w) PROVE TaskInv'
  <2>1. worker[w] \in WorkerState /\ worker[w].pc = "loaded"
    BY <1>5 DEF ScheduleStart, TypeOK
  <2>2. worker' = [worker EXCEPT ![w].pc = "push"]
    BY <1>5 DEF ScheduleStart
  <2>3. \A v \in Worker : Scheduling(v)' => SameJob(v)
    BY <2>1, <2>2 DEF WorkerState, TypeOK, Scheduling, SameJob
  <2> QED BY <1>5, <1>o, <2>3, Quiet DEF ScheduleStart
<1>6. ASSUME NEW w \in Worker, ScheduleRetry(w) PROVE TaskInv'
  BY <1>6, <1>o, <1>r, RestTypes, Quiet DEF ScheduleRetry
<1>7. ASSUME NEW w \in Worker, WorkerLost(w) PROVE TaskInv'
  BY <1>7, <1>o, <1>r, RestTypes, Quiet DEF WorkerLost
<1>8. ASSUME NEW w \in Worker, FinalizeCount(w) PROVE TaskInv'
  <2> DEFINE x == [worker[w] EXCEPT !.pc = "finish",
                                    !.new = Outcome(worker[w].dep, worker[w].seen)]
  <2>1. x.pc = "finish"
    BY DEF TypeOK, WorkerState
  <2>2. worker' = [worker EXCEPT ![w] = Resting] \/ worker' = [worker EXCEPT ![w] = x]
    BY <1>8 DEF FinalizeCount
  <2> HIDE DEF x
  <2>3. \A v \in Worker : Scheduling(v)' => SameJob(v)
    BY <1>r, <2>1, <2>2, RestTypes
  <2> QED BY <1>8, <1>o, <2>3, Quiet DEF FinalizeCount
<1>9. ASSUME NEW w \in Worker, FinalizeCommit(w) PROVE TaskInv'
  BY <1>9, <1>o, <1>r, RestTypes, Quiet DEF FinalizeCommit
<1> QED BY <1>1, <1>2, <1>3, <1>4, <1>5, <1>6, <1>7, <1>8, <1>9,
           ScheduleLoadKeeps, SchedulePushKeeps, ScheduleCommitKeeps DEF WorkerStep

-----------------------------------------------------------------------------
(* The agent API *)

\* The requests rep take the place of r; a live one among them is r's own
\* continuation, and there is at most one.
Replaces(r, rep) ==
  /\ reqs' = (reqs \ {r}) \cup rep
  /\ \A q \in rep : /\ q.item = r.item /\ q.status = r.status
                    /\ q.live => r.live
                    /\ \A p \in rep : q.live /\ p.live => q = p

\* A step that moves the request r keeps RequestInv if it does so for rep, and
\* if no row of another endpoint is taken up again.
LEMMA RequestMove ==
  ASSUME IInv, UNCHANGED agent, MishapsKeep, NEW r \in reqs, NEW rep, Replaces(r, rep),
         \A q \in rep : /\ q.seen # "none" => q.item.kind = "install" /\ row'[q.item.task] # "none"
                        /\ q.live => Effective(q)',
         \A t \in Task : row[t] # "none" => row'[t] # "none",
         \A t \in Task : row[t] \in Ended /\ Spared(t)' =>
            row'[t] \in Ended \/ (r.live /\ t.ep = r.item.task.ep)
  PROVE  RequestInv'
<1> USE DEF IInv, TaskInv
<1>1. ASSUME NEW q \in reqs \ {r}, q.live PROVE Awaited(q)'
  <2>1. Awaited(q) /\ (r.live => r.item.task.ep # q.item.task.ep)
    BY <1>1 DEF RequestInv, Awaited, Mine
  <2> QED BY <1>1, <2>1 DEF Awaited, Mine, Current, Replaces
<1>2. ASSUME NEW q \in reqs \ {r}, q.live PROVE Effective(q)'
  <2>1. q.item.task \in Task /\ Effective(q)
    BY <1>2, RequestType DEF RequestInv
  <2>2. r.live => r.item.task.ep # q.item.task.ep
    BY <1>2 DEF RequestInv, Awaited, Mine
  <2> QED BY <2>1, <2>2 DEF Effective, MishapsKeep, Spared
<1>3. ASSUME NEW q \in rep, q.live PROVE Awaited(q)'
  <2>1. r.live /\ q.item = r.item /\ q.status = r.status /\ Awaited(r)
    BY <1>3 DEF RequestInv, Replaces
  <2>2. \A p \in reqs' : p.live /\ p.item.task.ep = r.item.task.ep => p = q
    BY <1>3, <2>1 DEF Replaces, Awaited, Mine
  <2> QED BY <2>1, <2>2 DEF Awaited, Mine, Current
<1>4. ASSUME NEW q \in reqs'
      PROVE  /\ q.status \in Ended \cup {"downloading", "installing"}
             /\ q.seen # "none" => q.item.kind = "install" /\ row'[q.item.task] # "none"
  <2>1. CASE q \in rep
    BY <2>1 DEF RequestInv, Replaces
  <2>2. CASE q \in reqs
    BY <2>2, RequestType DEF RequestInv
  <2> QED BY <2>1, <2>2 DEF Replaces
<1>5. ASSUME NEW q \in reqs', q.live PROVE Awaited(q)' /\ Effective(q)'
  BY <1>1, <1>2, <1>3, <1>5 DEF Replaces
<1> QED BY <1>4, <1>5 DEF RequestInv

\* The end of a task stays reported if the request is not dropped.
LEMMA EndingMove ==
  ASSUME NEW r \in reqs, NEW rep, Replaces(r, rep), rep # {}
  PROVE  \A t \in Task : Ending(t) => Ending(t)'
BY DEF Ending, Replaces

\* What is left to show for a step of the agent API
LEMMA ReportFrame ==
  ASSUME IInv, UNCHANGED <<runs, worker, ops>>, SafeKeeps, AgentInv', RequestInv',
         \A t \in Task : row[t] = "none" <=> row'[t] = "none",
         \A t \in Task : row'[t] \in Active => row[t] \in Active \/ Safe(t)',
         \A e \in Endpoint : /\ Elements(queue'[e]) \subseteq Elements(queue[e])
                             /\ Distinct(queue[e]) => Distinct(queue'[e])
  PROVE  TaskInv'
<1> USE DEF IInv, TaskInv
<1>1. QueueInv'
  BY DEF QueueInv
<1>2. RowInv'
  BY DEF RowInv
<1>3. OpInv'
  <2>1. \A p \in ops : p.rows \subseteq Task
    BY DEF TypeOK, Op
  <2> QED BY <2>1 DEF OpInv
<1>4. ScheduleInv'
  <2>1. \A v \in Worker : Scheduling(v)' => SameJob(v)
    BY DEF Scheduling, SameJob
  <2>2. \A v \in Worker, e \in Endpoint : Scheduling(v)' => row'[RunTask(v, e)] = "none"
    BY <2>1, RunTaskFacts DEF SameJob, ScheduleInv
  <2>3. \A t \in Task : IsQueued(Install(t))' => IsQueued(Install(t))
    <3> SUFFICES ASSUME NEW t \in Task, IsQueued(Install(t))' PROVE IsQueued(Install(t))
      OBVIOUS
    <3>1. Install(t).task.ep \in Endpoint
      BY InstallFacts DEF Task
    <3> QED BY <3>1 DEF IsQueued
  <2> QED BY <2>1, <2>2, <2>3, ScheduleFrame
<1>5. NoTaskVanishes'
  BY DEF NoTaskVanishes, Accounted, SafeKeeps, Safe, Active, Ended
<1> QED BY <1>1, <1>2, <1>3, <1>4, <1>5

\* A refusal that ends a task is a mishap of the task.
LEMMA RefuseKeeps ==
  ASSUME IInv, NEW r \in reqs, Refuse(r)
  PROVE  TaskInv'
<1> USE DEF IInv, TaskInv, db, redis, broker
<1>1. UNCHANGED <<row, runs, queue, worker, ops, agent>>
  BY DEF Refuse
<1> DEFINE q   == [r EXCEPT !.stage = "replied"]
           rep == IF r.live THEN {q} ELSE {}
           T   == IF Terminal(r.status) THEN RowsOf(r.item) ELSE {}
<1>2. q.item = r.item /\ q.status = r.status /\ q.live = r.live /\ q.seen = r.seen
  BY RequestType DEF Request
<1>3. Mark(T, "refused") /\ reqs' = (reqs \ {r}) \cup rep
  BY DEF Refuse, Move
<1> HIDE DEF q
<1>4. Replaces(r, rep)
  BY <1>2, <1>3 DEF Replaces
<1>5. MishapsKeep /\ \A t \in Task : t \in T => ~Spared(t)'
  BY <1>3, MarkFacts
<1>6. r.status \in Ended /\ r.item.kind = "install" => ~Spared(r.item.task)'
  BY <1>5, RequestType DEF Terminal, RowsOf
<1>7. SafeKeeps
  <2>1. ASSUME NEW t \in Task, Ending(t) PROVE Safe(t)'
    <3>1. PICK p \in reqs : p.item = Install(t) /\ p.status \in Ended
      BY <2>1 DEF Ending
    <3>2. CASE p = r
      BY <1>6, <3>1, <3>2, InstallFacts DEF Safe
    <3>3. CASE p # r
      BY <1>3, <3>1, <3>3 DEF Safe, Ending
    <3> QED BY <3>2, <3>3
  <2>2. \A t \in Task : IsQueued(Install(t)) => Safe(t)'
    BY <1>1 DEF Safe, IsQueued
  <2> QED BY <1>5, <2>1, <2>2, SafeFrame
<1>8. AgentInv'
  BY <1>1, <1>5, AgentFrame
<1>9. RequestInv'
  <2>1. \A p \in rep : /\ p.seen # "none" => p.item.kind = "install" /\ row'[p.item.task] # "none"
                       /\ p.live => Effective(p)'
    BY <1>1, <1>2, <1>6 DEF RequestInv, Effective
  <2> QED BY <1>1, <1>4, <1>5, <2>1, RequestMove
<1> QED BY <1>1, <1>7, <1>8, <1>9, ReportFrame

\* The task a report takes off the list is the one the agent is done with.
LEMMA DequeueKeeps ==
  ASSUME IInv, NEW r \in reqs, Dequeue(r)
  PROVE  TaskInv'
<1> USE DEF IInv, TaskInv, db, broker
<1>1. UNCHANGED <<row, runs, worker, ops, agent>>
  BY DEF Dequeue
<1> DEFINE q == [r EXCEPT !.stage = "removed"]
           e == r.item.task.ep
           T == IF r.live THEN {} ELSE RowsOf(r.item)
<1>2. /\ q.item = r.item /\ q.status = r.status /\ q.live = r.live /\ q.seen = r.seen
      /\ q.stage = "removed"
  BY RequestType DEF Request
<1>3. Mark(T, "late") /\ reqs' = (reqs \ {r}) \cup {q}
  BY DEF Dequeue, Move
<1> HIDE DEF q
<1>4. Replaces(r, {q})
  BY <1>2, <1>3 DEF Replaces
<1>5. MishapsKeep /\ (~r.live /\ r.item.kind = "install" => ~Spared(r.item.task)')
  BY <1>3, MarkFacts, RequestType DEF RowsOf
<1>6. /\ \A f \in Endpoint : /\ Elements(queue'[f]) \subseteq Elements(queue[f])
                             /\ Distinct(queue[f]) => Distinct(queue'[f])
      /\ \A f \in Endpoint : \A i \in Elements(queue[f]) :
            i \in Elements(queue'[f]) \/ (f = e /\ i = r.item /\ r.status \in Ended)
  <2>1. e \in Endpoint /\ r.item \in Item /\ queue[e] \in Seq(Item)
    BY RequestType DEF TypeOK
  <2>2. CASE r.status \in Ended
    <3>1. queue' = [queue EXCEPT ![e] = LRem(queue[e], r.item)]
      BY <2>2 DEF Dequeue, Terminal
    <3>2. \A f \in Endpoint : queue'[f] = IF f = e THEN LRem(queue[e], r.item) ELSE queue[f]
      BY <3>1 DEF TypeOK
    <3> QED BY <2>1, <2>2, <3>2, LRemFacts
  <2>3. CASE r.status \notin Ended
    BY <2>3 DEF Dequeue, Terminal, redis
  <2> QED BY <2>2, <2>3
<1>7. SafeKeeps
  <2>1. \A t \in Task : Ending(t) => Safe(t)'
    BY <1>4, EndingMove DEF Safe
  <2>2. ASSUME NEW t \in Task, IsQueued(Install(t)) PROVE Safe(t)'
    <3>1. Install(t).task = t /\ t.ep \in Endpoint
      BY InstallFacts DEF Task
    <3>2. \/ Install(t) \in Elements(queue'[t.ep])
          \/ Install(t) = r.item /\ r.status \in Ended
      BY <1>6, <2>2, <3>1 DEF IsQueued
    <3>3. Install(t) = r.item /\ r.status \in Ended => Ending(t)'
      BY <1>2, <1>3 DEF Ending
    <3> QED BY <3>1, <3>2, <3>3 DEF Safe, IsQueued
  <2> QED BY <1>5, <2>1, <2>2, SafeFrame
<1>8. AgentInv'
  <2> SUFFICES ASSUME NEW f \in Endpoint, NEW k \in DOMAIN agent[f].todo PROVE Held(f, k)'
    BY <1>1 DEF AgentInv
  <2>1. agent[f].todo \in Seq(Item) /\ agent[f].todo # <<>>
    BY DEF TypeOK, AgentState
  <2> SUFFICES ASSUME NEW i \in Item, i = agent[f].todo[k],
                      i.kind = "install", Spared(i.task)', ~IsQueued(i)'
               PROVE  agent[f].phase = "closing" /\ k = 1
    BY <1>1, <2>1 DEF Held
  <2>2. i.task \in Task /\ i.task.ep = f
    BY <2>1 DEF AgentInv, Item
  <2>3. Spared(i.task)
    BY <1>5, <2>2 DEF MishapsKeep, Spared
  <2>4. IsQueued(i) \/ (agent[f].phase = "closing" /\ k = 1)
    BY <2>3 DEF AgentInv, Held
  <2>5. CASE IsQueued(i)
    <3>1. f = e /\ i = r.item /\ r.status \in Ended
      BY <1>6, <2>2, <2>5 DEF IsQueued
    <3>2. r.live
      BY <1>5, <3>1
    <3>3. agent[f].phase = "closing" /\ r.item = Current(f)
      BY <3>1, <3>2 DEF RequestInv, Awaited, PhaseOf
    <3>4. 1 \in DOMAIN agent[f].todo /\ agent[f].todo[k] = agent[f].todo[1]
      <4>1. 1 \in DOMAIN agent[f].todo /\ Current(f) = agent[f].todo[1]
        BY <2>1, EmptySeq DEF Current
      <4> QED BY <3>1, <3>3, <4>1
    <3>5. k = 1
      BY <3>4 DEF AgentInv, Distinct
    <3> QED BY <3>3, <3>5
  <2> QED BY <2>4, <2>5
<1>9. RequestInv'
  <2>1. /\ q.seen # "none" => q.item.kind = "install" /\ row'[q.item.task] # "none"
        /\ q.live => Effective(q)'
    BY <1>1, <1>2 DEF RequestInv, Effective
  <2> QED BY <1>1, <1>4, <1>5, <2>1, RequestMove
<1> QED BY <1>1, <1>6, <1>7, <1>8, <1>9, ReportFrame

\* A report that ends a task finds the row, or it was early.
LEMMA LoadRowKeeps ==
  ASSUME IInv, NEW r \in reqs, LoadRow(r)
  PROVE  TaskInv'
<1> USE DEF IInv, TaskInv, db, redis, broker
<1>1. UNCHANGED <<row, runs, queue, worker, ops, agent>>
  BY DEF LoadRow
<1> DEFINE T == IF Terminal(r.status) /\ ~(Terminal(r.status) /\ StatusOf(r.item) # "none")
                THEN RowsOf(r.item) ELSE {}
<1>0. PICK q : q = [r EXCEPT !.stage = "loaded", !.seen = StatusOf(r.item)]
  OBVIOUS
<1>2. /\ q.item = r.item /\ q.status = r.status /\ q.live = r.live
      /\ q.seen = StatusOf(r.item) /\ q.stage = "loaded"
  BY <1>0, RequestType DEF Request
<1>3. Mark(T, "early") /\ reqs' = (reqs \ {r}) \cup {q}
  BY <1>0 DEF LoadRow, Move
<1>4. Replaces(r, {q})
  BY <1>2, <1>3 DEF Replaces
<1>5. MishapsKeep /\ \A t \in Task : t \in T => ~Spared(t)'
  BY <1>3, MarkFacts
<1>6. r.status \in Ended /\ r.item.kind = "install" /\ Spared(r.item.task)'
        => StatusOf(r.item) # "none"
  BY <1>5, RequestType DEF Terminal, RowsOf
<1>7. SafeKeeps
  <2>1. \A t \in Task : Ending(t) => Safe(t)'
    BY <1>4, EndingMove DEF Safe
  <2>2. \A t \in Task : IsQueued(Install(t)) => Safe(t)'
    BY <1>1 DEF Safe, IsQueued
  <2> QED BY <1>5, <2>1, <2>2, SafeFrame
<1>8. AgentInv'
  BY <1>1, <1>5, AgentFrame
<1>9. RequestInv'
  <2>1. q.seen # "none" => q.item.kind = "install" /\ row'[q.item.task] # "none"
    BY <1>1, <1>2 DEF StatusOf
  <2>2. Effective(q)'
    <3> SUFFICES ASSUME r.status \in Ended, r.item.kind = "install", Spared(r.item.task)'
                 PROVE  q.seen # "none" /\ (q.seen \in Ended => row[r.item.task] \in Ended)
      BY <1>1, <1>2 DEF Effective
    <3> QED BY <1>2, <1>6 DEF StatusOf
  <2> QED BY <1>1, <1>4, <1>5, <2>1, <2>2, RequestMove
<1> QED BY <1>1, <1>7, <1>8, <1>9, ReportFrame

\* The commit of a report that does not end the task leaves the task on its
\* list; the commit of one that does ends the row.
LEMMA CommitReportKeeps ==
  ASSUME IInv, NEW r \in reqs, CommitReport(r)
  PROVE  TaskInv'
<1> USE DEF IInv, TaskInv, redis, broker
<1>1. UNCHANGED <<runs, queue, worker, ops, agent>> /\ r.stage = "loaded"
  BY DEF CommitReport
<1> DEFINE t == r.item.task
           T == IF r.live THEN {} ELSE RowsOf(r.item)
<1>0. PICK q : q = [r EXCEPT !.stage = "replied"]
  OBVIOUS
<1> DEFINE rep == IF r.live THEN {q} ELSE {}
<1>2. /\ q.item = r.item /\ q.status = r.status /\ q.live = r.live /\ q.seen = r.seen
      /\ q.stage = "replied"
  BY <1>0, RequestType DEF Request
<1>3. Mark(T, "late") /\ reqs' = (reqs \ {r}) \cup rep
  BY <1>0 DEF CommitReport, Move
<1>4. Replaces(r, rep)
  BY <1>2, <1>3 DEF Replaces
<1>5. MishapsKeep /\ (~r.live /\ r.item.kind = "install" => ~Spared(t)')
  BY <1>3, MarkFacts, RequestType DEF RowsOf
<1>6. t \in Task /\ r.status # "none" /\ (r.seen # "none" => r.item.kind = "install" /\ row[t] # "none")
  BY RequestType DEF RequestInv, Ended
<1>7. \A u \in Task : row'[u] = IF u = t /\ r.seen # "none" /\ r.status # r.seen
                                THEN r.status ELSE row[u]
  BY <1>6 DEF CommitReport, TypeOK
<1>8. \A u \in Task : row[u] = "none" <=> row'[u] = "none"
  BY <1>6, <1>7
<1>9. SafeKeeps
  <2>1. ASSUME NEW u \in Task, Ending(u) PROVE Safe(u)'
    <3>1. PICK p \in reqs : p.item = Install(u) /\ p.status \in Ended
      BY <2>1 DEF Ending
    <3>2. CASE p = r /\ ~r.live
      BY <1>5, <3>1, <3>2, InstallFacts DEF Safe
    <3>3. CASE p # r \/ r.live
      BY <1>2, <1>3, <3>1, <3>3 DEF Safe, Ending
    <3> QED BY <3>2, <3>3
  <2>2. \A u \in Task : IsQueued(Install(u)) => Safe(u)'
    BY <1>1 DEF Safe, IsQueued
  <2> QED BY <1>5, <2>1, <2>2, SafeFrame
<1>10. AgentInv'
  BY <1>1, <1>5, AgentFrame
<1>11. RequestInv'
  <2>1. \A u \in Task : row[u] \in Ended /\ Spared(u)' =>
           row'[u] \in Ended \/ (r.live /\ u.ep = r.item.task.ep)
    BY <1>5, <1>6, <1>7
  <2>2. q.seen # "none" => q.item.kind = "install" /\ row'[q.item.task] # "none"
    BY <1>2, <1>6, <1>8
  <2>3. ASSUME r.live PROVE Effective(q)'
    <3> SUFFICES ASSUME r.status \in Ended, r.item.kind = "install", Spared(t)'
                 PROVE  row'[t] \in Ended
      BY <1>2 DEF Effective
    <3>1. Spared(t)
      BY <1>5, <1>6 DEF MishapsKeep, Spared
    <3>2. r.seen # "none" /\ (r.seen \in Ended => row[t] \in Ended)
      BY <1>1, <2>3, <3>1 DEF RequestInv, Effective
    <3> QED BY <1>6, <1>7, <3>2
  <2>4. \A p \in rep : /\ p.seen # "none" => p.item.kind = "install" /\ row'[p.item.task] # "none"
                       /\ p.live => Effective(p)'
    BY <2>2, <2>3
  <2> QED BY <1>1, <1>4, <1>5, <1>8, <2>1, <2>4, RequestMove
<1>12. \A u \in Task : row'[u] \in Active => row[u] \in Active \/ Safe(u)'
  <2> SUFFICES ASSUME NEW u \in Task, row'[u] \in Active, row[u] \notin Active, Spared(u)'
               PROVE  IsQueued(Install(u))
    BY <1>1 DEF Safe, IsQueued
  <2>1. u = t /\ r.item.kind = "install" /\ r.status \in Active
    BY <1>6, <1>7
  <2>2. r.live /\ Spared(t)
    BY <1>5, <1>6, <2>1 DEF MishapsKeep, Spared
  <2> DEFINE e == t.ep
  <2>3. agent[e].phase = r.status /\ r.item = Current(e)
    BY <2>1, <2>2 DEF RequestInv, Awaited, PhaseOf, Active, Ended
  <2>4. e \in Endpoint /\ agent[e].todo \in Seq(Item) /\ agent[e].todo # <<>>
    BY <1>6, <2>1, <2>3 DEF Task, TypeOK, AgentState, RequestInv, Active, Ended
  <2>5. 1 \in DOMAIN agent[e].todo /\ Current(e) = agent[e].todo[1]
    BY <2>4, EmptySeq DEF Current
  <2>6. IsQueued(r.item)
    BY <2>1, <2>2, <2>3, <2>4, <2>5 DEF AgentInv, Held, Active
  <2> QED BY <2>1, <2>6, InstallFacts, RequestType
<1> QED BY <1>1, <1>8, <1>9, <1>10, <1>11, <1>12, ReportFrame

\* A report that is sent again starts from the beginning.
LEMMA ResendFacts ==
  ASSUME TypeOK, NEW r \in reqs
  PROVE  /\ Resend(r).item = r.item /\ Resend(r).status = r.status /\ Resend(r).live = r.live
         /\ Resend(r).seen = "none" /\ Resend(r).stage = "sent"
BY RequestType DEF Resend, Request

LEMMA AttemptKeeps ==
  ASSUME IInv, NEW r \in reqs, AttemptFails(r) \/ AttemptTimesOut(r)
  PROVE  TaskInv'
<1> USE DEF IInv, TaskInv, db, redis, broker, ghosts
<1>1. UNCHANGED <<row, runs, queue, worker, ops, agent, mishap>> /\ r.live
  BY DEF AttemptFails, AttemptTimesOut
<1> DEFINE old == [r EXCEPT !.live = FALSE]
<1>2. old.item = r.item /\ old.status = r.status /\ ~old.live /\ old.seen = r.seen
  BY RequestType DEF Request
<1>3. PICK rep \in SUBSET {Resend(r), old} :
         Resend(r) \in rep /\ reqs' = (reqs \ {r}) \cup rep
  <2>1. CASE AttemptFails(r)
    BY <2>1 DEF AttemptFails, Move
  <2>2. CASE AttemptTimesOut(r)
    BY <2>2 DEF AttemptTimesOut
  <2> QED BY <2>1, <2>2
<1> HIDE DEF old
<1>4. Replaces(r, rep) /\ rep # {}
  BY <1>1, <1>2, <1>3, ResendFacts DEF Replaces
<1>5. MishapsKeep
  BY <1>1 DEF MishapsKeep
<1>6. SafeKeeps
  <2>1. \A t \in Task : Ending(t) => Safe(t)'
    BY <1>4, EndingMove DEF Safe
  <2>2. \A t \in Task : IsQueued(Install(t)) => Safe(t)'
    BY <1>1 DEF Safe, IsQueued
  <2> QED BY <1>5, <2>1, <2>2, SafeFrame
<1>7. AgentInv'
  BY <1>1, <1>5, AgentFrame
<1>8. RequestInv'
  <2>1. \A p \in rep : /\ p.seen # "none" => p.item.kind = "install" /\ row'[p.item.task] # "none"
                       /\ p.live => Effective(p)'
    BY <1>1, <1>2, <1>3, ResendFacts DEF RequestInv, Effective
  <2> QED BY <1>1, <1>4, <1>5, <2>1, RequestMove
<1> QED BY <1>1, <1>6, <1>7, <1>8, ReportFrame

\* When an agent goes on to its next task, it still holds what is on its list.
LEMMA NextTask ==
  ASSUME IInv, UNCHANGED <<queue, mishap>>, NEW e \in Endpoint,
         agent' = [agent EXCEPT ![e] = AfterTask(@)]
  PROVE  AgentInv'
<1> USE DEF IInv, TaskInv
<1> DEFINE a == agent[e]
<1>1. /\ agent'[e] = AfterTask(a) /\ a \in AgentState /\ a.todo \in Seq(Item)
      /\ \A f \in Endpoint : f # e => agent'[f] = agent[f]
  BY DEF TypeOK, AgentState
<1>2. ASSUME NEW f \in Endpoint, f # e
      PROVE  /\ Distinct(agent'[f].todo)
             /\ \A k \in DOMAIN agent'[f].todo : agent'[f].todo[k].task.ep = f /\ Held(f, k)'
  <2>1. agent'[f] = agent[f]
    BY <1>1, <1>2
  <2> QED BY <2>1 DEF AgentInv, Held, IsQueued, Spared
<1>3. /\ Distinct(agent'[e].todo)
      /\ \A k \in DOMAIN agent'[e].todo : agent'[e].todo[k].task.ep = e /\ Held(e, k)'
  <2>1. CASE Len(a.todo) <= 1
    <3>1. agent'[e].todo = <<>>
      BY <1>1, <2>1, RestTypes DEF AfterTask
    <3>2. DOMAIN agent'[e].todo = {}
      BY <3>1
    <3> QED BY <3>2 DEF Distinct
  <2>2. CASE ~(Len(a.todo) <= 1)
    <3> DEFINE b == Tail(a.todo)
    <3>1. agent'[e].todo = b /\ agent'[e].phase = "next"
      BY <1>1, <2>2 DEF AfterTask
    <3>2. /\ Len(a.todo) \in Nat /\ Len(a.todo) > 1
          /\ b \in Seq(Item) /\ Len(b) = Len(a.todo) - 1
          /\ \A k \in 1..Len(b) : b[k] = a.todo[k + 1]
      BY <1>1, <2>2
    <3> HIDE DEF b
    <3>3. \A k \in DOMAIN b : k + 1 \in DOMAIN a.todo /\ k + 1 # 1 /\ b[k] = a.todo[k + 1]
      BY <1>1, <3>2
    <3>4. Distinct(b)
      BY <3>2, <3>3 DEF AgentInv, Distinct
    <3>5. ASSUME NEW k \in DOMAIN b PROVE b[k].task.ep = e /\ Held(e, k)'
      <4>1. b[k].task.ep = e /\ Held(e, k + 1)
        BY <3>3 DEF AgentInv
      <4> QED BY <3>1, <3>3, <4>1 DEF Held, IsQueued, Spared
    <3> QED BY <3>1, <3>4, <3>5
  <2> QED BY <2>1, <2>2
<1> QED BY <1>2, <1>3 DEF AgentInv

\* What an agent still waits for after its own report has gone
LEMMA OthersWait ==
  ASSUME IInv, NEW e \in Endpoint, reqs' \subseteq reqs, UNCHANGED <<row, mishap>>,
         \A f \in Endpoint : f # e => agent'[f] = agent[f],
         \A q \in reqs' : q.live => q.item.task.ep # e
  PROVE  RequestInv'
<1> USE DEF IInv, TaskInv
<1> SUFFICES ASSUME NEW q \in reqs', q.live PROVE Awaited(q)' /\ Effective(q)'
  BY DEF RequestInv
<1>1. q.item.task.ep \in Endpoint /\ agent'[q.item.task.ep] = agent[q.item.task.ep]
  BY RequestType
<1>2. Awaited(q) /\ Effective(q)
  BY DEF RequestInv
<1>3. Awaited(q)'
  BY <1>1, <1>2 DEF Awaited, Mine, Current
<1>4. Effective(q)'
  BY <1>2 DEF Effective, Spared
<1> QED BY <1>3, <1>4

LEMMA ReceiveKeeps ==
  ASSUME IInv, NEW r \in reqs, Receive(r)
  PROVE  TaskInv'
<1> USE DEF IInv, TaskInv, db, redis, broker, ghosts
<1> DEFINE e == r.item.task.ep
<1>1. /\ UNCHANGED <<row, runs, queue, worker, ops, mishap>>
      /\ r.live /\ r.stage = "replied" /\ reqs' = reqs \ {r}
  BY DEF Receive
<1>2. MishapsKeep
  BY <1>1 DEF MishapsKeep
<1>3. SafeKeeps
  <2>1. ASSUME NEW t \in Task, row[t] \notin Ended, Ending(t) PROVE Safe(t)'
    <3>1. PICK p \in reqs : p.item = Install(t) /\ p.status \in Ended
      BY <2>1 DEF Ending
    <3>2. CASE p = r
      <4>1. ~Spared(t)
        BY <1>1, <2>1, <3>1, <3>2, InstallFacts DEF RequestInv, Effective
      <4> QED BY <1>1, <4>1 DEF Safe, Spared
    <3>3. CASE p # r
      BY <1>1, <3>1, <3>3 DEF Safe, Ending
    <3> QED BY <3>2, <3>3
  <2>2. \A t \in Task : IsQueued(Install(t)) => Safe(t)'
    BY <1>1 DEF Safe, IsQueued
  <2> QED BY <1>2, <2>1, <2>2, SafeFrame
<1>4. CASE r.status \in Ended
  <2>1. e \in Endpoint /\ agent' = [agent EXCEPT ![e] = AfterTask(@)]
    BY <1>4, RequestType DEF Receive
  <2>2. AgentInv'
    BY <1>1, <2>1, NextTask
  <2>3. \A q \in reqs' : q.live => q.item.task.ep # e
    BY <1>1 DEF RequestInv, Awaited, Mine
  <2>4. RequestInv'
    BY <1>1, <2>1, <2>3, OthersWait DEF TypeOK
  <2> QED BY <1>1, <1>3, <2>2, <2>4, ReportFrame
<1>5. CASE r.status \notin Ended
  <2>1. UNCHANGED agent
    BY <1>5 DEF Receive
  <2>2. AgentInv'
    BY <1>1, <1>2, <2>1, AgentFrame
  <2>3. RequestInv'
    <3>1. Replaces(r, {})
      BY <1>1 DEF Replaces
    <3> QED BY <1>1, <1>2, <2>1, <3>1, RequestMove
  <2> QED BY <1>1, <1>3, <2>2, <2>3, ReportFrame
<1> QED BY <1>4, <1>5

\* A list that expires is a mishap of every task on it.
LEMMA ExpireKeeps ==
  ASSUME IInv, NEW e \in Endpoint, Expire(e)
  PROVE  TaskInv'
<1> USE DEF IInv, TaskInv, db, redis, broker
<1> DEFINE T == UNION {RowsOf(i) : i \in Elements(queue[e])}
<1>1. /\ UNCHANGED <<row, runs, worker, ops, agent, reqs>> /\ Mark(T, "expired")
      /\ queue' = [queue EXCEPT ![e] = <<>>]
  BY DEF Expire
<1>2. MishapsKeep /\ \A t \in Task : t \in T => ~Spared(t)'
  BY <1>1, MarkFacts
<1>3. /\ \A f \in Endpoint : f # e => queue'[f] = queue[f]
      /\ Elements(queue'[e]) = {} /\ Distinct(queue'[e])
  BY <1>1 DEF TypeOK, Elements, Distinct
<1>4. ASSUME NEW i \in Elements(queue[e]), i.kind = "install" PROVE ~Spared(i.task)'
  <2>1. i.task \in T
    BY <1>4 DEF RowsOf
  <2>2. i \in Item
    BY DEF Elements, TypeOK
  <2> QED BY <1>2, <2>1, <2>2 DEF Item
<1>5. SafeKeeps
  <2>1. \A t \in Task : Ending(t) => Safe(t)'
    BY <1>1 DEF Safe, Ending
  <2>2. ASSUME NEW t \in Task, IsQueued(Install(t)) PROVE Safe(t)'
    <3>1. Install(t).task = t /\ Install(t).kind = "install" /\ t.ep \in Endpoint
      BY InstallFacts DEF Task
    <3> QED BY <1>3, <1>4, <2>2, <3>1 DEF Safe, IsQueued
  <2> QED BY <1>2, <2>1, <2>2, SafeFrame
<1>6. AgentInv'
  BY <1>1, <1>2, <1>3, <1>4, AgentFrame
<1>7. RequestInv'
  BY <1>1, <1>2, RequestFrame
<1> QED BY <1>1, <1>3, <1>5, <1>6, <1>7, ReportFrame

LEMMA ReportKeeps ==
  ASSUME IInv, ReportStep
  PROVE  TaskInv'
BY RefuseKeeps, DequeueKeeps, LoadRowKeeps, CommitReportKeeps, AttemptKeeps, ReceiveKeeps,
   ExpireKeeps DEF ReportStep

-----------------------------------------------------------------------------
(* The agents *)

\* An agent that waits for nothing sends a report on its current task.
LEMMA SendKeeps ==
  ASSUME IInv, UNCHANGED <<row, runs, queue, worker, ops, mishap>>,
         NEW e \in Endpoint, Mine(e) = {}, agent[e].phase \in {"next", "downloading", "installing"},
         NEW s \in {"downloading", "installing", "success", "failed", "rolled_back"},
         NEW b \in BOOLEAN, Send(e, s, b, PhaseOf(s))
  PROVE  TaskInv'
<1> USE DEF IInv, TaskInv
<1>0. PICK r : r = [item |-> Current(e), status |-> s, snap |-> b, try |-> 1,
                    live |-> TRUE, stage |-> "sent", seen |-> "none"]
  OBVIOUS
<1>1. /\ reqs' = reqs \cup {r}
      /\ r.item = Current(e) /\ r.status = s /\ r.live /\ r.stage = "sent" /\ r.seen = "none"
  BY <1>0 DEF Send
<1>2. /\ agent[e].todo \in Seq(Item) /\ agent[e].todo # <<>>
      /\ agent'[e].todo = agent[e].todo /\ agent'[e].phase = PhaseOf(s)
      /\ \A f \in Endpoint : f # e => agent'[f] = agent[f]
  BY DEF Send, TypeOK, AgentState
<1>3. r.item.task.ep = e
  <2>1. 1 \in DOMAIN agent[e].todo /\ Current(e) = agent[e].todo[1]
    BY <1>2, EmptySeq DEF Current
  <2> QED BY <1>1, <2>1 DEF AgentInv
<1>4. SafeKeeps
  BY <1>1 DEF SafeKeeps, Safe, Spared, IsQueued, Ending
<1>5. AgentInv'
  <2> SUFFICES ASSUME NEW f \in Endpoint, NEW k \in DOMAIN agent[f].todo PROVE Held(f, k)'
    BY <1>2 DEF AgentInv
  <2>1. Held(f, k) /\ agent'[f].todo = agent[f].todo
    BY <1>2 DEF AgentInv
  <2>2. CASE f = e
    BY <2>1, <2>2 DEF Held, IsQueued, Spared
  <2>3. CASE f # e
    BY <1>2, <2>1, <2>3 DEF Held, IsQueued, Spared
  <2> QED BY <2>2, <2>3
<1>6. RequestInv'
  <2>1. ASSUME NEW q \in reqs
        PROVE  /\ q.status \in Ended \cup {"downloading", "installing"}
               /\ q.seen # "none" => q.item.kind = "install" /\ row'[q.item.task] # "none"
               /\ q.live => Awaited(q)' /\ Effective(q)'
    <3>1. q.live => q.item.task.ep # e /\ q.item.task.ep \in Endpoint
      BY RequestType DEF Mine
    <3>2. q.live => Awaited(q)'
      BY <1>1, <1>2, <1>3, <3>1 DEF RequestInv, Awaited, Mine, Current
    <3>3. q.live => Effective(q)'
      BY DEF RequestInv, Effective, Spared
    <3> QED BY <3>2, <3>3 DEF RequestInv
  <2>2. Awaited(r)' /\ Effective(r)'
    BY <1>1, <1>2, <1>3 DEF Awaited, Effective, Mine, Current
  <2> QED BY <1>1, <2>1, <2>2 DEF RequestInv, Ended
<1> QED BY <1>4, <1>5, <1>6, ReportFrame

\* What an agent fetches is on its list.
LEMMA FetchKeeps ==
  ASSUME IInv, NEW e \in Endpoint, Fetch(e)
  PROVE  TaskInv'
<1> USE DEF IInv, TaskInv, db, redis, broker, ghosts
<1> DEFINE q == LRange(queue[e], FetchLimit)
<1>1. /\ UNCHANGED <<row, runs, queue, worker, ops, reqs, mishap>> /\ agent[e].phase = "idle"
      /\ agent'[e].todo = q /\ agent'[e].phase = "next"
      /\ \A f \in Endpoint : f # e => agent'[f] = agent[f]
  BY DEF Fetch, TypeOK
<1>2. /\ q \in Seq(Item)
      /\ \A k \in DOMAIN q : k \in DOMAIN queue[e] /\ q[k] = queue[e][k]
  BY LRangeFacts, RolloutAssumption DEF TypeOK
<1> HIDE DEF q
<1>3. SafeKeeps
  BY <1>1 DEF SafeKeeps, Safe, Spared, IsQueued, Ending
<1>4. AgentInv'
  <2>1. ASSUME NEW f \in Endpoint, f # e
        PROVE  /\ Distinct(agent'[f].todo)
               /\ \A k \in DOMAIN agent'[f].todo : agent'[f].todo[k].task.ep = f /\ Held(f, k)'
    <3>1. agent'[f] = agent[f]
      BY <1>1, <2>1
    <3> QED BY <1>1, <3>1 DEF AgentInv, Held, IsQueued, Spared
  <2>2. Distinct(q)
    BY <1>2 DEF QueueInv, Distinct
  <2>3. ASSUME NEW k \in DOMAIN agent'[e].todo
        PROVE  agent'[e].todo[k].task.ep = e /\ Held(e, k)'
    <3>1. agent'[e].todo[k] \in Elements(queue[e])
      BY <1>1, <1>2 DEF Elements
    <3>2. agent'[e].todo[k].task.ep = e
      BY <3>1 DEF QueueInv
    <3> QED BY <1>1, <3>1, <3>2 DEF Held, IsQueued
  <2> QED BY <1>1, <2>1, <2>2, <2>3 DEF AgentInv
<1>5. RequestInv'
  <2>1. \A r \in reqs' : r.live => r.item.task.ep # e
    BY <1>1 DEF RequestInv, Awaited, PhaseOf
  <2> QED BY <1>1, <2>1, OthersWait
<1> QED BY <1>1, <1>3, <1>4, <1>5, ReportFrame

\* An agent that dies holds nothing, and waits for nothing.
LEMMA SleepKeeps ==
  ASSUME IInv, UNCHANGED queue, MishapsKeep, NEW e \in Endpoint,
         agent' = [agent EXCEPT ![e] = Sleeping]
  PROVE  AgentInv'
<1> USE DEF IInv, TaskInv
<1>1. /\ agent'[e].todo = <<>> /\ \A f \in Endpoint : f # e => agent'[f] = agent[f]
  BY RestTypes DEF TypeOK
<1>2. ASSUME NEW f \in Endpoint, f # e
      PROVE  /\ Distinct(agent'[f].todo)
             /\ \A k \in DOMAIN agent'[f].todo : agent'[f].todo[k].task.ep = f /\ Held(f, k)'
  <2>1. agent'[f] = agent[f] /\ agent[f].todo \in Seq(Item)
    BY <1>1, <1>2 DEF TypeOK, AgentState
  <2>2. \A k \in DOMAIN agent[f].todo : agent[f].todo[k].task \in Task
    BY <2>1 DEF Item
  <2>3. ASSUME NEW k \in DOMAIN agent[f].todo PROVE Held(f, k)'
    <3>1. Held(f, k)
      BY DEF AgentInv
    <3>2. mishap[agent[f].todo[k].task] \subseteq mishap'[agent[f].todo[k].task]
      BY <2>2 DEF MishapsKeep
    <3> QED BY <2>1, <3>1, <3>2 DEF Held, IsQueued, Spared
  <2> QED BY <2>1, <2>3 DEF AgentInv
<1>3. DOMAIN agent'[e].todo = {}
  BY <1>1
<1> QED BY <1>2, <1>3 DEF AgentInv, Distinct

LEMMA AgentDiesKeeps ==
  ASSUME IInv, NEW e \in Endpoint, AgentDies(e)
  PROVE  TaskInv'
<1> USE DEF IInv, TaskInv, db, redis, broker
<1> DEFINE T == UNION {RowsOf(r.item) : r \in {q \in Mine(e) : Abandoned(q)}}
<1>1. /\ UNCHANGED <<row, runs, queue, worker, ops>> /\ Mark(T, "abandoned")
      /\ agent' = [agent EXCEPT ![e] = Sleeping] /\ reqs' = reqs \ Mine(e)
  BY DEF AgentDies
<1>2. MishapsKeep /\ \A t \in Task : t \in T => ~Spared(t)'
  BY <1>1, MarkFacts
<1>3. SafeKeeps
  <2>1. ASSUME NEW t \in Task, row[t] \notin Ended, Ending(t) PROVE Safe(t)'
    <3>1. PICK p \in reqs : p.item = Install(t) /\ p.status \in Ended
      BY <2>1 DEF Ending
    <3>2. p.item.task = t /\ p.item.kind = "install"
      BY <3>1, InstallFacts
    <3>3. CASE IsQueued(Install(t)) \/ p \notin Mine(e)
      BY <1>1, <3>1, <3>3 DEF Safe, Ending, IsQueued
    <3>4. CASE ~IsQueued(Install(t)) /\ p \in Mine(e)
      <4>1. Abandoned(p) /\ t \in RowsOf(p.item)
        BY <2>1, <3>1, <3>2, <3>4 DEF Abandoned, StatusOf, RowsOf
      <4>2. t \in T
        BY <3>4, <4>1
      <4> QED BY <1>2, <4>2 DEF Safe
    <3> QED BY <3>3, <3>4
  <2>2. \A t \in Task : IsQueued(Install(t)) => Safe(t)'
    BY <1>1 DEF Safe, IsQueued
  <2> QED BY <1>2, <2>1, <2>2, SafeFrame
<1>4. AgentInv'
  BY <1>1, <1>2, SleepKeeps
<1>5. RequestInv'
  <2> SUFFICES ASSUME NEW q \in reqs', q.live PROVE Awaited(q)' /\ Effective(q)'
    BY <1>1 DEF RequestInv
  <2>1. /\ q \in reqs /\ q.item.task \in Task /\ q.item.task.ep \in Endpoint
        /\ q.item.task.ep # e /\ agent'[q.item.task.ep] = agent[q.item.task.ep]
    BY <1>1, RequestType DEF Mine, TypeOK
  <2>2. Awaited(q) /\ Effective(q)
    BY <2>1 DEF RequestInv
  <2>3. Awaited(q)'
    BY <1>1, <2>1, <2>2 DEF Awaited, Mine, Current
  <2>4. Effective(q)'
    BY <1>1, <1>2, <2>1, <2>2 DEF Effective, Spared, MishapsKeep
  <2> QED BY <2>3, <2>4
<1> QED BY <1>1, <1>3, <1>4, <1>5, ReportFrame

\* An agent that dies while the server still works on its report leaves the
\* report behind.
LEMMA AgentDiesLateKeeps ==
  ASSUME IInv, NEW e \in Endpoint, AgentDiesLate(e)
  PROVE  TaskInv'
<1> USE DEF IInv, TaskInv, db, redis, broker
<1> DEFINE left(r) == [r EXCEPT !.live = FALSE]
           L == {left(r) : r \in {q \in Mine(e) : q.stage # "replied"}}
<1>1. /\ UNCHANGED <<row, runs, queue, worker, ops, mishap>>
      /\ agent' = [agent EXCEPT ![e] = Sleeping] /\ reqs' = (reqs \ Mine(e)) \cup L
  BY DEF AgentDiesLate
<1>2. MishapsKeep
  BY <1>1 DEF MishapsKeep
<1>3. \A r \in reqs : /\ left(r).item = r.item /\ left(r).status = r.status
                      /\ left(r).seen = r.seen /\ ~left(r).live
  BY RequestType DEF Request
<1> HIDE DEF left
<1>4. SafeKeeps
  <2>1. ASSUME NEW t \in Task, row[t] \notin Ended, Ending(t) PROVE Safe(t)'
    <3>1. PICK p \in reqs : p.item = Install(t) /\ p.status \in Ended
      BY <2>1 DEF Ending
    <3>2. CASE p \notin Mine(e)
      BY <1>1, <3>1, <3>2 DEF Safe, Ending
    <3>3. CASE p \in Mine(e) /\ p.stage # "replied"
      <4>1. left(p) \in reqs' /\ left(p).item = Install(t) /\ left(p).status \in Ended
        BY <1>1, <1>3, <3>1, <3>3
      <4> QED BY <4>1 DEF Safe, Ending
    <3>4. CASE p \in Mine(e) /\ p.stage = "replied"
      <4>1. ~Spared(t)
        BY <2>1, <3>1, <3>4, InstallFacts DEF RequestInv, Effective, Mine
      <4> QED BY <1>1, <4>1 DEF Safe, Spared
    <3> QED BY <3>2, <3>3, <3>4
  <2>2. \A t \in Task : IsQueued(Install(t)) => Safe(t)'
    BY <1>1 DEF Safe, IsQueued
  <2> QED BY <1>2, <2>1, <2>2, SafeFrame
<1>5. AgentInv'
  BY <1>1, <1>2, SleepKeeps
<1>6. RequestInv'
  <2>1. ASSUME NEW q \in L
        PROVE  /\ q.status \in Ended \cup {"downloading", "installing"} /\ ~q.live
               /\ q.seen # "none" => q.item.kind = "install" /\ row'[q.item.task] # "none"
    <3>1. PICK r \in Mine(e) : q = left(r)
      OBVIOUS
    <3> QED BY <1>1, <1>3, <3>1 DEF RequestInv, Mine
  <2>2. ASSUME NEW q \in reqs \ Mine(e), q.live PROVE Awaited(q)' /\ Effective(q)'
    <3>1. /\ q.item.task.ep \in Endpoint /\ q.item.task.ep # e
          /\ agent'[q.item.task.ep] = agent[q.item.task.ep]
      BY <1>1, <2>2, RequestType DEF Mine, TypeOK
    <3>2. Awaited(q) /\ Effective(q)
      BY <2>2 DEF RequestInv
    <3>3. \A p \in reqs' : p.live => p \in reqs
      BY <1>1, <2>1
    <3>4. Awaited(q)'
      BY <3>1, <3>2, <3>3 DEF Awaited, Mine, Current
    <3>5. Effective(q)'
      BY <1>1, <3>2 DEF Effective, Spared
    <3> QED BY <3>4, <3>5
  <2> HIDE DEF L
  <2>3. \A q \in reqs' : q \in L \/ q \in reqs \ Mine(e)
    BY <1>1
  <2> QED BY <1>1, <2>1, <2>2, <2>3 DEF RequestInv
<1> QED BY <1>1, <1>4, <1>5, <1>6, ReportFrame

LEMMA AgentKeeps ==
  ASSUME IInv, AgentStep
  PROVE  TaskInv'
<1> USE DEF db, redis, broker, ghosts
<1>m. ASSUME NEW e \in Endpoint, agent[e].phase = "next" \/ ~Waiting(e) PROVE Mine(e) = {}
  BY <1>m DEF IInv, TaskInv, RequestInv, Awaited, PhaseOf, Mine, Waiting
<1>p. /\ PhaseOf("downloading") = "downloading" /\ PhaseOf("installing") = "installing"
      /\ PhaseOf("success") = "closing" /\ PhaseOf("failed") = "closing"
      /\ PhaseOf("rolled_back") = "closing"
  BY DEF PhaseOf, Ended
<1>1. ASSUME NEW e \in Endpoint, StartInstall(e) PROVE TaskInv'
  BY <1>1, <1>m, <1>p, SendKeeps DEF StartInstall, AtTask
<1>2. ASSUME NEW e \in Endpoint, FinishDownload(e) PROVE TaskInv'
  BY <1>2, <1>m, <1>p, SendKeeps DEF FinishDownload
<1>3. ASSUME NEW e \in Endpoint, RunInstaller(e) PROVE TaskInv'
  <2>1. agent[e].snap \in BOOLEAN
    BY DEF IInv, TypeOK, AgentState
  <2> QED BY <1>3, <1>m, <1>p, <2>1, SendKeeps DEF RunInstaller
<1>4. ASSUME NEW e \in Endpoint, RunRollback(e) PROVE TaskInv'
  BY <1>4, <1>m, <1>p, SendKeeps DEF RunRollback, AtTask
<1> QED BY <1>1, <1>2, <1>3, <1>4, FetchKeeps, AgentDiesKeeps, AgentDiesLateKeeps DEF AgentStep

-----------------------------------------------------------------------------
(* The theorems *)

LEMMA TaskInit == Init => TaskInv
<1> SUFFICES ASSUME Init PROVE TaskInv
  OBVIOUS
<1>1. QueueInv
  BY DEF Init, QueueInv, Distinct, Elements
<1>2. RowInv /\ OpInv /\ NoTaskVanishes
  BY DEF Init, RowInv, OpInv, NoTaskVanishes, Accounted, Active
<1>3. ScheduleInv
  BY RestTypes DEF Init, ScheduleInv, Scheduling
<1>4. AgentInv
  <2>1. \A e \in Endpoint : agent[e].todo = <<>>
    BY RestTypes DEF Init
  <2> QED BY <2>1 DEF AgentInv, Distinct
<1>5. RequestInv
  BY DEF Init, RequestInv
<1> QED BY <1>1, <1>2, <1>3, <1>4, <1>5 DEF TaskInv

\* The invariant is inductive.
LEMMA TaskStep == IInv /\ [Next]_vars => IInv'
<1> SUFFICES ASSUME IInv, [Next]_vars PROVE IInv'
  OBVIOUS
<1>1. TypeOK'
  BY TypeStep DEF IInv
<1>2. CASE Next
  BY <1>1, <1>2, ApiKeeps, WorkerKeeps, ReportKeeps, AgentKeeps DEF Next, IInv
<1>3. CASE UNCHANGED vars
  <2>1. OpInv' /\ \A v \in Worker : Scheduling(v)' => SameJob(v)
    BY <1>3 DEF vars, IInv, TaskInv, OpInv, Scheduling, SameJob
  <2>2. TaskInv'
    BY <1>3, <2>1, Quiet DEF vars
  <2> QED BY <1>1, <2>2 DEF IInv
<1> QED BY <1>2, <1>3

\* The protocol behind the task lists, for any number of deployments, endpoints,
\* workers and faults: lists and agents hold no task twice, an agent holds only
\* what is on its list, waits for one report at a time, and gets its answer only
\* when the row is over.
THEOREM TasksTracked == Spec => []TaskInv
<1>1. Init => IInv
  BY TypeInit, TaskInit DEF IInv
<1>2. IInv /\ [Next]_vars => IInv'
  BY TaskStep
<1>3. IInv => TaskInv
  BY DEF IInv
<1> QED BY <1>1, <1>2, <1>3, PTL DEF Spec

\* No task vanishes between Redis and PostgreSQL: a row that can still change has
\* its task on the agent's list, or its end under way, or one of the five known
\* mishaps behind it.
THEOREM NothingVanishes == Spec => []NoTaskVanishes
<1>1. TaskInv => NoTaskVanishes
  BY DEF TaskInv
<1> QED BY <1>1, TasksTracked, PTL
=============================================================================
