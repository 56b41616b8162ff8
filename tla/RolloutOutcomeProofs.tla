------------------------ MODULE RolloutOutcomeProofs -------------------------
(***************************************************************************)
(* What a rollout leaves behind on the endpoints and in the tables: a      *)
(* rollback has something to restore, the installer runs once per task and *)
(* restart, a reported result is not taken back, and a deployment keeps    *)
(* the promise of Lifecycle if nothing disturbs it.                        *)
(***************************************************************************)
EXTENDS RolloutTaskProofs

-----------------------------------------------------------------------------
(* A queued rollback always names a row with a snapshot.  A snapshot id, once *)
(* recorded, is never cleared, and the rows the API chose when it loaded the  *)
(* deployment had one.                                                        *)

\* A recorded snapshot stays.
LEMMA SnapshotStays ==
  ASSUME TypeOK, Next
  PROVE  \A t \in Task : snap[t] => snap'[t]
<1> USE DEF db, redis, broker, ghosts
<1>1. ASSUME NEW r \in reqs, CommitReport(r) PROVE \A t \in Task : snap[t] => snap'[t]
  <2>1. snap \in [Task -> BOOLEAN]
    BY DEF TypeOK
  <2> QED BY <1>1, <2>1 DEF CommitReport
<1>2. ApiStep => UNCHANGED snap
  BY DEF ApiStep, CreateCommit, CancelLoad, RollbackLoad, CreateEnqueue, CancelSelect,
         CancelCommit, RollbackPush, RollbackCommit, ApiFails, Decommission, Quarantine
<1>3. WorkerStep => UNCHANGED snap
  BY DEF WorkerStep, ScheduleIgnored, ScheduleDefer, Redeliver, ScheduleLoad, FinalizeLoad,
         ScheduleStart, SchedulePush, ScheduleCommit, ScheduleRetry, FinalizeCount,
         FinalizeCommit, WorkerLost
<1>4. AgentStep => UNCHANGED snap
  BY DEF AgentStep, Fetch, StartInstall, FinishDownload, RunInstaller, RunRollback,
         AgentDies, AgentDiesLate
<1>5. ReportStep => UNCHANGED snap \/ \E r \in reqs : CommitReport(r)
  BY DEF ReportStep, Refuse, Dequeue, LoadRow, AttemptFails, AttemptTimesOut, Receive, Expire
<1> QED BY <1>1, <1>2, <1>3, <1>4, <1>5 DEF Next

\* What a step must not do: put a rollback without a snapshot on a list, or into
\* the hands of the API.
LEMMA SnapshotKeeps ==
  ASSUME TypeOK, TypeOK', SnapInv, \A t \in Task : snap[t] => snap'[t],
         \A e \in Endpoint : \A i \in Elements(queue'[e]) :
           i.kind = "rollback" => i \in Elements(queue[e]) \/ snap[i.task],
         \A o \in ops' : o.kind = "rollback" => \A t \in o.rows : snap[t]
  PROVE  SnapInv'
<1>1. ASSUME NEW e \in Endpoint, NEW i \in Elements(queue'[e]), i.kind = "rollback"
      PROVE  snap'[i.task]
  <2>1. queue'[e] \in Seq(Item)
    BY DEF TypeOK
  <2>2. i \in Item
    BY <2>1 DEF Elements
  <2>3. i.task \in Task
    BY <2>2 DEF Item
  <2>4. snap[i.task]
    BY <1>1 DEF SnapInv, RollbackHasSnapshot
  <2> QED BY <2>3, <2>4
<1>2. ASSUME NEW o \in ops', o.kind = "rollback", NEW t \in o.rows
      PROVE  snap'[t]
  <2>1. t \in Task
    BY <1>2 DEF TypeOK, Op
  <2> QED BY <1>2, <2>1
<1> QED BY <1>1, <1>2 DEF SnapInv, RollbackHasSnapshot, OpSnapshots, Elements

\* No action of the API puts a rollback without a snapshot into anyone's hands.
LEMMA SnapshotApi ==
  ASSUME TypeOK, TypeOK', SnapInv, ApiStep, \A t \in Task : snap[t] => snap'[t]
  PROVE  SnapInv'
<1> USE DEF db, redis, broker, ghosts
<1>h. \A o \in ops : o.kind = "rollback" => \A t \in o.rows : snap[t]
  BY DEF SnapInv, OpSnapshots
<1>q. UNCHANGED queue /\ (\A o \in ops' : o.kind = "rollback" => \A t \in o.rows : snap[t])
        => SnapInv'
  BY SnapshotKeeps
<1>1. ASSUME NEW d \in Deployment, CreateCommit(d) \/ CancelLoad(d) PROVE SnapInv'
  BY <1>1, <1>h, <1>q DEF CreateCommit, CancelLoad, NewOp
<1>2. ASSUME NEW d \in Deployment, RollbackLoad(d) PROVE SnapInv'
  BY <1>2, <1>h, <1>q DEF RollbackLoad, NewOp, CanRollBack
<1>3. ASSUME NEW o \in ops, CreateEnqueue(o) \/ CancelCommit(o) \/ RollbackCommit(o) \/ ApiFails(o)
      PROVE  SnapInv'
  BY <1>3, <1>h, <1>q DEF CreateEnqueue, CancelCommit, RollbackCommit, ApiFails
<1>4. ASSUME NEW o \in ops, CancelSelect(o) PROVE SnapInv'
  <2>1. o \in Op /\ o.kind = "cancel"
    BY <1>4 DEF TypeOK, CancelSelect
  <2>2. \A p \in ops' : p \in ops \/ p.kind = "cancel"
    BY <1>4, <2>1 DEF CancelSelect, Op
  <2> QED BY <1>4, <1>h, <1>q, <2>2 DEF CancelSelect
<1>5. ASSUME NEW o \in ops, RollbackPush(o) PROVE SnapInv'
  <2>1. o \in Op /\ o.kind = "rollback"
    BY <1>5 DEF TypeOK, RollbackPush
  <2>2. PICK t \in o.rows :
          /\ queue' = [queue EXCEPT ![t.ep] = Append(@, Rollback(t, o.nth))]
          /\ ops' = (ops \ {o}) \cup {[o EXCEPT !.rows = @ \ {t}]}
    BY <1>5 DEF RollbackPush
  <2>3. snap[t] /\ t \in Task /\ t.ep \in Endpoint /\ Rollback(t, o.nth) \in Item
    BY <1>h, <2>1 DEF Op, Task, Item, Rollback
  <2>4. \A p \in ops' : p \in ops \/ (p.kind = o.kind /\ p.rows \subseteq o.rows)
    BY <2>1, <2>2 DEF Op
  <2>5. \A p \in ops' : p.kind = "rollback" => \A u \in p.rows : snap[u]
    BY <1>h, <2>1, <2>4
  <2>6. queue \in [Endpoint -> Seq(Item)]
    BY DEF TypeOK
  <2>7. ASSUME NEW e \in Endpoint, NEW i \in Elements(queue'[e])
        PROVE  i \in Elements(queue[e]) \/ i = Rollback(t, o.nth)
    BY <2>2, <2>3, <2>6, AppendFacts
  <2>8. Rollback(t, o.nth).task = t
    BY DEF Rollback
  <2> QED BY <2>3, <2>5, <2>7, <2>8, SnapshotKeeps
<1>6. ASSUME NEW e \in Endpoint, Decommission(e) \/ Quarantine(e) PROVE SnapInv'
  BY <1>6, <1>h, <1>q DEF Decommission, Quarantine
<1> QED BY <1>1, <1>2, <1>3, <1>4, <1>5, <1>6 DEF ApiStep

\* The other processes only take rollbacks off the lists.
LEMMA SnapshotOthers ==
  ASSUME TypeOK, TypeOK', SnapInv, WorkerStep \/ ReportStep \/ AgentStep,
         \A t \in Task : snap[t] => snap'[t]
  PROVE  SnapInv'
<1> USE DEF db, redis, broker, ghosts
<1>h. \A o \in ops : o.kind = "rollback" => \A t \in o.rows : snap[t]
  BY DEF SnapInv, OpSnapshots
<1>s. queue \in [Endpoint -> Seq(Item)]
  BY DEF TypeOK
<1>o. UNCHANGED ops
  BY DEF WorkerStep, ScheduleIgnored, ScheduleDefer, Redeliver, ScheduleLoad, FinalizeLoad,
         ScheduleStart, SchedulePush, ScheduleCommit, ScheduleRetry, FinalizeCount,
         FinalizeCommit, WorkerLost, ReportStep, Refuse, Dequeue, LoadRow, CommitReport,
         AttemptFails, AttemptTimesOut, Receive, Expire, AgentStep, Fetch, StartInstall,
         FinishDownload, RunInstaller, RunRollback, AgentDies, AgentDiesLate
<1>q. (\A e \in Endpoint : \A i \in Elements(queue'[e]) :
         i.kind = "rollback" => i \in Elements(queue[e])) => SnapInv'
  BY <1>h, <1>o, SnapshotKeeps
<1>1. ASSUME NEW w \in Worker, SchedulePush(w) PROVE SnapInv'
  <2>1. PICK f \in worker[w].todo :
          queue' = [queue EXCEPT ![f] =
                      Append(@, Install(TaskOf(worker[w].dep, worker[w].run, f)))]
    BY <1>1 DEF SchedulePush
  <2> DEFINE j == Install(TaskOf(worker[w].dep, worker[w].run, f))
  <2>2. worker[w] \in WorkerState /\ worker[w].pc = "push"
    BY <1>1 DEF TypeOK, SchedulePush
  <2>3. f \in Endpoint /\ j \in Item /\ j.kind = "install"
    BY <2>2 DEF WorkerState, Item, Install, TaskOf, Task
  <2>4. ASSUME NEW e \in Endpoint, NEW i \in Elements(queue'[e])
        PROVE  i \in Elements(queue[e]) \/ i = j
    BY <2>1, <2>3, <1>s, AppendFacts
  <2> QED BY <2>3, <2>4, <1>q
<1>2. ASSUME NEW r \in reqs, Dequeue(r) PROVE SnapInv'
  <2>1. r.item \in Item /\ r.item.task.ep \in Endpoint
    BY RequestType
  <2>2. ASSUME NEW e \in Endpoint, NEW i \in Elements(queue'[e])
        PROVE  i \in Elements(queue[e])
    <3>1. CASE Terminal(r.status)
      <4>1. queue' = [queue EXCEPT ![r.item.task.ep] = LRem(@, r.item)]
        BY <1>2, <3>1 DEF Dequeue
      <4>2. Elements(LRem(queue[e], r.item)) \subseteq Elements(queue[e])
        BY <2>1, <1>s, LRemFacts
      <4> QED BY <2>1, <2>2, <4>1, <4>2, <1>s
    <3>2. CASE ~Terminal(r.status)
      BY <1>2, <3>2 DEF Dequeue
    <3> QED BY <3>1, <3>2
  <2> QED BY <2>2, <1>q
<1>3. ASSUME NEW f \in Endpoint, Expire(f) PROVE SnapInv'
  <2>1. \A e \in Endpoint : queue'[e] = queue[e] \/ queue'[e] = <<>>
    BY <1>3, <1>s DEF Expire
  <2>2. Elements(<<>>) = {}
    BY DEF Elements
  <2> QED BY <2>1, <2>2, <1>q
<1>4. UNCHANGED queue \/ (\E w \in Worker : SchedulePush(w)) \/ (\E r \in reqs : Dequeue(r))
        \/ (\E f \in Endpoint : Expire(f))
  BY DEF WorkerStep, ScheduleIgnored, ScheduleDefer, Redeliver, ScheduleLoad, FinalizeLoad,
         ScheduleStart, ScheduleCommit, ScheduleRetry, FinalizeCount,
         FinalizeCommit, WorkerLost, ReportStep, Refuse, LoadRow, CommitReport,
         AttemptFails, AttemptTimesOut, Receive, AgentStep, Fetch, StartInstall,
         FinishDownload, RunInstaller, RunRollback, AgentDies, AgentDiesLate
<1>5. UNCHANGED queue => SnapInv'
  BY <1>q
<1> QED BY <1>1, <1>2, <1>3, <1>4, <1>5

\* Every rollback on a list names a row that recorded a snapshot, whatever the
\* agents, the jobs and the operators do meanwhile.
THEOREM RollbackRestores == Spec => []RollbackHasSnapshot
<1>1. Init => TypeOK /\ SnapInv
  <2>1. Init => SnapInv
    BY DEF Init, SnapInv, RollbackHasSnapshot, OpSnapshots, Elements
  <2> QED BY <2>1, TypeInit
<1>2. TypeOK /\ SnapInv /\ [Next]_vars => (TypeOK /\ SnapInv)'
  <2> SUFFICES ASSUME TypeOK, SnapInv, [Next]_vars PROVE (TypeOK /\ SnapInv)'
    OBVIOUS
  <2>1. TypeOK'
    BY TypeStep
  <2>2. CASE Next
    <3>1. \A t \in Task : snap[t] => snap'[t]
      BY <2>2, SnapshotStays
    <3> QED BY <2>1, <2>2, <3>1, SnapshotApi, SnapshotOthers DEF Next
  <2>3. CASE UNCHANGED vars
    BY <2>1, <2>3 DEF vars, SnapInv, RollbackHasSnapshot, OpSnapshots, Elements
  <2> QED BY <2>2, <2>3
<1>3. SnapInv => RollbackHasSnapshot
  BY DEF SnapInv
<1> QED BY <1>1, <1>2, <1>3, PTL DEF Spec

-----------------------------------------------------------------------------
(* The installer runs once, and results stay.  A task is unborn until a job   *)
(* queues it, queued once, and installed while an agent holds it; it is       *)
(* closing while the agent reports its end.  The report takes it off the list *)
(* before its answer sends the agent on, so nobody can start it again.        *)

Unborn(t) ==
  \/ t.run > runs[t.dep]
  \/ \E w \in Worker : Scheduling(w) /\ t.ep \in worker[w].todo /\ t = RunTask(w, t.ep)

Holding(t) == Install(t) \in Elements(agent[t.ep].todo)
Closing(t) == agent[t.ep].phase = "closing" /\ Current(t.ep) = Install(t)

\* Another execution of the installer stays within the bound.
Fresh(t) == installs[t] <= restarts[t.ep]

\* Nobody has begun a task that no job has queued.
UnbornInv == \A t \in Task : Unborn(t) => installs[t] = 0 /\ ~Holding(t)

\* A task that can still be installed has been installed too rarely for the bound.
FreshInv == \A t \in Task : (IsQueued(Install(t)) \/ Holding(t)) /\ ~Closing(t) => Fresh(t)

\* Only install tasks are downloaded and installed.
PhaseInv ==
  \A e \in Endpoint :
    agent[e].phase \in {"downloading", "installing"} => Current(e).kind = "install"

\* No report on t has taken effect that the agent had given up on.
OnTime(t) == "late" \notin mishap[t]

\* The statuses that come from an agent, and the rows that have one
Reported    == Ended \ {"skipped"}
HasResult(t) == row[t] \in Reported /\ OnTime(t)

\* The server that handles the end of a task has taken it off the list, or has
\* refused the agent, which counts as a restart.  If the row is over already, it
\* is by the same report.
Final(r) == r.live /\ r.status \in Ended /\ r.item.kind = "install"
OffTheList(r) ==
  r.stage # "sent" => ~IsQueued(r.item) \/ (r.stage = "replied" /\ Fresh(r.item.task))
SameResult(r) == HasResult(r.item.task) => row[r.item.task] = r.status
ClosedInv == \A r \in reqs : Final(r) => OffTheList(r) /\ SameResult(r)

\* A task whose result is in the table is off the list, and its agent is done
\* with it.
Settled(t) == ~IsQueued(Install(t)) /\ (Holding(t) => Closing(t))
ResultInv == \A t \in Task : HasResult(t) => Settled(t)

OnceInv ==
  /\ UnbornInv
  /\ FreshInv
  /\ PhaseInv
  /\ ClosedInv
  /\ ResultInv
  /\ InstallsBounded

\* A task that is queued, or has a row, is born.
LEMMA BornFacts ==
  ASSUME IInv, NEW t \in Task, Unborn(t)
  PROVE  ~IsQueued(Install(t)) /\ row[t] = "none"
<1> USE DEF IInv, TaskInv
<1>1. CASE t.run > runs[t.dep]
  <2>1. /\ Install(t).task = t /\ Install(t).kind = "install" /\ t.ep \in Endpoint
        /\ t.run \in Int /\ runs[t.dep] \in Int
    BY InstallFacts DEF Task, TypeOK
  <2> QED BY <1>1, <2>1 DEF QueueInv, RowInv, IsQueued
<1>2. ASSUME NEW w \in Worker, Scheduling(w), t.ep \in worker[w].todo, t = RunTask(w, t.ep)
      PROVE  ~IsQueued(Install(t)) /\ row[t] = "none"
  BY <1>2 DEF ScheduleInv, Task
<1> QED BY <1>1, <1>2 DEF Unborn

\* The task an agent is about to end is one it holds.
LEMMA EndingHeld ==
  ASSUME IInv, NEW r \in reqs, r.live, r.item.kind = "install"
  PROVE  r.item = Install(r.item.task) /\ Holding(r.item.task)
<1> DEFINE e == r.item.task.ep
<1>1. r.item \in Item /\ e \in Endpoint
  BY RequestType DEF IInv
<1>2. agent[e].phase = PhaseOf(r.status) /\ r.item = Current(e) /\ PhaseOf(r.status) # "idle"
  BY DEF IInv, TaskInv, RequestInv, Awaited, PhaseOf
<1>3. agent[e] \in AgentState /\ agent[e].todo \in Seq(Item) /\ agent[e].todo # <<>>
  BY <1>1, <1>2 DEF IInv, TypeOK, AgentState
<1>4. 1 \in DOMAIN agent[e].todo /\ Current(e) = agent[e].todo[1]
  BY <1>3, EmptySeq DEF Current
<1> QED BY <1>1, <1>2, <1>4, InstallFacts DEF Holding, Elements

\* An agent holds tasks of its own only.
LEMMA HoldingFacts ==
  ASSUME IInv, NEW e \in Endpoint, NEW i \in Elements(agent[e].todo), i.kind = "install"
  PROVE  i.task \in Task /\ i.task.ep = e /\ i = Install(i.task) /\ Holding(i.task)
<1>1. agent[e].todo \in Seq(Item)
  BY DEF IInv, TypeOK, AgentState
<1>2. i \in Item /\ i.task \in Task /\ i.task.ep = e
  BY <1>1 DEF Elements, Item, IInv, TaskInv, AgentInv
<1> QED BY <1>2, InstallFacts DEF Holding

\* The history variables are numbers.
LEMMA CountedFacts ==
  ASSUME TypeOK, NEW t \in Task
  PROVE  installs[t] \in Nat /\ restarts[t.ep] \in Nat /\ t.ep \in Endpoint
BY DEF TypeOK, Task

\* A step that leaves agents, reports and mishaps alone may queue unborn tasks.
LEMMA QuietOnce ==
  ASSUME IInv, OnceInv, UNCHANGED <<installs, restarts, agent, reqs, mishap>>,
         \A t \in Task : Unborn(t)' => Unborn(t),
         \A t \in Task : IsQueued(Install(t))' => IsQueued(Install(t)) \/ Unborn(t),
         \A t \in Task : row'[t] \in Reported => row'[t] = row[t]
  PROVE  OnceInv'
<1> USE DEF OnceInv
<1>1. UnbornInv'
  BY DEF UnbornInv, Holding
<1>2. FreshInv'
  <2> SUFFICES ASSUME NEW t \in Task, (IsQueued(Install(t)) \/ Holding(t))', ~Closing(t)'
               PROVE  Fresh(t)
    BY DEF FreshInv, Fresh
  <2>1. ~Closing(t) /\ (Holding(t)' => Holding(t))
    BY DEF Closing, Current, Holding
  <2>2. Unborn(t) => Fresh(t)
    BY CountedFacts DEF UnbornInv, Fresh, IInv
  <2> QED BY <2>1, <2>2 DEF FreshInv
<1>3. PhaseInv' /\ InstallsBounded'
  BY DEF PhaseInv, InstallsBounded, Current
<1>4. ClosedInv'
  <2> SUFFICES ASSUME NEW r \in reqs, Final(r) PROVE OffTheList(r)' /\ SameResult(r)'
    BY DEF ClosedInv, Final
  <2>1. r.item = Install(r.item.task) /\ Holding(r.item.task) /\ r.item.task \in Task
    BY EndingHeld, RequestType DEF IInv, Final
  <2>2. IsQueued(r.item)' => IsQueued(r.item)
    BY <2>1 DEF UnbornInv
  <2>3. OffTheList(r) /\ SameResult(r)
    BY DEF ClosedInv
  <2>4. OffTheList(r)'
    BY <2>2, <2>3 DEF OffTheList, Fresh
  <2>5. SameResult(r)'
    BY <2>1, <2>3 DEF SameResult, HasResult, OnTime
  <2> QED BY <2>4, <2>5
<1>5. ResultInv'
  <2> SUFFICES ASSUME NEW t \in Task, HasResult(t)' PROVE Settled(t)'
    BY DEF ResultInv
  <2>1. row[t] = row'[t] /\ row[t] # "none" /\ Settled(t)
    BY DEF ResultInv, HasResult, OnTime, Reported, Ended
  <2>2. ~Unborn(t)
    BY <2>1, BornFacts
  <2> QED BY <2>1, <2>2 DEF Settled, Holding, Closing, Current
<1> QED BY <1>1, <1>2, <1>3, <1>4, <1>5

\* A step of the agent API moves requests, takes tasks off lists and counts
\* refusals.
LEMMA MoveOnce ==
  ASSUME IInv, TypeOK', OnceInv, UNCHANGED <<installs, agent, runs, worker>>, MishapsKeep,
         \A e \in Endpoint : restarts[e] <= restarts'[e],
         \A t \in Task : IsQueued(Install(t))' => IsQueued(Install(t)),
         \A q \in reqs' : q \notin reqs /\ Final(q) => OffTheList(q)' /\ SameResult(q)',
         \A t \in Task : HasResult(t)' =>
           \/ row'[t] = row[t]
           \/ Settled(t) /\ \A q \in reqs \cap reqs' : q.live => q.item.task # t
  PROVE  OnceInv'
<1> USE DEF OnceInv
<1>f. ASSUME NEW t \in Task PROVE installs'[t] = installs[t] /\ (Fresh(t) => Fresh(t)')
  BY CountedFacts DEF Fresh, IInv, TypeOK
<1>1. UnbornInv'
  BY DEF UnbornInv, Holding, Unborn, Scheduling, RunTask
<1>2. FreshInv'
  BY <1>f DEF FreshInv, Closing, Current, Holding
<1>3. PhaseInv'
  BY DEF PhaseInv, Current
<1>4. InstallsBounded'
  <2> SUFFICES ASSUME NEW t \in Task PROVE installs'[t] <= 1 + restarts'[t.ep]
    BY DEF InstallsBounded
  <2>1. /\ installs[t] \in Nat /\ restarts[t.ep] \in Nat /\ restarts'[t.ep] \in Nat
        /\ restarts[t.ep] <= restarts'[t.ep]
    BY CountedFacts DEF IInv, TypeOK
  <2> QED BY <2>1 DEF InstallsBounded
<1>5. ClosedInv'
  <2> SUFFICES ASSUME NEW q \in reqs \cap reqs', Final(q) PROVE OffTheList(q)' /\ SameResult(q)'
    BY DEF ClosedInv, Final
  <2>1. q.item = Install(q.item.task) /\ q.item.task \in Task
    BY EndingHeld, RequestType DEF IInv, Final
  <2>2. IsQueued(q.item)' => IsQueued(q.item)
    BY <2>1
  <2>3. OffTheList(q) /\ SameResult(q)
    BY DEF ClosedInv
  <2>4. OffTheList(q)'
    BY <1>f, <2>1, <2>2, <2>3 DEF OffTheList
  <2>5. SameResult(q)'
    BY <2>1, <2>3 DEF SameResult, HasResult, OnTime, MishapsKeep, Final
  <2> QED BY <2>4, <2>5
<1>6. ResultInv'
  <2> SUFFICES ASSUME NEW t \in Task, HasResult(t)' PROVE Settled(t)'
    BY DEF ResultInv
  <2>1. OnTime(t)
    BY DEF MishapsKeep, OnTime, HasResult
  <2>2. Settled(t)
    BY <2>1 DEF ResultInv, HasResult
  <2> QED BY <2>2 DEF Settled, Holding, Closing, Current
<1> QED BY <1>1, <1>2, <1>3, <1>4, <1>5, <1>6

\* An agent goes on: it fetches, turns to the next task, or falls asleep.
LEMMA TurnOnce ==
  ASSUME IInv, TypeOK', OnceInv, UNCHANGED <<installs, runs, worker, queue, row>>, MishapsKeep,
         \A f \in Endpoint : restarts[f] <= restarts'[f],
         \A q \in reqs' : q.live => q \in reqs,
         NEW e \in Endpoint, \A f \in Endpoint : f # e => agent'[f] = agent[f],
         agent'[e].phase \in {"idle", "next"},
         \A t \in Task : t.ep = e /\ Holding(t)' =>
                           (Holding(t) /\ ~Closing(t)) \/ (IsQueued(Install(t)) /\ ~Closing(t)),
         \A t \in Task : t.ep = e /\ IsQueued(Install(t)) /\ Closing(t) => Fresh(t)'
  PROVE  OnceInv'
<1> USE DEF OnceInv
<1>f. ASSUME NEW t \in Task PROVE installs'[t] = installs[t] /\ (Fresh(t) => Fresh(t)')
  BY CountedFacts DEF Fresh, IInv, TypeOK
<1>o. ASSUME NEW t \in Task, t.ep # e
      PROVE  (Holding(t)' <=> Holding(t)) /\ (Closing(t)' <=> Closing(t))
  BY <1>o, CountedFacts DEF Holding, Closing, Current, IInv
<1>q. \A t \in Task : IsQueued(Install(t))' <=> IsQueued(Install(t))
  BY DEF IsQueued
<1>1. UnbornInv'
  <2> SUFFICES ASSUME NEW t \in Task, Unborn(t) PROVE ~Holding(t)'
    BY DEF UnbornInv, Unborn, Scheduling, RunTask
  <2> QED BY <1>o, BornFacts DEF UnbornInv
<1>2. FreshInv'
  <2> SUFFICES ASSUME NEW t \in Task, IsQueued(Install(t)) \/ Holding(t)', ~Closing(t)'
               PROVE  Fresh(t)'
    BY <1>q DEF FreshInv
  <2>1. CASE t.ep = e
    BY <1>f, <2>1 DEF FreshInv
  <2>2. CASE t.ep # e
    BY <1>f, <1>o, <2>2 DEF FreshInv
  <2> QED BY <2>1, <2>2
<1>3. PhaseInv'
  BY DEF PhaseInv, Current
<1>4. InstallsBounded'
  <2> SUFFICES ASSUME NEW t \in Task PROVE installs'[t] <= 1 + restarts'[t.ep]
    BY DEF InstallsBounded
  <2>1. /\ installs[t] \in Nat /\ restarts[t.ep] \in Nat /\ restarts'[t.ep] \in Nat
        /\ restarts[t.ep] <= restarts'[t.ep]
    BY CountedFacts DEF IInv, TypeOK
  <2> QED BY <2>1 DEF InstallsBounded
<1>5. ClosedInv'
  <2> SUFFICES ASSUME NEW q \in reqs \cap reqs', Final(q) PROVE OffTheList(q)' /\ SameResult(q)'
    BY DEF ClosedInv, Final
  <2>1. q.item = Install(q.item.task) /\ q.item.task \in Task
    BY EndingHeld, RequestType DEF IInv, Final
  <2>2. IsQueued(q.item)' => IsQueued(q.item)
    BY <1>q, <2>1
  <2>3. OffTheList(q) /\ SameResult(q)
    BY DEF ClosedInv
  <2>4. OffTheList(q)'
    BY <1>f, <2>1, <2>2, <2>3 DEF OffTheList
  <2>5. SameResult(q)'
    BY <2>1, <2>3 DEF SameResult, HasResult, OnTime, MishapsKeep, Final
  <2> QED BY <2>4, <2>5
<1>6. ResultInv'
  <2> SUFFICES ASSUME NEW t \in Task, HasResult(t)' PROVE Settled(t)'
    BY DEF ResultInv
  <2>1. Settled(t)
    BY DEF ResultInv, HasResult, OnTime, MishapsKeep
  <2> QED BY <1>o, <1>q, <2>1 DEF Settled
<1> QED BY <1>1, <1>2, <1>3, <1>4, <1>5, <1>6

\* An agent that waits for nothing sends a report, perhaps after an installation.
LEMMA SendOnce ==
  ASSUME IInv, TypeOK', OnceInv,
         UNCHANGED <<row, runs, queue, worker, mishap, restarts>>,
         NEW e \in Endpoint, Mine(e) = {}, agent[e].phase \in {"next", "downloading", "installing"},
         NEW s \in {"downloading", "installing", "success", "failed", "rolled_back"},
         NEW b \in BOOLEAN, Send(e, s, b, PhaseOf(s)),
         s \in {"downloading", "installing"} => Current(e).kind = "install",
         \/ UNCHANGED installs
         \/ /\ s \in Ended /\ Current(e).kind = "install"
            /\ installs' = [installs EXCEPT ![Current(e).task] = @ + 1]
  PROVE  OnceInv'
<1> USE DEF OnceInv
<1>0. PICK r : r = [item |-> Current(e), status |-> s, snap |-> b, try |-> 1,
                    live |-> TRUE, stage |-> "sent", seen |-> "none"]
  OBVIOUS
<1>1. reqs' = reqs \cup {r} /\ r.stage = "sent"
  BY <1>0 DEF Send
<1>2. /\ agent[e].todo \in Seq(Item) /\ agent[e].todo # <<>>
      /\ agent'[e].todo = agent[e].todo /\ agent'[e].phase = PhaseOf(s)
      /\ \A f \in Endpoint : f # e => agent'[f] = agent[f]
  BY DEF Send, IInv, TypeOK, AgentState
<1>3. Current(e) \in Elements(agent[e].todo) /\ Current(e)' = Current(e)
  <2>1. 1 \in DOMAIN agent[e].todo /\ Current(e) = agent[e].todo[1]
    BY <1>2, EmptySeq DEF Current
  <2> QED BY <1>2, <2>1 DEF Elements, Current
<1>h. ASSUME NEW t \in Task
      PROVE  /\ Holding(t)' <=> Holding(t)
             /\ t.ep # e => (Closing(t)' <=> Closing(t))
             /\ t.ep = e => ~Closing(t)
             /\ t.ep = e => (Closing(t)' <=> s \in Ended /\ Current(e) = Install(t))
  BY <1>2, <1>3, CountedFacts DEF Holding, Closing, Current, IInv, PhaseOf
<1>i. ASSUME NEW t \in Task
      PROVE  \/ installs'[t] = installs[t]
             \/ /\ installs'[t] = installs[t] + 1 /\ Holding(t) /\ t.ep = e
                /\ s \in Ended /\ Current(e) = Install(t)
  <2>1. CASE UNCHANGED installs
    BY <2>1
  <2>2. CASE ~UNCHANGED installs
    <3>1. Current(e).kind = "install" /\ s \in Ended
      BY <2>2
    <3>2. /\ Current(e).task \in Task /\ Current(e).task.ep = e
          /\ Current(e) = Install(Current(e).task) /\ Holding(Current(e).task)
      BY <1>3, <3>1, HoldingFacts
    <3>3. installs \in [Task -> Nat] /\ installs' = [installs EXCEPT ![Current(e).task] = @ + 1]
      BY <2>2 DEF IInv, TypeOK
    <3> QED BY <3>1, <3>2, <3>3
  <2> QED BY <2>1, <2>2
<1>4. UnbornInv'
  <2> SUFFICES ASSUME NEW t \in Task, Unborn(t) PROVE installs'[t] = 0 /\ ~Holding(t)'
    BY DEF UnbornInv, Unborn, Scheduling, RunTask
  <2> QED BY <1>h, <1>i DEF UnbornInv
<1>5. FreshInv'
  <2> SUFFICES ASSUME NEW t \in Task, IsQueued(Install(t)) \/ Holding(t), ~Closing(t)'
               PROVE  Fresh(t)'
    BY <1>h DEF FreshInv, IsQueued
  <2>1. ~Closing(t) /\ installs'[t] = installs[t]
    BY <1>h, <1>i
  <2> QED BY <2>1 DEF FreshInv, Fresh
<1>6. PhaseInv'
  BY <1>2, <1>3 DEF PhaseInv, PhaseOf, Ended, Current
<1>7. InstallsBounded'
  <2> SUFFICES ASSUME NEW t \in Task PROVE installs'[t] <= 1 + restarts[t.ep]
    BY DEF InstallsBounded
  <2>1. installs[t] \in Nat /\ restarts[t.ep] \in Nat
    BY CountedFacts DEF IInv
  <2>2. CASE installs'[t] = installs[t]
    BY <2>2 DEF InstallsBounded
  <2>3. CASE installs'[t] = installs[t] + 1 /\ Holding(t) /\ t.ep = e
    <3>1. installs[t] <= restarts[t.ep]
      BY <1>h, <2>3 DEF FreshInv, Fresh
    <3> QED BY <2>1, <2>3, <3>1
  <2> QED BY <1>i, <2>2, <2>3
<1>8. ClosedInv'
  <2>1. ASSUME NEW q \in reqs, Final(q) PROVE OffTheList(q)' /\ SameResult(q)'
    <3>1. q.item.task \in Task /\ q.item.task.ep # e
      BY <2>1, RequestType DEF IInv, Mine, Final
    <3>2. installs'[q.item.task] = installs[q.item.task]
      BY <1>i, <3>1
    <3>3. OffTheList(q) /\ SameResult(q)
      BY <2>1 DEF ClosedInv
    <3> QED BY <3>2, <3>3 DEF OffTheList, Fresh, IsQueued, SameResult, HasResult, OnTime
  <2>2. ASSUME Final(r), HasResult(r.item.task) PROVE FALSE
    <3>1. r.item = Current(e) /\ r.item.kind = "install"
      BY <1>0, <2>2 DEF Final
    <3>2. r.item.task \in Task /\ r.item.task.ep = e /\ Holding(r.item.task)
      BY <1>3, <3>1, HoldingFacts
    <3> QED BY <1>h, <2>2, <3>2 DEF ResultInv, Settled
  <2>3. OffTheList(r)'
    BY <1>1 DEF OffTheList
  <2>4. Final(r) => SameResult(r)'
    BY <2>2 DEF SameResult, HasResult, OnTime
  <2> QED BY <1>1, <2>1, <2>3, <2>4 DEF ClosedInv, Final
<1>9. ResultInv'
  <2> SUFFICES ASSUME NEW t \in Task, HasResult(t) PROVE Settled(t)'
    BY DEF ResultInv, HasResult, OnTime
  <2>1. Settled(t)
    BY DEF ResultInv
  <2> QED BY <1>h, <2>1 DEF Settled, IsQueued
<1> QED BY <1>4, <1>5, <1>6, <1>7, <1>8, <1>9

\* A job that goes on, or ends, leaves no more unborn tasks than there were.
LEMMA UnbornFrame ==
  ASSUME UNCHANGED runs,
         \A v \in Worker : Scheduling(v)' =>
           /\ Scheduling(v) /\ worker'[v].dep = worker[v].dep /\ worker'[v].run = worker[v].run
           /\ worker'[v].todo \subseteq worker[v].todo
  PROVE  \A t \in Task : Unborn(t)' => Unborn(t)
BY DEF Unborn, RunTask

LEMMA ApiOnce ==
  ASSUME IInv, OnceInv, ApiStep
  PROVE  OnceInv'
<1> USE DEF db, redis, broker, ghosts
<1>1. UNCHANGED <<installs, restarts, agent, reqs, mishap, runs, worker>>
  BY DEF ApiStep, CreateCommit, CancelLoad, RollbackLoad, CreateEnqueue, CancelSelect,
         CancelCommit, RollbackPush, RollbackCommit, ApiFails, Decommission, Quarantine
<1>2. \A t \in Task : Unborn(t)' => Unborn(t)
  BY <1>1 DEF Unborn, Scheduling, RunTask
<1>3. \A t \in Task : row'[t] \in Reported => row'[t] = row[t]
  <2>1. UNCHANGED row \/ \E o \in ops : CancelCommit(o)
    BY DEF ApiStep, CreateCommit, CancelLoad, RollbackLoad, CreateEnqueue, CancelSelect,
           RollbackPush, RollbackCommit, ApiFails, Decommission, Quarantine
  <2>2. ASSUME NEW o \in ops, CancelCommit(o), NEW t \in Task
        PROVE  row'[t] = "skipped" \/ row'[t] = row[t]
    BY <2>2 DEF CancelCommit
  <2> QED BY <2>1, <2>2 DEF Reported
<1>4. \A t \in Task : IsQueued(Install(t))' => IsQueued(Install(t))
  <2>1. CASE UNCHANGED queue
    BY <2>1 DEF IsQueued
  <2>2. ASSUME NEW o \in ops, RollbackPush(o), NEW t \in Task, IsQueued(Install(t))'
        PROVE  IsQueued(Install(t))
    <3>1. PICK u \in o.rows : queue' = [queue EXCEPT ![u.ep] = Append(@, Rollback(u, o.nth))]
      BY <2>2 DEF RollbackPush
    <3>2. /\ u \in Task /\ u.ep \in Endpoint /\ Rollback(u, o.nth) \in Item
          /\ Rollback(u, o.nth).kind = "rollback" /\ queue \in [Endpoint -> Seq(Item)]
      BY DEF IInv, TypeOK, Op, Task, Rollback, Item
    <3>3. Install(t).task = t /\ Install(t).kind = "install" /\ t.ep \in Endpoint
      BY InstallFacts DEF Task
    <3>4. Elements(queue'[u.ep]) = Elements(queue[u.ep]) \cup {Rollback(u, o.nth)}
      BY <3>1, <3>2, AppendFacts
    <3> QED BY <2>2, <3>1, <3>2, <3>3, <3>4 DEF IsQueued
  <2>3. UNCHANGED queue \/ \E o \in ops : RollbackPush(o)
    BY DEF ApiStep, CreateCommit, CancelLoad, RollbackLoad, CreateEnqueue, CancelSelect,
           CancelCommit, RollbackCommit, ApiFails, Decommission, Quarantine
  <2> QED BY <2>1, <2>2, <2>3
<1> QED BY <1>1, <1>2, <1>3, <1>4, QuietOnce

LEMMA WorkerOnce ==
  ASSUME IInv, OnceInv, WorkerStep
  PROVE  OnceInv'
<1> USE DEF db, redis, broker, ghosts
<1>t. worker \in [Worker -> WorkerState]
  BY DEF IInv, TypeOK
<1>1. UNCHANGED <<installs, restarts, agent, reqs, mishap>>
  BY DEF WorkerStep, ScheduleIgnored, ScheduleDefer, Redeliver, ScheduleLoad, FinalizeLoad,
         ScheduleStart, SchedulePush, ScheduleCommit, ScheduleRetry, FinalizeCount,
         FinalizeCommit, WorkerLost
<1>2. \A t \in Task : row'[t] \in Reported => row'[t] = row[t]
  <2>1. UNCHANGED row \/ \E w \in Worker : ScheduleCommit(w)
    BY DEF WorkerStep, ScheduleIgnored, ScheduleDefer, Redeliver, ScheduleLoad, FinalizeLoad,
           ScheduleStart, SchedulePush, ScheduleRetry, FinalizeCount, FinalizeCommit, WorkerLost
  <2>2. ASSUME NEW w \in Worker, ScheduleCommit(w), NEW t \in Task
        PROVE  row'[t] = "pending" \/ row'[t] = row[t]
    BY <2>2 DEF ScheduleCommit
  <2> QED BY <2>1, <2>2 DEF Reported, Ended
<1>q. ASSUME UNCHANGED queue, \A t \in Task : Unborn(t)' => Unborn(t) PROVE OnceInv'
  <2>1. \A t \in Task : IsQueued(Install(t))' => IsQueued(Install(t))
    BY <1>q DEF IsQueued
  <2> QED BY <1>1, <1>2, <1>q, <2>1, QuietOnce
<1>3. ASSUME NEW d \in Deployment,
             Redeliver(d) \/ \E k \in 0..MaxRetries : ScheduleIgnored(d, k) \/ ScheduleDefer(d, k)
      PROVE  OnceInv'
  <2>1. UNCHANGED <<worker, runs, queue>>
    BY <1>3 DEF ScheduleIgnored, ScheduleDefer, Redeliver
  <2> QED BY <1>q, <2>1, UnbornFrame DEF Scheduling
<1>r. ASSUME NEW w \in Worker, NEW x, x.pc \notin {"loaded", "push"},
             worker' = [worker EXCEPT ![w] = x], UNCHANGED <<runs, queue>>
      PROVE  OnceInv'
  <2>1. \A v \in Worker : Scheduling(v)' => Scheduling(v) /\ worker'[v] = worker[v]
    BY <1>r, <1>t DEF Scheduling
  <2> QED BY <1>q, <1>r, <2>1, UnbornFrame
<1>4. ASSUME NEW w \in Worker, NEW d \in Deployment, FinalizeLoad(w, d) PROVE OnceInv'
  <2>1. [Resting EXCEPT !.pc = "count", !.dep = d, !.seen = dep[d]].pc = "count"
    BY DEF Resting
  <2> QED BY <1>4, <1>r, <2>1 DEF FinalizeLoad
<1>5. ASSUME NEW w \in Worker,
             ScheduleCommit(w) \/ ScheduleRetry(w) \/ WorkerLost(w) \/ FinalizeCommit(w)
      PROVE  OnceInv'
  BY <1>5, <1>r, RestTypes DEF ScheduleCommit, ScheduleRetry, WorkerLost, FinalizeCommit
<1>6. ASSUME NEW w \in Worker, FinalizeCount(w) PROVE OnceInv'
  <2>1. PICK x : x = [worker[w] EXCEPT !.pc = "finish",
                                       !.new = Outcome(worker[w].dep, worker[w].seen)]
    OBVIOUS
  <2>2. x.pc = "finish"
    BY <1>t, <2>1 DEF WorkerState
  <2>3. worker' = [worker EXCEPT ![w] = Resting] \/ worker' = [worker EXCEPT ![w] = x]
    BY <1>6, <2>1 DEF FinalizeCount
  <2>4. UNCHANGED <<runs, queue>>
    BY <1>6 DEF FinalizeCount
  <2> QED BY <1>r, <2>2, <2>3, <2>4, RestTypes
<1>7. ASSUME NEW w \in Worker, ScheduleStart(w) PROVE OnceInv'
  <2>1. worker' = [worker EXCEPT ![w].pc = "push"] /\ worker[w].pc = "loaded"
    BY <1>7 DEF ScheduleStart
  <2>2. \A v \in Worker : Scheduling(v)' =>
           /\ Scheduling(v) /\ worker'[v].dep = worker[v].dep /\ worker'[v].run = worker[v].run
           /\ worker'[v].todo \subseteq worker[v].todo
    BY <1>t, <2>1 DEF Scheduling, WorkerState
  <2>3. UNCHANGED <<runs, queue>>
    BY <1>7 DEF ScheduleStart
  <2> QED BY <1>q, <2>2, <2>3, UnbornFrame
<1>8. ASSUME NEW w \in Worker, NEW d \in Deployment, ScheduleLoad(w, d) PROVE OnceInv'
  <2>1. PICK S \in TargetChoices, k \in 0..MaxRetries :
          worker' = [worker EXCEPT ![w] =
               [pc |-> "loaded", dep |-> d, run |-> runs[d] + 1, tries |-> k, todo |-> S,
                pushed |-> {}, seen |-> dep[d], new |-> Scheduled(dep[d], S)]]
    BY <1>8 DEF ScheduleLoad
  <2>2. /\ worker'[w].dep = d /\ worker'[w].run = runs[d] + 1
        /\ \A v \in Worker : v # w => worker'[v] = worker[v]
    BY <1>t, <2>1
  <2>3. /\ runs \in [Deployment -> Nat] /\ runs' = [runs EXCEPT ![d] = @ + 1]
        /\ UNCHANGED queue
    BY <1>8, RolloutAssumption DEF ScheduleLoad, IInv, TypeOK
  <2>4. ASSUME NEW t \in Task, Unborn(t)' PROVE Unborn(t)
    <3>0. t.dep \in Deployment /\ t.run \in Nat /\ runs[t.dep] \in Nat /\ runs[d] \in Nat
      BY <2>3 DEF Task
    <3>1. CASE t.run > runs'[t.dep]
      <4>1. runs'[t.dep] \in Nat /\ runs[t.dep] <= runs'[t.dep]
        BY <2>3, <3>0
      <4> QED BY <3>0, <3>1, <4>1 DEF Unborn
    <3>2. ASSUME NEW v \in Worker, Scheduling(v)', t.ep \in worker'[v].todo,
                 t = RunTask(v, t.ep)'
          PROVE  Unborn(t)
      <4>1. CASE v = w
        <5>1. t.dep = d /\ t.run = runs[d] + 1
          BY <2>2, <3>2, <4>1 DEF RunTask, TaskOf
        <5> QED BY <3>0, <5>1 DEF Unborn
      <4>2. CASE v # w
        <5>1. worker'[v] = worker[v]
          BY <2>2, <4>2
        <5> QED BY <3>2, <5>1 DEF Unborn, Scheduling, RunTask
      <4> QED BY <4>1, <4>2
    <3> QED BY <2>4, <3>1, <3>2 DEF Unborn
  <2> QED BY <1>q, <2>3, <2>4
<1>9. ASSUME NEW w \in Worker, SchedulePush(w) PROVE OnceInv'
  <2>1. PICK e \in worker[w].todo :
          /\ queue' = [queue EXCEPT ![e] = Append(@, Install(RunTask(w, e)))]
          /\ worker' = [worker EXCEPT ![w].todo = @ \ {e}, ![w].pushed = @ \cup {e}]
    BY <1>9 DEF SchedulePush, RunTask
  <2>2. UNCHANGED runs /\ Scheduling(w)
    BY <1>9 DEF SchedulePush, Scheduling
  <2>3. PICK u \in Task : u = RunTask(w, e) /\ u.ep = e /\ e \in Endpoint
    BY <2>2, RunTaskFacts DEF IInv
  <2>4. \A v \in Worker : Scheduling(v)' =>
           /\ Scheduling(v) /\ worker'[v].dep = worker[v].dep /\ worker'[v].run = worker[v].run
           /\ worker'[v].todo \subseteq worker[v].todo
    BY <1>t, <2>1, <2>2 DEF Scheduling, WorkerState
  <2>5. \A t \in Task : Unborn(t)' => Unborn(t)
    BY <2>2, <2>4, UnbornFrame
  <2>6. Unborn(u)
    BY <2>2, <2>3 DEF Unborn
  <2>7. ASSUME NEW t \in Task, IsQueued(Install(t))' PROVE IsQueued(Install(t)) \/ Unborn(t)
    <3>1. /\ Install(t).task = t /\ t.ep \in Endpoint /\ Install(u) \in Item
          /\ Install(u).task = u /\ queue \in [Endpoint -> Seq(Item)]
      BY InstallFacts DEF Task, IInv, TypeOK
    <3>2. Elements(queue'[e]) = Elements(queue[e]) \cup {Install(u)}
      BY <2>1, <2>3, <3>1, AppendFacts
    <3> QED BY <2>1, <2>3, <2>6, <2>7, <3>1, <3>2 DEF IsQueued
  <2> QED BY <1>1, <1>2, <2>5, <2>7, QuietOnce
<1> QED BY <1>3, <1>4, <1>5, <1>6, <1>7, <1>8, <1>9 DEF WorkerStep

\* LREM takes an install task off a list that holds it once.
LEMMA LRemGone ==
  ASSUME NEW q \in Seq(Item), NEW i \in Item, i.kind = "install", Distinct(q)
  PROVE  i \notin Elements(LRem(q, i))
<1>1. CASE i \notin Elements(q)
  BY <1>1 DEF LRem
<1>2. CASE i \in Elements(q)
  <2>1. PICK n \in DOMAIN q : q[n] = i /\ LRem(q, i) = SubSeq(q, 1, n - 1) \o SubSeq(q, n + 1, Len(q))
    <3> DEFINE n == CHOOSE k \in DOMAIN q : q[k] = i
    <3>1. n \in DOMAIN q /\ q[n] = i
      BY <1>2 DEF Elements
    <3>2. LRem(q, i) = SubSeq(q, 1, n - 1) \o SubSeq(q, n + 1, Len(q))
      BY <1>2 DEF LRem
    <3> HIDE DEF n
    <3> QED BY <3>1, <3>2
  <2>2. n \in 1..Len(q) /\ Len(q) \in Nat
    BY <2>1
  <2>3. PICK a : a = SubSeq(q, 1, n - 1)
    OBVIOUS
  <2>4. PICK b : b = SubSeq(q, n + 1, Len(q))
    OBVIOUS
  <2>5. a \in Seq(Item) /\ Len(a) = n - 1 /\ \A k \in 1..(n - 1) : a[k] = q[k]
    BY <2>2, <2>3
  <2>6. b \in Seq(Item) /\ Len(b) = Len(q) - n /\ \A k \in 1..(Len(q) - n) : b[k] = q[n + k]
    BY <2>2, <2>4
  <2>7. \A k \in DOMAIN q : q[k] = i => k = n
    BY <2>1 DEF Distinct
  <2>8. \A k \in 1..Len(a) : a[k] # i
    BY <2>2, <2>5, <2>7
  <2>9. ASSUME NEW k \in 1..Len(b) PROVE b[k] # i
    <3>1. n + k \in DOMAIN q /\ n + k # n /\ b[k] = q[n + k]
      BY <2>2, <2>6
    <3> QED BY <2>7, <3>1
  <2>10. ASSUME NEW k \in 1..(Len(a) + Len(b)) PROVE (a \o b)[k] # i
    <3>1. (a \o b)[k] = IF k <= Len(a) THEN a[k] ELSE b[k - Len(a)]
      BY <2>5, <2>6, ConcatProperties
    <3>2. k <= Len(a) => k \in 1..Len(a)
      OBVIOUS
    <3>3. ~(k <= Len(a)) => k - Len(a) \in 1..Len(b)
      <4>1. Len(a) \in Nat /\ Len(b) \in Nat
        BY <2>5, <2>6
      <4> QED BY <4>1
    <3> QED BY <2>8, <2>9, <3>1, <3>2, <3>3
  <2>11. DOMAIN (a \o b) = 1..(Len(a) + Len(b))
    <3>1. a \o b \in Seq(Item) /\ Len(a \o b) = Len(a) + Len(b)
      BY <2>5, <2>6, ConcatProperties
    <3> QED BY <3>1
  <2> QED BY <2>1, <2>3, <2>4, <2>10, <2>11 DEF Elements
<1> QED BY <1>1, <1>2

\* A report is refused, or takes the task off the list, before it is answered.
LEMMA RefuseOnce ==
  ASSUME IInv, TypeOK', OnceInv, NEW r \in reqs, Refuse(r)
  PROVE  OnceInv'
<1> USE DEF IInv, TaskInv, db, redis, broker
<1> DEFINE t == r.item.task
           T == IF Terminal(r.status) THEN RowsOf(r.item) ELSE {}
<1>1. UNCHANGED <<row, queue, installs, agent, runs, worker>> /\ Mark(T, "refused")
  BY DEF Refuse
<1>2. MishapsKeep
  BY <1>1, MarkFacts
<1>3. /\ \A e \in Endpoint : restarts[e] \in Nat /\ restarts[e] <= restarts'[e]
      /\ r.live => restarts'[t.ep] = restarts[t.ep] + 1
  BY RequestType DEF Refuse, Restart, TypeOK
<1>4. ASSUME NEW q \in reqs', q \notin reqs, Final(q) PROVE OffTheList(q)' /\ SameResult(q)'
  <2>1. r.live /\ q = [r EXCEPT !.stage = "replied"]
    BY <1>4 DEF Refuse, Move
  <2>2. q.item = r.item /\ q.status = r.status /\ q.live = r.live /\ q.stage = "replied"
    BY <2>1, RequestType DEF Request
  <2>3. Fresh(t)'
    <3>1. t \in Task /\ t.ep \in Endpoint /\ installs[t] \in Nat /\ restarts[t.ep] \in Nat
      BY RequestType, CountedFacts
    <3>2. installs[t] <= 1 + restarts[t.ep]
      BY <3>1 DEF OnceInv, InstallsBounded
    <3> QED BY <1>1, <1>3, <2>1, <3>1, <3>2 DEF Fresh
  <2>4. OffTheList(q)'
    BY <2>2, <2>3 DEF OffTheList
  <2>5. SameResult(q)'
    BY <1>1, <1>2, <1>4, <2>2, RequestType
       DEF OnceInv, ClosedInv, Final, SameResult, HasResult, OnTime, MishapsKeep
  <2> QED BY <2>4, <2>5
<1>5. \A u \in Task : IsQueued(Install(u))' => IsQueued(Install(u))
  BY <1>1 DEF IsQueued
<1> QED BY <1>1, <1>2, <1>3, <1>4, <1>5, MoveOnce

LEMMA DequeueOnce ==
  ASSUME IInv, TypeOK', OnceInv, NEW r \in reqs, Dequeue(r)
  PROVE  OnceInv'
<1> USE DEF IInv, TaskInv, db, broker
<1> DEFINE e == r.item.task.ep
<1>1. UNCHANGED <<row, installs, restarts, agent, runs, worker>> /\ MishapsKeep
  BY MarkFacts DEF Dequeue
<1>2. e \in Endpoint /\ r.item \in Item /\ queue \in [Endpoint -> Seq(Item)] /\ Distinct(queue[e])
  BY RequestType DEF TypeOK, QueueInv
<1>3. /\ \A f \in Endpoint : Elements(queue'[f]) \subseteq Elements(queue[f])
      /\ r.status \in Ended /\ r.item.kind = "install" => ~IsQueued(r.item)'
  <2>1. CASE r.status \in Ended
    <3>1. queue' = [queue EXCEPT ![e] = LRem(queue[e], r.item)]
      BY <2>1 DEF Dequeue, Terminal
    <3>2. r.item.kind = "install" => r.item \notin Elements(LRem(queue[e], r.item))
      BY <1>2, LRemGone
    <3> QED BY <1>2, <3>1, <3>2, LRemFacts DEF IsQueued
  <2>2. CASE r.status \notin Ended
    BY <2>2 DEF Dequeue, Terminal, redis
  <2> QED BY <2>1, <2>2
<1>4. ASSUME NEW q \in reqs', q \notin reqs, Final(q) PROVE OffTheList(q)' /\ SameResult(q)'
  <2>1. q = [r EXCEPT !.stage = "removed"]
    BY <1>4 DEF Dequeue, Move
  <2>2. q.item = r.item /\ q.status = r.status /\ q.live = r.live
    BY <2>1, RequestType DEF Request
  <2>3. OffTheList(q)'
    BY <1>3, <1>4, <2>2 DEF OffTheList, Final
  <2>4. SameResult(q)'
    BY <1>1, <1>4, <2>2, RequestType
       DEF OnceInv, ClosedInv, Final, SameResult, HasResult, OnTime, MishapsKeep
  <2> QED BY <2>3, <2>4
<1>5. ASSUME NEW t \in Task, IsQueued(Install(t))' PROVE IsQueued(Install(t))
  <2>1. Install(t).task.ep \in Endpoint
    BY InstallFacts DEF Task
  <2> QED BY <1>3, <1>5, <2>1 DEF IsQueued
<1>6. \A f \in Endpoint : restarts[f] <= restarts'[f]
  BY <1>1 DEF TypeOK
<1> QED BY <1>1, <1>4, <1>5, <1>6, MoveOnce

\* Whatever else happens to a request leaves the lists alone.
LEMMA RequestOnce ==
  ASSUME IInv, TypeOK', OnceInv, NEW r \in reqs,
         LoadRow(r) \/ AttemptFails(r) \/ AttemptTimesOut(r)
  PROVE  OnceInv'
<1> USE DEF IInv, TaskInv, db, redis, broker, ghosts
<1>1. UNCHANGED <<row, queue, installs, restarts, agent, runs, worker>> /\ MishapsKeep
  <2>1. CASE LoadRow(r)
    BY <2>1, MarkFacts DEF LoadRow
  <2>2. CASE AttemptFails(r) \/ AttemptTimesOut(r)
    BY <2>2 DEF AttemptFails, AttemptTimesOut, MishapsKeep
  <2> QED BY <2>1, <2>2
<1>2. /\ \A u \in Task : IsQueued(Install(u))' => IsQueued(Install(u))
      /\ \A e \in Endpoint : restarts[e] <= restarts'[e]
  BY <1>1 DEF IsQueued, TypeOK
<1>3. ASSUME NEW q \in reqs', q \notin reqs, Final(q) PROVE OffTheList(q)' /\ SameResult(q)'
  <2>s. ASSUME q.item = r.item, q.status = r.status, r.live PROVE SameResult(q)'
    BY <1>1, <1>3, <2>s, RequestType
       DEF OnceInv, ClosedInv, Final, SameResult, HasResult, OnTime, MishapsKeep
  <2>1. CASE LoadRow(r)
    <3>1. q = [r EXCEPT !.stage = "loaded", !.seen = StatusOf(r.item)] /\ r.stage = "removed"
      BY <1>3, <2>1 DEF LoadRow, Move
    <3>2. q.item = r.item /\ q.status = r.status /\ q.live = r.live
      BY <3>1, RequestType DEF Request
    <3>3. OffTheList(r)
      BY <1>3, <3>2 DEF OnceInv, ClosedInv, Final
    <3>4. OffTheList(q)'
      BY <1>1, <3>1, <3>2, <3>3 DEF OffTheList, IsQueued, Fresh
    <3> QED BY <1>3, <2>s, <3>2, <3>4 DEF Final
  <2>2. CASE ~LoadRow(r)
    <3>1. r.live /\ (q = Resend(r) \/ q = [r EXCEPT !.live = FALSE])
      BY <1>3, <2>2 DEF AttemptFails, AttemptTimesOut, Move
    <3>2. /\ q.stage = "sent" \/ ~q.live
          /\ q.item = r.item /\ q.status = r.status
      BY <3>1, ResendFacts, RequestType DEF Request
    <3> QED BY <1>3, <2>s, <3>1, <3>2 DEF OffTheList, Final
  <2> QED BY <2>1, <2>2
<1> QED BY <1>1, <1>2, <1>3, MoveOnce

\* The commit of a result finds the task off the list, or comes late.
LEMMA CommitOnce ==
  ASSUME IInv, TypeOK', OnceInv, NEW r \in reqs, CommitReport(r)
  PROVE  OnceInv'
<1> USE DEF IInv, TaskInv, redis, broker
<1> DEFINE t == r.item.task
           T == IF r.live THEN {} ELSE RowsOf(r.item)
<1>1. UNCHANGED <<queue, installs, restarts, agent, runs, worker>> /\ Mark(T, "late")
      /\ r.stage = "loaded"
  BY DEF CommitReport
<1>2. MishapsKeep /\ (~r.live /\ r.item.kind = "install" => ~OnTime(t)')
  BY <1>1, MarkFacts, RequestType DEF RowsOf, Mark, OnTime
<1>w. ASSUME NEW u \in Task, row'[u] # row[u]
      PROVE  u = t /\ r.seen # "none" /\ row'[u] = r.status /\ r.item.kind = "install"
  <2>1. u = t /\ r.seen # "none" /\ row'[u] = r.status
    BY <1>w, RequestType DEF CommitReport, TypeOK
  <2> QED BY <2>1 DEF RequestInv
<1>3. /\ \A u \in Task : IsQueued(Install(u))' => IsQueued(Install(u))
      /\ \A e \in Endpoint : restarts[e] <= restarts'[e]
  BY <1>1 DEF IsQueued, TypeOK
<1>4. ASSUME NEW q \in reqs', q \notin reqs, Final(q) PROVE OffTheList(q)' /\ SameResult(q)'
  <2>1. q = [r EXCEPT !.stage = "replied"]
    BY <1>4 DEF CommitReport, Move
  <2>2. q.item = r.item /\ q.status = r.status /\ q.live = r.live
    BY <2>1, RequestType DEF Request
  <2>3. OffTheList(r) /\ SameResult(r) /\ t \in Task
    BY <1>4, <2>2, RequestType DEF OnceInv, ClosedInv, Final
  <2>4. OffTheList(q)'
    BY <1>1, <2>2, <2>3 DEF OffTheList, IsQueued, Fresh
  <2>5. SameResult(q)'
    BY <1>2, <1>w, <2>2, <2>3 DEF SameResult, HasResult, OnTime, MishapsKeep
  <2> QED BY <2>4, <2>5
<1>5. ASSUME NEW u \in Task, HasResult(u)', row'[u] # row[u]
      PROVE  Settled(u) /\ \A q \in reqs \cap reqs' : q.live => q.item.task # u
  <2>1. u = t /\ r.item.kind = "install" /\ r.live /\ r.status \in Ended
    BY <1>2, <1>5, <1>w DEF HasResult, Reported
  <2>2. r.item = Install(t)
    BY <2>1, EndingHeld
  <2>3. ~IsQueued(Install(t))
    BY <1>1, <2>1, <2>2 DEF OnceInv, ClosedInv, OffTheList, Final
  <2>4. Closing(t)
    BY <2>1, <2>2 DEF RequestInv, Awaited, PhaseOf, Closing
  <2>5. ASSUME NEW q \in reqs \cap reqs', q.live, q.item.task = t PROVE FALSE
    <3>1. q = r
      BY <2>1, <2>5 DEF RequestInv, Awaited, Mine
    <3>2. reqs' = (reqs \ {r}) \cup {[r EXCEPT !.stage = "replied"]}
      BY <2>1 DEF CommitReport, Move
    <3>3. [r EXCEPT !.stage = "replied"].stage = "replied"
      BY RequestType DEF Request
    <3> QED BY <1>1, <2>5, <3>1, <3>2, <3>3
  <2> QED BY <2>1, <2>3, <2>4, <2>5 DEF Settled
<1> QED BY <1>1, <1>2, <1>3, <1>4, <1>5, MoveOnce

LEMMA ExpireOnce ==
  ASSUME IInv, TypeOK', OnceInv, NEW e \in Endpoint, Expire(e)
  PROVE  OnceInv'
<1> USE DEF IInv, TaskInv, db, redis, broker
<1>1. /\ UNCHANGED <<row, installs, restarts, agent, runs, worker, reqs>> /\ MishapsKeep
      /\ queue' = [queue EXCEPT ![e] = <<>>]
  BY MarkFacts DEF Expire
<1>2. \A u \in Task : IsQueued(Install(u))' => IsQueued(Install(u))
  <2>1. \A f \in Endpoint : Elements(queue'[f]) \subseteq Elements(queue[f])
    BY <1>1 DEF TypeOK, Elements
  <2>2. \A u \in Task : Install(u).task.ep \in Endpoint
    BY InstallFacts DEF Task
  <2> QED BY <2>1, <2>2 DEF IsQueued
<1>3. \A f \in Endpoint : restarts[f] <= restarts'[f]
  BY <1>1 DEF TypeOK
<1> QED BY <1>1, <1>2, <1>3, MoveOnce

\* What an agent turns to next, it held before, and is not what it has just ended.
LEMMA TailFacts ==
  ASSUME IInv, NEW e \in Endpoint, agent[e].todo # <<>>, agent' = [agent EXCEPT ![e] = AfterTask(@)],
         NEW t \in Task, t.ep = e, Holding(t)'
  PROVE  Holding(t) /\ ~Closing(t)
<1> USE DEF IInv, TaskInv
<1> DEFINE s == agent[e].todo
<1>1. s \in Seq(Item) /\ Len(s) \in Nat /\ agent'[e] = AfterTask(agent[e])
  BY DEF TypeOK, AgentState
<1>2. Len(s) > 1
  <2> SUFFICES ASSUME Len(s) <= 1 PROVE FALSE
    BY <1>1
  <2>1. agent'[e].todo = <<>>
    BY <1>1, RestTypes DEF AfterTask
  <2> QED BY <2>1 DEF Holding, Elements
<1>3. agent'[e].todo = Tail(s)
  BY <1>1, <1>2 DEF AfterTask
<1>4. PICK k \in DOMAIN Tail(s) : Tail(s)[k] = Install(t)
  BY <1>3 DEF Holding, Elements
<1>5. k + 1 \in DOMAIN s /\ k + 1 # 1 /\ s[k + 1] = Install(t)
  BY <1>1, <1>2, <1>4
<1>6. Holding(t)
  BY <1>5 DEF Holding, Elements
<1>7. s[1] # Install(t)
  BY <1>1, <1>2, <1>5, InstallFacts DEF AgentInv, Distinct
<1>8. Current(e) = s[1]
  BY DEF Current
<1> QED BY <1>6, <1>7, <1>8 DEF Closing

LEMMA ReceiveOnce ==
  ASSUME IInv, TypeOK', OnceInv, NEW r \in reqs, Receive(r)
  PROVE  OnceInv'
<1> USE DEF IInv, TaskInv, db, redis, broker, ghosts
<1> DEFINE e == r.item.task.ep
<1>1. /\ UNCHANGED <<row, queue, installs, restarts, runs, worker, mishap>>
      /\ reqs' = reqs \ {r} /\ r.live /\ r.stage = "replied"
  BY DEF Receive
<1>2. MishapsKeep /\ \A f \in Endpoint : restarts[f] <= restarts'[f]
  BY <1>1 DEF MishapsKeep, TypeOK
<1>3. CASE r.status \in Ended
  <2>1. e \in Endpoint /\ agent' = [agent EXCEPT ![e] = AfterTask(@)]
    BY <1>3, RequestType DEF Receive
  <2>2. agent[e].phase = "closing" /\ r.item = Current(e)
    BY <1>1, <1>3 DEF RequestInv, Awaited, PhaseOf
  <2>3. agent[e].todo # <<>>
    BY <2>1, <2>2 DEF TypeOK, AgentState
  <2>4. agent'[e].phase \in {"idle", "next"} /\ \A f \in Endpoint : f # e => agent'[f] = agent[f]
    BY <2>1 DEF TypeOK, AfterTask, Sleeping
  <2>5. ASSUME NEW t \in Task, t.ep = e, Holding(t)' PROVE Holding(t) /\ ~Closing(t)
    BY <2>1, <2>3, <2>5, TailFacts
  <2>6. ASSUME NEW t \in Task, t.ep = e, IsQueued(Install(t)), Closing(t) PROVE Fresh(t)'
    <3>1. r.item = Install(t) /\ r.item.kind = "install" /\ r.item.task = t
      BY <2>2, <2>6, InstallFacts DEF Closing
    <3>2. Fresh(t)
      BY <1>1, <1>3, <2>6, <3>1 DEF OnceInv, ClosedInv, OffTheList, Final
    <3> QED BY <1>1, <3>2 DEF Fresh
  <2>7. \A q \in reqs' : q.live => q \in reqs
    BY <1>1
  <2> QED BY <1>1, <1>2, <2>1, <2>4, <2>5, <2>6, <2>7, TurnOnce
<1>4. CASE r.status \notin Ended
  <2>1. UNCHANGED agent
    BY <1>4 DEF Receive
  <2>2. \A t \in Task : IsQueued(Install(t))' => IsQueued(Install(t))
    BY <1>1 DEF IsQueued
  <2> QED BY <1>1, <1>2, <2>1, <2>2, MoveOnce
<1> QED BY <1>3, <1>4

LEMMA ReportOnce ==
  ASSUME IInv, TypeOK', OnceInv, ReportStep
  PROVE  OnceInv'
BY RefuseOnce, DequeueOnce, RequestOnce, CommitOnce, ReceiveOnce, ExpireOnce DEF ReportStep

\* A fetched task is on the list, and nobody is closing it.
LEMMA FetchOnce ==
  ASSUME IInv, TypeOK', OnceInv, NEW e \in Endpoint, Fetch(e)
  PROVE  OnceInv'
<1> USE DEF IInv, db, redis, broker, ghosts
<1>1. /\ UNCHANGED <<row, queue, installs, restarts, runs, worker, mishap, reqs>>
      /\ agent[e].phase = "idle"
      /\ agent'[e].phase = "next" /\ agent'[e].todo = LRange(queue[e], FetchLimit)
      /\ \A f \in Endpoint : f # e => agent'[f] = agent[f]
  BY DEF Fetch, TypeOK
<1>2. MishapsKeep /\ \A f \in Endpoint : restarts[f] <= restarts'[f]
  BY <1>1 DEF MishapsKeep, TypeOK
<1>3. \A t \in Task : t.ep = e => ~Closing(t)
  BY <1>1 DEF Closing
<1>4. ASSUME NEW t \in Task, t.ep = e, Holding(t)' PROVE IsQueued(Install(t))
  <2>1. Elements(LRange(queue[e], FetchLimit)) \subseteq Elements(queue[e])
    BY LRangeFacts, RolloutAssumption DEF TypeOK, Elements
  <2> QED BY <1>1, <1>4, <2>1, InstallFacts DEF Holding, IsQueued
<1> QED BY <1>1, <1>2, <1>3, <1>4, TurnOnce

\* A restart allows another installation.
LEMMA DeathOnce ==
  ASSUME IInv, TypeOK', OnceInv, NEW e \in Endpoint, AgentDies(e) \/ AgentDiesLate(e)
  PROVE  OnceInv'
<1> USE DEF IInv, db, redis, broker
<1>1. /\ UNCHANGED <<row, queue, installs, runs, worker>> /\ MishapsKeep
      /\ agent' = [agent EXCEPT ![e] = Sleeping] /\ restarts' = [restarts EXCEPT ![e] = @ + 1]
  <2>1. CASE AgentDies(e)
    BY <2>1, MarkFacts DEF AgentDies, Restart
  <2>2. CASE AgentDiesLate(e)
    BY <2>2 DEF AgentDiesLate, Restart, MishapsKeep
  <2> QED BY <2>1, <2>2
<1>2. /\ agent'[e].phase = "idle" /\ agent'[e].todo = <<>>
      /\ \A f \in Endpoint : f # e => agent'[f] = agent[f]
  BY <1>1, RestTypes DEF TypeOK, Sleeping
<1>3. /\ \A f \in Endpoint : restarts[f] <= restarts'[f]
      /\ restarts'[e] = restarts[e] + 1
  BY <1>1 DEF TypeOK
<1>4. \A q \in reqs' : q.live => q \in reqs
  <2>1. CASE AgentDies(e)
    BY <2>1 DEF AgentDies
  <2>2. ASSUME AgentDiesLate(e), NEW q \in reqs', q.live, q \notin reqs PROVE FALSE
    <3>1. PICK r \in Mine(e) : q = [r EXCEPT !.live = FALSE]
      BY <2>2 DEF AgentDiesLate
    <3> QED BY <2>2, <3>1, RequestType DEF Request, Mine
  <2> QED BY <2>1, <2>2
<1>5. \A t \in Task : t.ep = e => ~Holding(t)'
  BY <1>2 DEF Holding, Elements
<1>6. ASSUME NEW t \in Task, t.ep = e PROVE Fresh(t)'
  <2>1. installs[t] <= 1 + restarts[t.ep] /\ installs[t] \in Nat /\ restarts[t.ep] \in Nat
    BY CountedFacts DEF OnceInv, InstallsBounded
  <2> QED BY <1>1, <1>3, <1>6, <2>1 DEF Fresh
<1> QED BY <1>1, <1>2, <1>3, <1>4, <1>5, <1>6, TurnOnce

LEMMA AgentOnce ==
  ASSUME IInv, TypeOK', OnceInv, AgentStep
  PROVE  OnceInv'
<1> USE DEF db, redis, broker, ghosts
<1>m. ASSUME NEW e \in Endpoint, agent[e].phase = "next" \/ ~Waiting(e) PROVE Mine(e) = {}
  BY <1>m DEF IInv, TaskInv, RequestInv, Awaited, PhaseOf, Mine, Waiting
<1>p. /\ PhaseOf("downloading") = "downloading" /\ PhaseOf("installing") = "installing"
      /\ PhaseOf("success") = "closing" /\ PhaseOf("failed") = "closing"
      /\ PhaseOf("rolled_back") = "closing"
      /\ "success" \in Ended /\ "failed" \in Ended
      /\ "downloading" \notin Ended /\ "installing" \notin Ended
  BY DEF PhaseOf, Ended
<1>k. ASSUME NEW e \in Endpoint, agent[e].phase \in {"downloading", "installing"}
      PROVE  Current(e).kind = "install"
  BY <1>k DEF OnceInv, PhaseInv
<1>1. ASSUME NEW e \in Endpoint, StartInstall(e) PROVE OnceInv'
  BY <1>1, <1>m, <1>p, SendOnce DEF StartInstall, AtTask
<1>2. ASSUME NEW e \in Endpoint, FinishDownload(e) PROVE OnceInv'
  BY <1>2, <1>k, <1>m, <1>p, SendOnce DEF FinishDownload
<1>3. ASSUME NEW e \in Endpoint, RunInstaller(e) PROVE OnceInv'
  <2>1. agent[e].snap \in BOOLEAN
    BY DEF IInv, TypeOK, AgentState
  <2>2. PICK s \in {"success", "failed"}, b \in BOOLEAN : Send(e, s, b, PhaseOf(s))
    BY <1>3, <1>p, <2>1 DEF RunInstaller
  <2> QED BY <1>3, <1>k, <1>m, <1>p, <2>2, SendOnce DEF RunInstaller
<1>4. ASSUME NEW e \in Endpoint, RunRollback(e) PROVE OnceInv'
  BY <1>4, <1>m, <1>p, SendOnce DEF RunRollback, AtTask
<1> QED BY <1>1, <1>2, <1>3, <1>4, FetchOnce, DeathOnce DEF AgentStep

LEMMA OnceInit == Init => OnceInv
<1> SUFFICES ASSUME Init PROVE OnceInv
  OBVIOUS
<1>1. \A t \in Task : t.ep \in Endpoint /\ ~IsQueued(Install(t)) /\ ~Holding(t)
  BY RestTypes, InstallFacts DEF Init, Task, IsQueued, Holding, Elements
<1> QED BY <1>1 DEF Init, OnceInv, UnbornInv, FreshInv, PhaseInv, ClosedInv, ResultInv,
                    InstallsBounded, HasResult, Reported, Ended, Sleeping, Task

\* OnceInv is inductive beside the invariant that follows the tasks.
LEMMA OnceStep == IInv /\ OnceInv /\ [Next]_vars => IInv' /\ OnceInv'
<1> SUFFICES ASSUME IInv, OnceInv, [Next]_vars PROVE IInv' /\ OnceInv'
  OBVIOUS
<1>1. IInv' /\ TypeOK'
  BY TaskStep DEF IInv
<1>2. CASE Next
  BY <1>1, <1>2, ApiOnce, WorkerOnce, ReportOnce, AgentOnce DEF Next
<1>3. CASE UNCHANGED vars
  <2>1. \A t \in Task : Unborn(t)' => Unborn(t)
    BY <1>3 DEF vars, Unborn, Scheduling, RunTask
  <2> QED BY <1>1, <1>3, <2>1, QuietOnce DEF vars, IsQueued
<1> QED BY <1>2, <1>3

\* The installer runs once per task, and once more at most for every restart of
\* the agent and every refusal it took for an answer, for any number of
\* endpoints, deployments, jobs and faults.
THEOREM InstalledOnce == Spec => []InstallsBounded
<1>1. Init => IInv /\ OnceInv
  BY TypeInit, TaskInit, OnceInit DEF IInv
<1>2. OnceInv => InstallsBounded
  BY DEF OnceInv
<1> QED BY <1>1, <1>2, OnceStep, PTL DEF Spec

LEMMA MishapsStay ==
  ASSUME IInv, [Next]_vars
  PROVE  MishapsKeep
<1> USE DEF db, redis, broker, ghosts
<1>1. UNCHANGED mishap => MishapsKeep
  BY DEF MishapsKeep
<1>2. (\E T, k : Mark(T, k)) => MishapsKeep
  BY MarkFacts DEF IInv
<1>3. ApiStep \/ WorkerStep \/ UNCHANGED vars => UNCHANGED mishap
  BY DEF vars, ApiStep, CreateCommit, CancelLoad, RollbackLoad, CreateEnqueue, CancelSelect,
     CancelCommit, RollbackPush, RollbackCommit, ApiFails, Decommission, Quarantine,
     WorkerStep, ScheduleIgnored, ScheduleDefer, Redeliver, ScheduleLoad, FinalizeLoad,
     ScheduleStart, SchedulePush, ScheduleCommit, ScheduleRetry, FinalizeCount,
     FinalizeCommit, WorkerLost
<1>4. ReportStep => UNCHANGED mishap \/ \E T, k : Mark(T, k)
  BY DEF ReportStep, Refuse, Dequeue, LoadRow, CommitReport, AttemptFails, AttemptTimesOut,
     Receive, Expire
<1>5. AgentStep => UNCHANGED mishap \/ \E T, k : Mark(T, k)
  BY DEF AgentStep, Fetch, StartInstall, FinishDownload, RunInstaller, RunRollback,
     AgentDies, AgentDiesLate
<1> QED BY <1>1, <1>2, <1>3, <1>4, <1>5 DEF Next

\* What an agent reported is the last word on a row, but for a cancellation that
\* had chosen the row before and a report that comes late.
LEMMA LastWord ==
  ASSUME IInv, OnceInv, [Next]_vars, NEW t \in Task, HasResult(t), OnTime(t)'
  PROVE  row'[t] \in {row[t], "skipped"}
<1> USE DEF IInv, TaskInv, db, redis, broker, ghosts
<1> SUFFICES ASSUME row'[t] # row[t] PROVE row'[t] = "skipped"
  OBVIOUS
<1>1. \/ \E o \in ops : CancelCommit(o)
      \/ \E w \in Worker : ScheduleCommit(w)
      \/ \E r \in reqs : CommitReport(r)
  BY DEF vars, Next, ApiStep, CreateCommit, CancelLoad, RollbackLoad, CreateEnqueue,
     CancelSelect, RollbackPush, RollbackCommit, ApiFails, Decommission, Quarantine,
     WorkerStep, ScheduleIgnored, ScheduleDefer, Redeliver, ScheduleLoad, FinalizeLoad,
     ScheduleStart, SchedulePush, ScheduleRetry, FinalizeCount, FinalizeCommit, WorkerLost,
     ReportStep, Refuse, Dequeue, LoadRow, AttemptFails, AttemptTimesOut, Receive, Expire,
     AgentStep, Fetch, StartInstall, FinishDownload, RunInstaller, RunRollback, AgentDies,
     AgentDiesLate
<1>2. ASSUME NEW o \in ops, CancelCommit(o) PROVE row'[t] = "skipped"
  BY <1>2 DEF CancelCommit
<1>3. ASSUME NEW w \in Worker, ScheduleCommit(w) PROVE FALSE
  <2>1. t \in NewRows(worker[w]) /\ Scheduling(w)
    BY <1>3 DEF ScheduleCommit, Scheduling
  <2>2. t = RunTask(w, t.ep) /\ t.ep \in Endpoint
    BY <2>1 DEF NewRows, RunTask, TaskOf, Task
  <2> QED BY <2>1, <2>2 DEF ScheduleInv, HasResult, Reported, Ended
<1>4. ASSUME NEW r \in reqs, CommitReport(r) PROVE FALSE
  <2>1. t = r.item.task /\ r.seen # "none" /\ row'[t] = r.status
    BY <1>4 DEF CommitReport, TypeOK
  <2>2. r.item.kind = "install"
    BY <2>1 DEF RequestInv
  <2>3. r.live
    BY <1>4, <2>1, <2>2 DEF CommitReport, Mark, RowsOf, OnTime
  <2>4. r.item = Install(t) /\ Holding(t)
    <3>1. r.item = Install(r.item.task) /\ Holding(r.item.task)
      BY <2>2, <2>3, EndingHeld
    <3> QED BY <2>1, <3>1
  <2>5. Closing(t)
    BY <2>4 DEF OnceInv, ResultInv, Settled
  <2>6. Awaited(r) /\ r.item.task.ep = t.ep /\ agent[t.ep].phase = "closing"
    BY <2>1, <2>3, <2>5 DEF RequestInv, Closing
  <2>7. r.status \in Ended
    BY <2>6 DEF RequestInv, Awaited, PhaseOf
  <2> QED BY <2>1, <2>2, <2>3, <2>7 DEF OnceInv, ClosedInv, SameResult, Final
<1> QED BY <1>1, <1>2, <1>3, <1>4

\* A row that says "success" or "failed" says so for good, unless it is skipped
\* after all or a report comes late: a report of progress comes only from an agent
\* that has not ended the task, an agent that sends its last report again says the
\* same, and a schedule job inserts rows of its own.
THEOREM ResultsStay == Spec => ResultStays
<1>1. IInv /\ OnceInv /\ [Next]_vars =>
        [\A t \in Task : row[t] \in {"success", "failed"} /\ "late" \notin mishap'[t]
                           => row'[t] \in {row[t], "skipped"}]_vars
  <2> SUFFICES ASSUME IInv, OnceInv, [Next]_vars, NEW t \in Task,
                      row[t] \in {"success", "failed"}, "late" \notin mishap'[t]
               PROVE  row'[t] \in {row[t], "skipped"}
    OBVIOUS
  <2>1. MishapsKeep
    BY MishapsStay
  <2>2. HasResult(t) /\ OnTime(t)'
    BY <2>1 DEF HasResult, Reported, Ended, OnTime, MishapsKeep
  <2> QED BY <2>2, LastWord
<1>2. Init => IInv /\ OnceInv
  BY TypeInit, TaskInit, OnceInit DEF IInv
<1> QED BY <1>1, <1>2, OnceStep, PTL DEF Spec, ResultStays

-----------------------------------------------------------------------------
(* A deployment ends when its rows do, and Rollout implements Lifecycle.      *)
(* Both are about a rollout that nothing disturbs: no operator cancels it,    *)
(* the broker delivers a job once, and no report takes effect after its agent *)
(* has given it up.  Everything else may happen: workers, API processes and   *)
(* agents die, jobs are retried, reports repeated, lists expire and agents    *)
(* are refused.  Each of the three disturbances makes counters or verdicts    *)
(* wrong, as the runs cancel and redelivery show for two of them.  A rollback *)
(* does not, but it is no step of Lifecycle.                                  *)

Disturbance == {"cancel", "redeliver", "late"}
Steady == \A b \in Budgets : \A f \in Disturbance : b[f] = 0
Kept   == \A b \in Budgets : b["rollback"] = 0

\* What the disturbances would leave behind
CalmInv ==
  /\ \A f \in Disturbance : budget[f] = 0
  /\ \A o \in ops : o.kind \in {"create", "rollback"}
  /\ \A r \in reqs : r.live /\ r.status # "skipped"
  /\ \A t \in Task : OnTime(t) /\ row[t] # "skipped"

Job(w, d)        == Scheduling(w) /\ worker[w].dep = d
Finalizing(w, d) == worker[w].pc \in {"count", "finish"} /\ worker[w].dep = d
Calls(d)         == {o \in ops : o.kind = "create" /\ o.dep = d}
RowsIn(d)        == {t \in Task : t.dep = d /\ row[t] # "none"}
Idle(d)          == \A t \in Task : t.dep = d => row[t] \notin Active

\* A rollback writes its status over any other, and nothing else.
Waits(d)   == dep[d].status \in {"pending", "rolled_back"}
Upto(x, y) == /\ x.total = y.total /\ x.succ = y.succ /\ x.fail = y.fail
              /\ x.status \in {y.status, "rolled_back"}

\* One schedule job works for a deployment, be it with the API, the broker or a
\* worker, and only as long as the deployment waits for it.
Starting(d) ==
  \/ Calls(d) # {} \/ \E k \in 0..MaxRetries : sched[<<d, k>>] > 0
  \/ \E w \in Worker : Job(w, d)
OneJob(d) ==
  /\ \A o, p \in Calls(d) : o = p
  /\ \A v, w \in Worker : Job(v, d) /\ Job(w, d) => v = w
  /\ \A j, k \in 0..MaxRetries :
       sched[<<d, k>>] <= 1 /\ (sched[<<d, j>>] > 0 /\ sched[<<d, k>>] > 0 => j = k)
  /\ Calls(d) # {} => Waits(d) /\ \A k \in 0..MaxRetries : sched[<<d, k>>] = 0
  /\ \A k \in 0..MaxRetries : sched[<<d, k>>] > 0 => Waits(d)
  /\ \A w \in Worker : Job(w, d) =>
       /\ Waits(d) /\ Calls(d) = {}
       /\ \A k \in 0..MaxRetries : sched[<<d, k>>] = 0

\* Until that job commits, the deployment has no rows and nothing to finalize.
Unstarted(d) ==
  dep[d].status \in {"absent", "pending"} \/ Starting(d) =>
    /\ RowsIn(d) = {} /\ final[d] = 0 /\ \A w \in Worker : ~Finalizing(w, d)
    /\ dep[d].total = 0 /\ dep[d].succ = 0 /\ dep[d].fail = 0

\* The job writes the deployment it has read.
Planned(d) ==
  \A w \in Worker : Job(w, d) =>
    /\ worker[w].seen.status = "pending" /\ Upto(dep[d], worker[w].seen)
    /\ worker[w].new = Scheduled(worker[w].seen, worker[w].todo \cup worker[w].pushed)

\* The rows are those of one run, and counted in the deployment.
OneRun(d)  == \A t, u \in RowsIn(d) : t.run = u.run
Counted(d) == dep[d].total = Cardinality(RowsIn(d))

\* A deployment that is over says of its rows what they say.
Verdict(d)  == IF Count(d, "failed") = 0 THEN "completed" ELSE "failed"
Truth(d, x) ==
  /\ x.succ = Count(d, "success") + Count(d, "rolled_back") /\ x.fail = Count(d, "failed")
  /\ x.status \in {Verdict(d), "rolled_back"}
Done(d) ==
  /\ dep[d].status # "cancelled"
  /\ dep[d].status \in {"completed", "failed"} => Idle(d) /\ Truth(d, dep[d])

\* A finalize job has read the deployment as it is, or another one has finished it
\* since, and what it will write is the outcome.
Finished(d, x, old) == Idle(d) /\ Truth(d, x) /\ x.total = old.total
Finishing(d) ==
  \A w \in Worker : Finalizing(w, d) =>
    /\ Upto(dep[d], worker[w].seen) \/ Finished(d, dep[d], worker[w].seen)
    /\ worker[w].pc = "finish" => /\ Finished(d, worker[w].new, worker[w].seen)
                                  /\ worker[w].new.status = Verdict(d)

Orderly(d) ==
  OneJob(d) /\ Unstarted(d) /\ Planned(d) /\ OneRun(d) /\ Counted(d) /\ Done(d) /\ Finishing(d)
LifeInv == CalmInv /\ \A d \in Deployment : Orderly(d)

\* What a deployment's part of the state is, without the steps of its job
SameRows(d)  == \A t \in Task : t.dep = d => row'[t] = row[t]
SameTable(d) == dep'[d] = dep[d] /\ final'[d] = final[d] /\ SameRows(d)

\* A deployment is counted by its rows alone.
LEMMA RowsFrame ==
  ASSUME NEW d, SameRows(d)
  PROVE  /\ RowsIn(d)' = RowsIn(d) /\ Idle(d)' = Idle(d)
         /\ \A s : Count(d, s)' = Count(d, s)
         /\ Verdict(d)' = Verdict(d)
<1>1. RowsIn(d)' = RowsIn(d) /\ Idle(d)' = Idle(d)
  BY DEF SameRows, RowsIn, Idle
<1>2. ASSUME NEW s PROVE Count(d, s)' = Count(d, s)
  <2>1. {t \in Task : t.dep = d /\ row'[t] = s} = {t \in Task : t.dep = d /\ row[t] = s}
    BY DEF SameRows
  <2> QED BY <2>1 DEF Count
<1> QED BY <1>1, <1>2 DEF Verdict

\* A flush writes a column if its transaction has changed it.
LEMMA FlushFacts ==
  ASSUME NEW cur \in Dep, NEW old \in Dep, NEW new \in Dep
  PROVE  /\ Flush(cur, old, new).status = IF new.status # old.status THEN new.status ELSE cur.status
         /\ Flush(cur, old, new).total = IF new.total # old.total THEN new.total ELSE cur.total
         /\ Flush(cur, old, new).succ = IF new.succ # old.succ THEN new.succ ELSE cur.succ
         /\ Flush(cur, old, new).fail = IF new.fail # old.fail THEN new.fail ELSE cur.fail
         /\ Flush(cur, old, new) \in Dep
<1>1. DOMAIN cur = {"status", "total", "succ", "fail"}
  BY DEF Dep
<1>2. Flush(cur, old, new) =
        [c \in {"status", "total", "succ", "fail"} |-> IF new[c] # old[c] THEN new[c] ELSE cur[c]]
  BY <1>1 DEF Flush
<1>3. Flush(cur, old, new) =
        [status |-> IF new.status # old.status THEN new.status ELSE cur.status,
         total  |-> IF new.total # old.total THEN new.total ELSE cur.total,
         succ   |-> IF new.succ # old.succ THEN new.succ ELSE cur.succ,
         fail   |-> IF new.fail # old.fail THEN new.fail ELSE cur.fail]
  BY <1>2
<1> QED BY <1>3 DEF Dep

\* The outcome is what the rows say, and nothing else.
LEMMA OutcomeFacts ==
  ASSUME NEW d, NEW x \in Dep
  PROVE  /\ Outcome(d, x) \in Dep /\ Outcome(d, x).total = x.total
         /\ Truth(d, Outcome(d, x)) /\ Outcome(d, x).status = Verdict(d)
<1>1. Count(d, "success") \in Nat /\ Count(d, "rolled_back") \in Nat /\ Count(d, "failed") \in Nat
  BY CountType
<1>2. PICK s : s = Count(d, "success") + Count(d, "rolled_back")
  OBVIOUS
<1>3. PICK f : f = Count(d, "failed")
  OBVIOUS
<1>4. PICK o : o = IF f = 0 THEN "completed" ELSE "failed"
  OBVIOUS
<1>5. s \in Nat /\ f \in Nat /\ o \in DepStatus
  BY <1>1, <1>2, <1>3, <1>4 DEF DepStatus, Open, Closed
<1>6. Outcome(d, x) = [x EXCEPT !.succ = s, !.fail = f, !.status = o]
  BY <1>2, <1>3, <1>4 DEF Outcome
<1>7. /\ Outcome(d, x) \in Dep /\ Outcome(d, x).total = x.total
      /\ Outcome(d, x).succ = s /\ Outcome(d, x).fail = f /\ Outcome(d, x).status = o
  BY <1>5, <1>6 DEF Dep
<1> QED BY <1>2, <1>3, <1>4, <1>7 DEF Truth, Verdict

\* The job of a deployment ends, or goes on: it does not split.
LEMMA JobGoesOn ==
  ASSUME TypeOK, TypeOK', NEW d \in Deployment, OneJob(d),
         Calls(d)' \subseteq Calls(d),
         \A w \in Worker : Job(w, d)' => Job(w, d),
         \A k \in 0..MaxRetries : sched'[<<d, k>>] <= sched[<<d, k>>],
         Waits(d) => Waits(d)'
  PROVE  OneJob(d)' /\ (Starting(d)' => Starting(d))
<1>1. \A k \in 0..MaxRetries : sched[<<d, k>>] \in Nat /\ sched'[<<d, k>>] \in Nat
  BY DEF TypeOK
<1>2. ASSUME NEW k \in 0..MaxRetries
      PROVE  /\ sched'[<<d, k>>] > 0 => sched[<<d, k>>] > 0
             /\ sched[<<d, k>>] = 0 => sched'[<<d, k>>] = 0
             /\ sched[<<d, k>>] <= 1 => sched'[<<d, k>>] <= 1
  BY <1>1
<1>3. /\ \A o, p \in Calls(d)' : o = p
      /\ \A v, w \in Worker : Job(v, d)' /\ Job(w, d)' => v = w
      /\ \A j, k \in 0..MaxRetries :
           sched'[<<d, k>>] <= 1 /\ (sched'[<<d, j>>] > 0 /\ sched'[<<d, k>>] > 0 => j = k)
  BY <1>2 DEF OneJob
<1>4. Calls(d)' # {} => Waits(d)' /\ \A k \in 0..MaxRetries : sched'[<<d, k>>] = 0
  BY <1>2 DEF OneJob
<1>5. \A k \in 0..MaxRetries : sched'[<<d, k>>] > 0 => Waits(d)'
  BY <1>2 DEF OneJob
<1>6. \A w \in Worker : Job(w, d)' =>
         /\ Waits(d)' /\ Calls(d)' = {}
         /\ \A k \in 0..MaxRetries : sched'[<<d, k>>] = 0
  BY <1>2 DEF OneJob
<1>7. Starting(d)' => Starting(d)
  BY <1>2 DEF Starting
<1> QED BY <1>3, <1>4, <1>5, <1>6, <1>7 DEF OneJob

\* A deployment that has rows, or is being finalized, has no job left.
LEMMA NoJobLeft ==
  ASSUME TypeOK, NEW d \in Deployment, ~Starting(d)
  PROVE  /\ Calls(d) = {} /\ \A k \in 0..MaxRetries : sched[<<d, k>>] = 0
         /\ \A w \in Worker : ~Job(w, d)
<1>1. \A k \in 0..MaxRetries : sched[<<d, k>>] \in Nat /\ ~(sched[<<d, k>>] > 0)
  BY DEF Starting, TypeOK
<1> QED BY <1>1 DEF Starting

LEMMA StillNoJob ==
  ASSUME TypeOK, TypeOK', NEW d \in Deployment, ~Starting(d), Calls(d)' \subseteq Calls(d),
         \A k \in 0..MaxRetries : sched'[<<d, k>>] = sched[<<d, k>>],
         \A w \in Worker : Job(w, d)' => Job(w, d)
  PROVE  ~Starting(d)' /\ OneJob(d)' /\ Planned(d)'
<1>1. /\ Calls(d)' = {} /\ \A k \in 0..MaxRetries : sched'[<<d, k>>] = 0
      /\ \A w \in Worker : ~Job(w, d)'
  BY NoJobLeft
<1> QED BY <1>1 DEF Starting, OneJob, Planned

\* A step of the job, or of another deployment, does not disturb what the rest of
\* the deployment says.
LEMMA TableFrame ==
  ASSUME NEW d \in Deployment, Orderly(d), SameTable(d), Starting(d)' => Starting(d),
         \A w \in Worker : Finalizing(w, d)' => worker'[w] = worker[w]
  PROVE  Unstarted(d)' /\ OneRun(d)' /\ Counted(d)' /\ Done(d)' /\ Finishing(d)'
<1>1. /\ RowsIn(d)' = RowsIn(d) /\ Idle(d)' = Idle(d) /\ \A s : Count(d, s)' = Count(d, s)
      /\ dep'[d] = dep[d] /\ final'[d] = final[d] /\ Verdict(d)' = Verdict(d)
  BY RowsFrame DEF SameTable
<1>2. ASSUME NEW w \in Worker, Finalizing(w, d)' PROVE Finalizing(w, d) /\ worker'[w] = worker[w]
  BY <1>2 DEF Finalizing
<1>3. Unstarted(d)'
  BY <1>1, <1>2 DEF Orderly, Unstarted
<1>4. OneRun(d)' /\ Counted(d)'
  BY <1>1 DEF Orderly, OneRun, Counted
<1>5. Done(d)'
  BY <1>1 DEF Orderly, Done, Truth
<1>6. Finishing(d)'
  BY <1>1, <1>2 DEF Orderly, Finishing, Finished, Truth
<1> QED BY <1>3, <1>4, <1>5, <1>6

LEMMA PlanFrame ==
  ASSUME NEW d \in Deployment, Planned(d), dep'[d] = dep[d],
         \A w \in Worker : Job(w, d)' =>
           /\ Job(w, d) /\ worker'[w].seen = worker[w].seen /\ worker'[w].new = worker[w].new
           /\ worker'[w].todo \cup worker'[w].pushed = worker[w].todo \cup worker[w].pushed
  PROVE  Planned(d)'
BY DEF Planned

\* A step that concerns another deployment
Away(w, d)   == worker[w].pc = "idle" \/ worker[w].dep # d
SameJobs(d) ==
  /\ Calls(d)' \subseteq Calls(d)
  /\ \A k \in 0..MaxRetries :
       sched'[<<d, k>>] = sched[<<d, k>>] \/ sched'[<<d, k>>] < sched[<<d, k>>]
  /\ \A w \in Worker : worker'[w] = worker[w] \/ Away(w, d)'

LEMMA ElsewhereOrderly ==
  ASSUME TypeOK, TypeOK', NEW d \in Deployment, Orderly(d), SameTable(d), SameJobs(d)
  PROVE  Orderly(d)'
<1>1. ASSUME NEW w \in Worker, Job(w, d)' \/ Finalizing(w, d)' PROVE worker'[w] = worker[w]
  BY <1>1 DEF SameJobs, Away, Job, Scheduling, Finalizing
<1>2. ASSUME NEW w \in Worker, Job(w, d)' PROVE Job(w, d) /\ worker'[w] = worker[w]
  BY <1>1, <1>2 DEF Job, Scheduling
<1>3. OneJob(d)' /\ (Starting(d)' => Starting(d))
  <2>1. \A k \in 0..MaxRetries : sched[<<d, k>>] \in Nat /\ sched'[<<d, k>>] \in Nat
    BY DEF TypeOK
  <2>2. \A k \in 0..MaxRetries : sched'[<<d, k>>] <= sched[<<d, k>>]
    BY <2>1 DEF SameJobs
  <2> QED BY <1>2, <2>2, JobGoesOn DEF Orderly, SameTable, SameJobs, Waits
<1>4. Planned(d)'
  BY <1>2, PlanFrame DEF Orderly, SameTable
<1>5. Unstarted(d)' /\ OneRun(d)' /\ Counted(d)' /\ Done(d)' /\ Finishing(d)'
  BY <1>1, <1>3, TableFrame
<1> QED BY <1>3, <1>4, <1>5 DEF Orderly

-----------------------------------------------------------------------------
(* The rollout stays calm                                                     *)

LEMMA CalmBudget ==
  ASSUME TypeOK, CalmInv, UNCHANGED budget \/ \E f : Spend(f)
  PROVE  \A f \in Disturbance : budget'[f] = 0
<1>1. CASE UNCHANGED budget
  BY <1>1 DEF CalmInv
<1>2. ASSUME NEW g, Spend(g) PROVE \A f \in Disturbance : budget'[f] = 0
  BY <1>2 DEF CalmInv, Spend, TypeOK, Disturbance, Fault
<1> QED BY <1>1, <1>2

LEMMA Undisturbed ==
  ASSUME CalmInv
  PROVE  /\ \A d : ~CancelLoad(d) /\ ~Redeliver(d)
         /\ \A o \in ops : ~CancelSelect(o) /\ ~CancelCommit(o)
         /\ \A r : ~AttemptTimesOut(r)
         /\ \A e : ~AgentDiesLate(e)
<1>1. /\ budget["cancel"] = 0 /\ budget["redeliver"] = 0 /\ budget["late"] = 0
      /\ \A o \in ops : o.kind # "cancel"
  BY DEF CalmInv, Disturbance
<1>2. /\ \A d : ~CancelLoad(d) /\ ~Redeliver(d)
      /\ \A r : ~AttemptTimesOut(r)
      /\ \A e : ~AgentDiesLate(e)
  BY <1>1 DEF CancelLoad, Redeliver, AttemptTimesOut, AgentDiesLate, Spend
<1>3. \A o \in ops : ~CancelSelect(o) /\ ~CancelCommit(o)
  BY <1>1 DEF CancelSelect, CancelCommit
<1> QED BY <1>2, <1>3

LEMMA CalmApi ==
  ASSUME TypeOK, CalmInv, ApiStep
  PROVE  CalmInv'
<1> USE DEF db, redis, broker, ghosts
<1>1. UNCHANGED <<row, reqs, mishap>> /\ (UNCHANGED budget \/ \E f : Spend(f))
  BY Undisturbed DEF ApiStep, CreateCommit, CreateEnqueue, ApiFails, RollbackLoad, RollbackPush,
                     RollbackCommit, Decommission, Quarantine
<1>2. \A p \in ops' : p.kind \in {"create", "rollback"}
  <2>1. CASE ops' \subseteq ops
    BY <2>1 DEF CalmInv
  <2>2. ASSUME NEW k \in {"create", "rollback"}, NEW d, NEW T, NEW n, ops' = ops \cup {NewOp(k, d, T, n)}
        PROVE  \A p \in ops' : p.kind \in {"create", "rollback"}
    BY <2>2 DEF CalmInv, NewOp
  <2>3. ASSUME NEW o \in ops, RollbackPush(o) PROVE \A p \in ops' : p.kind \in {"create", "rollback"}
    <3>1. PICK t \in o.rows : ops' = (ops \ {o}) \cup {[o EXCEPT !.rows = @ \ {t}]}
      BY <2>3 DEF RollbackPush
    <3>2. [o EXCEPT !.rows = @ \ {t}].kind = o.kind
      BY DEF TypeOK, Op
    <3> QED BY <3>1, <3>2 DEF CalmInv
  <2>4. \/ ops' \subseteq ops
        \/ \E k \in {"create", "rollback"}, d \in Deployment : \E T, n : ops' = ops \cup {NewOp(k, d, T, n)}
        \/ \E o \in ops : RollbackPush(o)
    BY Undisturbed DEF ApiStep, CreateCommit, CreateEnqueue, ApiFails, RollbackLoad,
                       RollbackCommit, Decommission, Quarantine
  <2> QED BY <2>1, <2>2, <2>3, <2>4
<1> QED BY <1>1, <1>2, CalmBudget DEF CalmInv, OnTime

LEMMA CalmWorker ==
  ASSUME TypeOK, CalmInv, WorkerStep
  PROVE  CalmInv'
<1> USE DEF db, redis, broker, ghosts
<1>1. UNCHANGED <<ops, reqs, mishap>> /\ (UNCHANGED budget \/ \E f : Spend(f))
  BY DEF WorkerStep, ScheduleIgnored, ScheduleDefer, Redeliver, ScheduleLoad, FinalizeLoad,
         ScheduleStart, SchedulePush, ScheduleCommit, ScheduleRetry, FinalizeCount,
         FinalizeCommit, WorkerLost
<1>2. UNCHANGED row \/ \E w \in Worker : ScheduleCommit(w)
  BY DEF WorkerStep, ScheduleIgnored, ScheduleDefer, Redeliver, ScheduleLoad, FinalizeLoad,
         ScheduleStart, SchedulePush, ScheduleRetry, FinalizeCount, FinalizeCommit, WorkerLost
<1>3. \A t \in Task : row'[t] \in {row[t], "pending"}
  BY <1>2 DEF ScheduleCommit
<1> QED BY <1>1, <1>3, CalmBudget DEF CalmInv, OnTime

LEMMA CalmReport ==
  ASSUME IInv, CalmInv, ReportStep
  PROVE  CalmInv'
<1> USE DEF db, redis, broker, ghosts, IInv
<1>0. \A r \in reqs : r.live
  BY DEF CalmInv
<1>1. UNCHANGED ops /\ (UNCHANGED budget \/ \E f : Spend(f))
  BY Undisturbed DEF ReportStep, Refuse, Dequeue, LoadRow, CommitReport, AttemptFails, Receive,
                     Expire
<1>2. UNCHANGED mishap \/ \E T : \E k \in {"refused", "early", "expired"} : Mark(T, k)
  <2>1. ASSUME NEW r \in reqs, Dequeue(r) \/ CommitReport(r) PROVE UNCHANGED mishap
    <3>1. Mark({}, "late")
      BY <1>0, <2>1 DEF Dequeue, CommitReport
    <3>2. mishap \in [Task -> SUBSET Mishap] /\ mishap' = [t \in Task |-> mishap[t]]
      BY <3>1 DEF Mark, TypeOK
    <3> QED BY <3>2
  <2>2. ASSUME NEW r \in reqs, Refuse(r) \/ LoadRow(r) \/ AttemptFails(r) \/ Receive(r)
        PROVE  UNCHANGED mishap \/ \E T : \E k \in {"refused", "early", "expired"} : Mark(T, k)
    BY <2>2 DEF Refuse, LoadRow, AttemptFails, Receive
  <2>3. ASSUME NEW e \in Endpoint, Expire(e) PROVE \E T : Mark(T, "expired")
    BY <2>3 DEF Expire
  <2> QED BY <2>1, <2>2, <2>3, Undisturbed DEF ReportStep
<1>3. \A t \in Task : OnTime(t)'
  BY <1>2 DEF Mark, CalmInv, OnTime
<1>4. ASSUME NEW q \in reqs' PROVE q.live /\ q.status # "skipped"
  <2>1. q \in reqs \/ \E r \in reqs : q.status = r.status /\ q.live = r.live
    <3>1. ASSUME NEW r \in reqs
          PROVE  /\ [r EXCEPT !.stage = "replied"].status = r.status
                 /\ [r EXCEPT !.stage = "replied"].live = r.live
                 /\ [r EXCEPT !.stage = "removed"].status = r.status
                 /\ [r EXCEPT !.stage = "removed"].live = r.live
                 /\ Resend(r).status = r.status /\ Resend(r).live = r.live
                 /\ \A s : /\ [r EXCEPT !.stage = "loaded", !.seen = s].status = r.status
                           /\ [r EXCEPT !.stage = "loaded", !.seen = s].live = r.live
      BY RequestType DEF Request, Resend
    <3>2. \/ reqs' \subseteq reqs
          \/ \E r \in reqs : \/ Move(r, [r EXCEPT !.stage = "replied"])
                            \/ Move(r, [r EXCEPT !.stage = "removed"])
                            \/ Move(r, Resend(r))
                            \/ \E s : Move(r, [r EXCEPT !.stage = "loaded", !.seen = s])
      <4>1. ASSUME NEW r \in reqs, Refuse(r) \/ CommitReport(r)
            PROVE  reqs' \subseteq reqs \/ Move(r, [r EXCEPT !.stage = "replied"])
        BY <4>1 DEF Refuse, CommitReport
      <4>2. ASSUME NEW r \in reqs, Dequeue(r) PROVE Move(r, [r EXCEPT !.stage = "removed"])
        BY <4>2 DEF Dequeue
      <4>3. ASSUME NEW r \in reqs, LoadRow(r)
            PROVE  \E s : Move(r, [r EXCEPT !.stage = "loaded", !.seen = s])
        BY <4>3 DEF LoadRow
      <4>4. ASSUME NEW r \in reqs, AttemptFails(r) PROVE Move(r, Resend(r))
        BY <4>4 DEF AttemptFails
      <4>5. (\E r \in reqs : Receive(r)) \/ (\E e \in Endpoint : Expire(e)) => reqs' \subseteq reqs
        BY DEF Receive, Expire
      <4> QED BY <4>1, <4>2, <4>3, <4>4, <4>5, Undisturbed DEF ReportStep
    <3>3. ASSUME NEW r \in reqs, NEW p, Move(r, p), p.status = r.status, p.live = r.live
          PROVE  q \in reqs \/ (q.status = r.status /\ q.live = r.live)
      BY <1>4, <3>3 DEF Move
    <3> QED BY <1>4, <3>1, <3>2, <3>3
  <2> QED BY <2>1 DEF CalmInv
<1>5. \A t \in Task : row'[t] # "skipped"
  <2>1. UNCHANGED row \/ \E r \in reqs : CommitReport(r)
    BY DEF ReportStep, Refuse, Dequeue, LoadRow, AttemptFails, AttemptTimesOut, Receive, Expire
  <2>2. ASSUME NEW r \in reqs, CommitReport(r) PROVE \A t \in Task : row'[t] \in {row[t], r.status}
    BY <2>2 DEF CommitReport, TypeOK
  <2> QED BY <2>1, <2>2 DEF CalmInv
<1> QED BY <1>1, <1>3, <1>4, <1>5, CalmBudget DEF CalmInv

LEMMA CalmAgent ==
  ASSUME TypeOK, CalmInv, AgentStep
  PROVE  CalmInv'
<1> USE DEF db, redis, broker, ghosts
<1>1. UNCHANGED <<ops, row>> /\ (UNCHANGED budget \/ \E f : Spend(f))
  BY Undisturbed DEF AgentStep, Fetch, StartInstall, FinishDownload, RunInstaller, RunRollback,
                     AgentDies
<1>2. UNCHANGED mishap \/ \E T : Mark(T, "abandoned")
  BY Undisturbed DEF AgentStep, Fetch, StartInstall, FinishDownload, RunInstaller, RunRollback,
                     AgentDies
<1>3. \A t \in Task : OnTime(t)'
  BY <1>2 DEF Mark, CalmInv, OnTime
<1>4. ASSUME NEW q \in reqs' PROVE q \in reqs \/ (q.live /\ q.status # "skipped")
  <2>1. ASSUME NEW e, NEW s \in RowStatus, NEW b, NEW ph, Send(e, s, b, ph), s # "skipped"
        PROVE  q \in reqs \/ (q.live /\ q.status # "skipped")
    BY <1>4, <2>1 DEF Send
  <2>2. CASE reqs' \subseteq reqs
    BY <1>4, <2>2
  <2>3. ASSUME NEW e \in Endpoint,
               StartInstall(e) \/ FinishDownload(e) \/ RunInstaller(e) \/ RunRollback(e)
        PROVE  \E b, ph : \E s \in {"downloading", "installing", "success", "failed", "rolled_back"} :
                 Send(e, s, b, ph)
    BY <2>3 DEF StartInstall, FinishDownload, RunInstaller, RunRollback
  <2>4. {"downloading", "installing", "success", "failed", "rolled_back"} \subseteq RowStatus
    BY DEF RowStatus, Active, Ended
  <2>5. ASSUME NEW e \in Endpoint, Fetch(e) \/ AgentDies(e) PROVE reqs' \subseteq reqs
    BY <2>5 DEF Fetch, AgentDies
  <2>6. PICK e \in Endpoint : \/ Fetch(e) \/ AgentDies(e)
                             \/ StartInstall(e) \/ FinishDownload(e) \/ RunInstaller(e) \/ RunRollback(e)
    BY Undisturbed DEF AgentStep
  <2> QED BY <2>1, <2>2, <2>3, <2>4, <2>5, <2>6
<1> QED BY <1>1, <1>3, <1>4, CalmBudget DEF CalmInv

LEMMA CalmStep ==
  ASSUME IInv, CalmInv, [Next]_vars
  PROVE  CalmInv'
<1>1. CASE UNCHANGED vars
  BY <1>1 DEF vars, CalmInv, OnTime
<1> QED BY <1>1, CalmApi, CalmWorker, CalmReport, CalmAgent DEF Next, IInv

-----------------------------------------------------------------------------
(* The deployments stay in order                                              *)

LEMMA CreateCommitOrder ==
  ASSUME TypeOK, TypeOK', NEW d \in Deployment, CreateCommit(d), \A c \in Deployment : Orderly(c)
  PROVE  \A c \in Deployment : Orderly(c)'
<1> USE DEF redis, broker, ghosts
<1>0. /\ UNCHANGED <<row, sched, final, worker>> /\ dep[d].status = "absent"
      /\ dep' = [dep EXCEPT ![d].status = "pending"] /\ ops' = ops \cup {NewOp("create", d, {}, 0)}
      /\ dep \in [Deployment -> Dep]
  BY DEF CreateCommit, TypeOK
<1>1. ASSUME NEW c \in Deployment, c # d PROVE Orderly(c)'
  <2>1. dep'[c] = dep[c] /\ Calls(c)' \subseteq Calls(c)
    BY <1>0, <1>1 DEF Calls, NewOp
  <2> QED BY <1>0, <2>1, ElsewhereOrderly DEF SameTable, SameRows, SameJobs
<1>2. Orderly(d)'
  <2>1. /\ Calls(d) = {} /\ \A k \in 0..MaxRetries : sched[<<d, k>>] = 0
        /\ \A w \in Worker : ~Job(w, d)
    <3>1. ~Waits(d)
      BY <1>0 DEF Waits
    <3>2. ~Starting(d)
      BY <3>1 DEF Orderly, OneJob, Starting
    <3> QED BY <3>2, NoJobLeft
  <2>2. Calls(d)' = {NewOp("create", d, {}, 0)}
    BY <1>0, <2>1 DEF Calls, NewOp
  <2>3. /\ dep'[d].status = "pending" /\ dep'[d].total = dep[d].total
        /\ dep'[d].succ = dep[d].succ /\ dep'[d].fail = dep[d].fail
    BY <1>0 DEF Dep
  <2>4. RowsIn(d)' = RowsIn(d) /\ \A w \in Worker : Job(w, d)' = Job(w, d) /\ Finalizing(w, d)' = Finalizing(w, d)
    BY <1>0 DEF RowsIn, Job, Scheduling, Finalizing
  <2>5. OneJob(d)'
    BY <1>0, <2>1, <2>2, <2>3, <2>4 DEF OneJob, Waits
  <2>6. Unstarted(d)' /\ Planned(d)'
    BY <1>0, <2>1, <2>3, <2>4 DEF Orderly, Unstarted, Planned
  <2>7. OneRun(d)' /\ Counted(d)' /\ Done(d)'
    BY <1>0, <2>3, <2>4 DEF Orderly, OneRun, Counted, Done, Open
  <2>8. Finishing(d)'
    BY <1>0, <2>4 DEF Orderly, Unstarted, Finishing
  <2> QED BY <2>5, <2>6, <2>7, <2>8 DEF Orderly
<1> QED BY <1>1, <1>2

\* A deployment whose rows and counters stay: its job and the plan of the job are
\* what can change.
LEMMA JobOrder ==
  ASSUME TypeOK, NEW d \in Deployment, Orderly(d), SameTable(d), OneJob(d)', Planned(d)', Starting(d),
         \A w \in Worker : Finalizing(w, d)' => worker'[w] = worker[w]
  PROVE  Orderly(d)'
BY TableFrame DEF Orderly

LEMMA CreateEnqueueOrder ==
  ASSUME TypeOK, TypeOK', NEW o \in ops, CreateEnqueue(o), \A c \in Deployment : Orderly(c)
  PROVE  \A c \in Deployment : Orderly(c)'
<1> USE DEF db, redis, ghosts
<1>0. /\ UNCHANGED <<dep, row, final, worker>> /\ ops' = ops \ {o} /\ o.dep \in Deployment
      /\ sched' = [sched EXCEPT ![<<o.dep, 0>>] = @ + 1] /\ sched \in [Deployment \X (0..MaxRetries) -> Nat]
  BY DEF CreateEnqueue, TypeOK, Op
<1>1. ASSUME NEW c \in Deployment, c # o.dep PROVE Orderly(c)'
  <2>1. Calls(c)' \subseteq Calls(c) /\ \A k \in 0..MaxRetries : sched'[<<c, k>>] = sched[<<c, k>>]
    BY <1>0, <1>1 DEF Calls
  <2> QED BY <1>0, <2>1, ElsewhereOrderly DEF SameTable, SameRows, SameJobs
<1>2. PICK d \in Deployment : d = o.dep
  BY <1>0
<1>3. Orderly(d)'
  <2>1. o \in Calls(d) /\ OneJob(d)
    BY <1>2 DEF Calls, Orderly, CreateEnqueue
  <2>2. /\ Calls(d)' = {} /\ Waits(d) /\ Starting(d)
        /\ \A k \in 0..MaxRetries : sched[<<d, k>>] = 0
        /\ \A w \in Worker : ~Job(w, d)
    <3>1. \A p \in Calls(d) : p = o
      BY <2>1 DEF OneJob
    <3>2. Calls(d)' = {}
      BY <1>0, <3>1 DEF Calls
    <3> QED BY <2>1, <3>2 DEF OneJob, Starting
  <2>3. \A k \in 0..MaxRetries : sched'[<<d, k>>] = IF k = 0 THEN 1 ELSE 0
    <3>1. \A k \in 0..MaxRetries : <<d, k>> \in Deployment \X (0..MaxRetries)
      OBVIOUS
    <3> QED BY <1>0, <1>2, <2>2, <3>1
  <2>4. \A w \in Worker : ~Job(w, d)'
    BY <1>0, <2>2 DEF Job, Scheduling
  <2>5. OneJob(d)'
    BY <1>0, <2>2, <2>3, <2>4 DEF OneJob, Waits
  <2>6. Planned(d)'
    BY <2>4 DEF Planned
  <2> QED BY <1>0, <2>2, <2>5, <2>6, JobOrder DEF SameTable, SameRows
<1> QED BY <1>1, <1>2, <1>3

LEMMA ApiFailsOrder ==
  ASSUME TypeOK, TypeOK', NEW o \in ops, ApiFails(o), \A c \in Deployment : Orderly(c)
  PROVE  \A c \in Deployment : Orderly(c)'
<1> SUFFICES ASSUME NEW c \in Deployment PROVE Orderly(c)'
  OBVIOUS
<1>1. UNCHANGED <<dep, row, sched, final, worker>> /\ ops' \subseteq ops
  BY DEF ApiFails, db, broker
<1>2. Calls(c)' \subseteq Calls(c)
  BY <1>1 DEF Calls
<1> QED BY <1>1, <1>2, ElsewhereOrderly DEF SameTable, SameRows, SameJobs

LEMMA ScheduleDeferOrder ==
  ASSUME TypeOK, TypeOK', NEW d \in Deployment, NEW k \in 0..MaxRetries, ScheduleDefer(d, k),
         \A c \in Deployment : Orderly(c)
  PROVE  \A c \in Deployment : Orderly(c)'
<1> USE DEF db, redis, ghosts
<1>0. /\ UNCHANGED <<dep, row, final, worker, ops>> /\ sched[<<d, k>>] > 0
      /\ sched \in [Deployment \X (0..MaxRetries) -> Nat]
      /\ \A c \in Deployment, j \in 0..MaxRetries : sched'[<<c, j>>] =
           sched[<<c, j>>] + (IF c = d /\ j = 0 THEN 1 ELSE 0) - (IF c = d /\ j = k THEN 1 ELSE 0)
  BY DEF ScheduleDefer, TypeOK
<1>1. ASSUME NEW c \in Deployment, c # d PROVE Orderly(c)'
  <2>1. Calls(c)' \subseteq Calls(c) /\ \A j \in 0..MaxRetries : sched'[<<c, j>>] = sched[<<c, j>>]
    BY <1>0, <1>1 DEF Calls
  <2> QED BY <1>0, <2>1, ElsewhereOrderly DEF SameTable, SameRows, SameJobs
<1>2. Orderly(d)'
  <2>1. OneJob(d)
    BY DEF Orderly
  <2>2. \A j \in 0..MaxRetries : sched[<<d, j>>] = IF j = k THEN 1 ELSE 0
    BY <1>0, <2>1 DEF OneJob
  <2>3. \A j \in 0..MaxRetries : sched'[<<d, j>>] = IF j = 0 THEN 1 ELSE 0
    BY <1>0, <2>2
  <2>4. Calls(d)' = {} /\ Waits(d)' /\ \A w \in Worker : ~Job(w, d)'
    <3>1. Calls(d) = {} /\ Waits(d) /\ \A w \in Worker : ~Job(w, d)
      BY <1>0, <2>1, <2>2 DEF OneJob
    <3> QED BY <1>0, <3>1 DEF Calls, Job, Scheduling, Waits
  <2>5. OneJob(d)'
    BY <2>3, <2>4 DEF OneJob
  <2>6. Planned(d)'
    BY <2>4 DEF Planned
  <2> QED BY <1>0, <2>5, <2>6, JobOrder DEF SameTable, SameRows, Starting
<1> QED BY <1>1, <1>2

\* A step of worker w on deployment d concerns no other deployment.
LEMMA WorkerElsewhere ==
  ASSUME TypeOK, TypeOK', NEW d, NEW w \in Worker, NEW c \in Deployment, c # d, Orderly(c),
         dep'[c] = dep[c], final'[c] = final[c], SameRows(c), UNCHANGED ops,
         \A k \in 0..MaxRetries : sched'[<<c, k>>] = sched[<<c, k>>],
         \A v \in Worker : v # w => worker'[v] = worker[v],
         worker'[w].pc = "idle" \/ worker'[w].dep = d
  PROVE  Orderly(c)'
<1>1. Calls(c)' \subseteq Calls(c)
  BY DEF Calls
<1>2. \A v \in Worker : worker'[v] = worker[v] \/ Away(v, c)'
  BY DEF Away
<1> QED BY <1>1, <1>2, ElsewhereOrderly DEF SameTable, SameJobs

\* A job that finds its deployment rolled back is dropped.
LEMMA ScheduleIgnoredOrder ==
  ASSUME TypeOK, TypeOK', NEW d \in Deployment, NEW k \in 0..MaxRetries, ScheduleIgnored(d, k),
         \A c \in Deployment : Orderly(c)
  PROVE  \A c \in Deployment : Orderly(c)'
<1> SUFFICES ASSUME NEW c \in Deployment PROVE Orderly(c)'
  OBVIOUS
<1>1. UNCHANGED <<dep, row, final, worker, ops>> /\ sched' = [sched EXCEPT ![<<d, k>>] = @ - 1]
  BY DEF ScheduleIgnored, db, redis, ghosts
<1>2. ASSUME NEW j \in 0..MaxRetries
      PROVE  sched'[<<c, j>>] = sched[<<c, j>>] \/ sched'[<<c, j>>] < sched[<<c, j>>]
  <2>1. sched[<<c, j>>] \in Nat /\ sched'[<<c, j>>] \in Nat /\ sched \in [Deployment \X (0..MaxRetries) -> Nat]
    BY DEF TypeOK
  <2>2. CASE c = d /\ j = k
    BY <1>1, <2>1, <2>2
  <2>3. CASE ~(c = d /\ j = k)
    BY <1>1, <2>1, <2>3
  <2> QED BY <2>2, <2>3
<1> QED BY <1>1, <1>2, ElsewhereOrderly DEF SameTable, SameRows, SameJobs, Calls

LEMMA ScheduleLoadOrder ==
  ASSUME TypeOK, TypeOK', NEW d \in Deployment, NEW w \in Worker, ScheduleLoad(w, d),
         \A c \in Deployment : Orderly(c)
  PROVE  \A c \in Deployment : Orderly(c)'
<1> USE DEF db, redis, ghosts
<1>0. PICK k \in 0..MaxRetries, S \in TargetChoices :
        /\ sched[<<d, k>>] > 0
        /\ sched' = [sched EXCEPT ![<<d, k>>] = @ - 1]
        /\ worker' = [worker EXCEPT ![w] =
             [pc |-> "loaded", dep |-> d, run |-> runs[d] + 1, tries |-> k, todo |-> S,
              pushed |-> {}, seen |-> dep[d], new |-> Scheduled(dep[d], S)]]
  BY DEF ScheduleLoad
<1>1. /\ UNCHANGED <<dep, row, final, ops>> /\ worker[w].pc = "idle"
      /\ sched \in [Deployment \X (0..MaxRetries) -> Nat]
      /\ worker'[w] = [pc |-> "loaded", dep |-> d, run |-> runs[d] + 1, tries |-> k, todo |-> S,
                       pushed |-> {}, seen |-> dep[d], new |-> Scheduled(dep[d], S)]
      /\ \A v \in Worker : v # w => worker'[v] = worker[v]
  BY <1>0 DEF ScheduleLoad, TypeOK
<1>2. \A c \in Deployment, j \in 0..MaxRetries :
        sched'[<<c, j>>] = IF c = d /\ j = k THEN sched[<<c, j>>] - 1 ELSE sched[<<c, j>>]
  BY <1>0, <1>1
<1>3. ASSUME NEW c \in Deployment, c # d PROVE Orderly(c)'
  BY <1>1, <1>2, <1>3, WorkerElsewhere DEF SameRows
<1>4. Orderly(d)'
  <2>1. OneJob(d) /\ sched[<<d, k>>] > 0
    BY <1>0 DEF Orderly
  <2>2. /\ \A j \in 0..MaxRetries : sched[<<d, j>>] = IF j = k THEN 1 ELSE 0
        /\ Calls(d) = {} /\ dep[d].status = "pending" /\ \A v \in Worker : ~Job(v, d)
    <3>1. Waits(d) /\ dep[d].status \in Open
      BY <2>1 DEF OneJob, ScheduleLoad
    <3>2. dep[d].status = "pending"
      BY <3>1 DEF Waits, Open
    <3>3. Calls(d) = {} /\ \A v \in Worker : ~Job(v, d)
      BY <2>1 DEF OneJob
    <3>4. \A j \in 0..MaxRetries : sched[<<d, j>>] = IF j = k THEN 1 ELSE 0
      BY <1>1, <2>1 DEF OneJob
    <3> QED BY <3>2, <3>3, <3>4
  <2>3. \A j \in 0..MaxRetries : sched'[<<d, j>>] = 0
    BY <1>2, <2>2
  <2>4. Calls(d)' = {} /\ dep'[d].status = "pending" /\ \A v \in Worker : Job(v, d)' => v = w
    BY <1>1, <2>2 DEF Calls, Job, Scheduling
  <2>5. OneJob(d)'
    BY <2>3, <2>4 DEF OneJob, Waits
  <2>6. Planned(d)'
    <3>1. worker'[w].todo = S /\ worker'[w].pushed = {} /\ worker'[w].seen = dep'[d]
          /\ worker'[w].new = Scheduled(dep'[d], S)
      BY <1>1
    <3>2. worker'[w].todo \cup worker'[w].pushed = S
      BY <3>1
    <3> QED BY <2>4, <3>1, <3>2 DEF Planned, Upto
  <2>7. \A v \in Worker : Finalizing(v, d)' => worker'[v] = worker[v]
    BY <1>1 DEF Finalizing
  <2> QED BY <1>1, <2>1, <2>5, <2>6, <2>7, JobOrder DEF SameTable, SameRows, Starting
<1> QED BY <1>3, <1>4

\* The job goes on with what it has read, and what is to do becomes what is done.
LEMMA ScheduleTurnOrder ==
  ASSUME TypeOK, TypeOK', NEW w \in Worker, ScheduleStart(w) \/ SchedulePush(w),
         \A c \in Deployment : Orderly(c)
  PROVE  \A c \in Deployment : Orderly(c)'
<1> USE DEF db, redis, broker, ghosts
<1>0. UNCHANGED <<dep, row, sched, final, ops>> /\ Scheduling(w)
  BY DEF ScheduleStart, SchedulePush, Scheduling
<1>1. /\ worker'[w].pc \in {"loaded", "push"} /\ worker'[w].dep = worker[w].dep
      /\ worker'[w].seen = worker[w].seen /\ worker'[w].new = worker[w].new
      /\ worker'[w].todo \cup worker'[w].pushed = worker[w].todo \cup worker[w].pushed
      /\ \A v \in Worker : v # w => worker'[v] = worker[v]
  <2>1. worker[w] \in WorkerState /\ worker \in [Worker -> WorkerState]
    BY DEF TypeOK
  <2>2. CASE ScheduleStart(w)
    <3>1. worker' = [worker EXCEPT ![w] = [worker[w] EXCEPT !.pc = "push"]]
      BY <2>1, <2>2 DEF ScheduleStart
    <3> QED BY <2>1, <3>1 DEF WorkerState
  <2>3. CASE SchedulePush(w)
    <3>1. PICK e \in worker[w].todo :
            worker' = [worker EXCEPT ![w].todo = @ \ {e}, ![w].pushed = @ \cup {e}]
      BY <2>3 DEF SchedulePush
    <3>2. worker' = [worker EXCEPT ![w] =
                       [worker[w] EXCEPT !.todo = @ \ {e}, !.pushed = @ \cup {e}]]
      BY <2>1, <3>1
    <3>3. worker'[w] = [worker[w] EXCEPT !.todo = @ \ {e}, !.pushed = @ \cup {e}]
          /\ \A v \in Worker : v # w => worker'[v] = worker[v]
      BY <2>1, <3>2
    <3>4. /\ worker'[w].pc = worker[w].pc /\ worker'[w].dep = worker[w].dep
          /\ worker'[w].seen = worker[w].seen /\ worker'[w].new = worker[w].new
          /\ worker'[w].todo = worker[w].todo \ {e} /\ worker'[w].pushed = worker[w].pushed \cup {e}
      BY <2>1, <3>3 DEF WorkerState
    <3> QED BY <1>0, <3>3, <3>4 DEF Scheduling
  <2> QED BY <2>2, <2>3
<1>2. PICK d \in Deployment : d = worker[w].dep
  BY <1>0, RunTaskFacts
<1>3. ASSUME NEW c \in Deployment, c # d PROVE Orderly(c)'
  BY <1>0, <1>1, <1>2, <1>3, WorkerElsewhere DEF SameRows
<1>4. Orderly(d)'
  <2>1. ASSUME NEW v \in Worker, Job(v, d)'
        PROVE  /\ Job(v, d) /\ worker'[v].seen = worker[v].seen /\ worker'[v].new = worker[v].new
               /\ worker'[v].todo \cup worker'[v].pushed = worker[v].todo \cup worker[v].pushed
    BY <1>0, <1>1, <1>2, <2>1 DEF Job, Scheduling
  <2>2. OneJob(d)'
    <3>1. \A k \in 0..MaxRetries : sched[<<d, k>>] \in Nat /\ sched'[<<d, k>>] <= sched[<<d, k>>]
      BY <1>0 DEF TypeOK
    <3> QED BY <1>0, <2>1, <3>1, JobGoesOn DEF Orderly, Calls, Waits
  <2>3. Planned(d)'
    BY <1>0, <2>1, PlanFrame DEF Orderly
  <2>4. \A v \in Worker : Finalizing(v, d)' => worker'[v] = worker[v]
    BY <1>1 DEF Finalizing
  <2>5. Starting(d)
    BY <1>0, <1>2 DEF Starting, Job
  <2> QED BY <1>0, <2>2, <2>3, <2>4, <2>5, JobOrder DEF SameTable, SameRows
<1> QED BY <1>3, <1>4

LEMMA ScheduleRetryOrder ==
  ASSUME TypeOK, TypeOK', NEW w \in Worker, ScheduleRetry(w), \A c \in Deployment : Orderly(c)
  PROVE  \A c \in Deployment : Orderly(c)'
<1> USE DEF db, redis, ghosts
<1>0. /\ UNCHANGED <<dep, row, final, ops>> /\ Scheduling(w)
      /\ sched' = [sched EXCEPT ![<<worker[w].dep, worker[w].tries + 1>>] = @ + 1]
      /\ worker'[w].pc = "idle" /\ \A v \in Worker : v # w => worker'[v] = worker[v]
      /\ sched \in [Deployment \X (0..MaxRetries) -> Nat]
  BY RestTypes DEF ScheduleRetry, Scheduling, TypeOK
<1>2. PICK d \in Deployment : d = worker[w].dep
  BY <1>0, RunTaskFacts
<1>m. PICK m : m = worker[w].tries + 1
  OBVIOUS
<1>1. \A c \in Deployment, j \in 0..MaxRetries :
        sched'[<<c, j>>] = IF c = d /\ j = m THEN sched[<<c, j>>] + 1 ELSE sched[<<c, j>>]
  BY <1>0, <1>2, <1>m
<1>3. ASSUME NEW c \in Deployment, c # d PROVE Orderly(c)'
  BY <1>0, <1>1, <1>3, WorkerElsewhere DEF SameRows
<1>4. Orderly(d)'
  <2>1. OneJob(d) /\ Job(w, d)
    BY <1>0, <1>2 DEF Orderly, Job
  <2>2. /\ Calls(d) = {} /\ Waits(d) /\ \A k \in 0..MaxRetries : sched[<<d, k>>] = 0
        /\ \A v \in Worker : Job(v, d) => v = w
    BY <2>1 DEF OneJob
  <2>3. \A k \in 0..MaxRetries : sched'[<<d, k>>] = IF k = m THEN 1 ELSE 0
    BY <1>1, <2>2
  <2>4. \A v \in Worker : ~Job(v, d)'
    BY <1>0, <2>2 DEF Job, Scheduling
  <2>5. OneJob(d)'
    BY <1>0, <2>2, <2>3, <2>4 DEF OneJob, Calls, Waits
  <2>6. Planned(d)'
    BY <2>4 DEF Planned
  <2>7. \A v \in Worker : Finalizing(v, d)' => worker'[v] = worker[v]
    BY <1>0 DEF Finalizing
  <2> QED BY <1>0, <2>1, <2>5, <2>6, <2>7, JobOrder DEF SameTable, SameRows, Starting
<1> QED BY <1>3, <1>4

LEMMA WorkerLostOrder ==
  ASSUME TypeOK, TypeOK', NEW w \in Worker, WorkerLost(w), \A c \in Deployment : Orderly(c)
  PROVE  \A c \in Deployment : Orderly(c)'
<1> SUFFICES ASSUME NEW c \in Deployment PROVE Orderly(c)'
  OBVIOUS
<1>1. /\ UNCHANGED <<dep, row, sched, final, ops>>
      /\ worker'[w].pc = "idle" /\ \A v \in Worker : v # w => worker'[v] = worker[v]
  BY RestTypes DEF WorkerLost, TypeOK, db, broker
<1>2. Calls(c)' \subseteq Calls(c) /\ \A v \in Worker : worker'[v] = worker[v] \/ Away(v, c)'
  BY <1>1 DEF Calls, Away
<1> QED BY <1>1, <1>2, ElsewhereOrderly DEF SameTable, SameRows, SameJobs

\* A run has one row for each endpoint.
LEMMA OneRowEach ==
  ASSUME NEW x, x.dep \in Deployment, x.run \in 1..MaxRuns, x.pushed \subseteq Endpoint
  PROVE  Cardinality(NewRows(x)) = Cardinality(x.pushed)
<1> DEFINE f == [t \in NewRows(x) |-> t.ep]
<1>1. IsFiniteSet(NewRows(x))
  BY TasksFinite, FS_Subset DEF NewRows
<1>2. f \in [NewRows(x) -> x.pushed]
  BY DEF NewRows
<1>3. ASSUME NEW t \in NewRows(x), NEW u \in NewRows(x), t.ep = u.ep PROVE t = u
  BY <1>3 DEF NewRows, Task
<1>4. ASSUME NEW e \in x.pushed PROVE \E t \in NewRows(x) : t.ep = e
  <2>1. TaskOf(x.dep, x.run, e) \in NewRows(x)
    BY DEF NewRows, TaskOf, Task
  <2>2. TaskOf(x.dep, x.run, e).ep = e
    BY DEF TaskOf
  <2> QED BY <2>1, <2>2
<1>5. f \in Bijection(NewRows(x), x.pushed)
  BY <1>2, <1>3, <1>4 DEF Bijection, Injection, Surjection, IsInjective
<1> QED BY <1>1, <1>5, FS_Bijection DEF ExistsBijection

\* What the commit of a schedule job does: it starts a deployment that had no rows.
LEMMA ScheduleCommitFacts ==
  ASSUME TypeOK, NEW w \in Worker, ScheduleCommit(w), NEW d \in Deployment, worker[w].dep = d,
         Orderly(d)
  PROVE  /\ Job(w, d) /\ Starting(d) /\ Waits(d) /\ RowsIn(d) = {}
         /\ worker[w].pushed \subseteq Endpoint
         /\ dep'[d].status = IF worker[w].pushed = {} THEN "completed" ELSE "in_progress"
         /\ dep'[d].total = Cardinality(worker[w].pushed) /\ dep'[d].succ = 0 /\ dep'[d].fail = 0
         /\ \A t \in Task : t.dep = d => row'[t] = IF t \in NewRows(worker[w]) THEN "pending" ELSE "none"
         /\ RowsIn(d)' = NewRows(worker[w])
         /\ Cardinality(RowsIn(d)') = Cardinality(worker[w].pushed)
<1>0. PICK S : S = worker[w].pushed
  OBVIOUS
<1>1. /\ worker[w].todo = {} /\ Scheduling(w) /\ Job(w, d)
      /\ dep' = [dep EXCEPT ![d] = Flush(@, worker[w].seen, worker[w].new)]
      /\ row' = [t \in Task |-> IF t \in NewRows(worker[w]) THEN "pending" ELSE row[t]]
  BY DEF ScheduleCommit, Scheduling, Job
<1>2. /\ worker[w] \in WorkerState /\ dep[d] \in Dep /\ dep \in [Deployment -> Dep]
      /\ S \subseteq Endpoint /\ worker[w].dep \in Deployment /\ worker[w].run \in 1..MaxRuns
  BY <1>0, <1>1, RunTaskFacts DEF TypeOK
<1>3. worker[w].seen \in Dep /\ worker[w].new \in Dep
  BY <1>2 DEF WorkerState
<1>4. /\ Waits(d) /\ Starting(d) /\ RowsIn(d) = {}
      /\ dep[d].total = 0 /\ dep[d].succ = 0 /\ dep[d].fail = 0
  BY <1>1 DEF Orderly, OneJob, Unstarted, Starting
<1>5. worker[w].todo \cup S = S
  BY <1>1
<1>6. PICK x \in Dep, y \in Dep : x = worker[w].seen /\ y = worker[w].new
  BY <1>3
<1>7. x.status = "pending" /\ Upto(dep[d], x) /\ y = Scheduled(x, S)
  BY <1>0, <1>1, <1>5, <1>6 DEF Orderly, Planned
<1>8. /\ IsFiniteSet(S) /\ Cardinality(S) \in Nat /\ (S = {} <=> Cardinality(S) = 0)
  BY <1>2, RolloutAssumption, FS_Subset, FS_CardinalityType, FS_EmptySet
<1>9. /\ y.status = (IF S = {} THEN "completed" ELSE "in_progress")
      /\ y.total = Cardinality(S) /\ y.succ = 0 /\ y.fail = 0
  BY <1>4, <1>7, <1>8 DEF Scheduled, Dep, Upto
<1>10. dep'[d] = Flush(dep[d], x, y)
  BY <1>1, <1>2, <1>6
<1>11. /\ dep'[d].status = (IF S = {} THEN "completed" ELSE "in_progress")
       /\ dep'[d].total = Cardinality(S) /\ dep'[d].succ = 0 /\ dep'[d].fail = 0
  BY <1>2, <1>4, <1>7, <1>9, <1>10, FlushFacts DEF Upto
<1>12. \A t \in Task : t.dep = d => row'[t] = IF t \in NewRows(worker[w]) THEN "pending" ELSE "none"
  BY <1>1, <1>4 DEF RowsIn
<1>13. RowsIn(d)' = NewRows(worker[w])
  BY <1>12 DEF RowsIn, NewRows
<1>14. Cardinality(NewRows(worker[w])) = Cardinality(S)
  BY <1>0, <1>2, OneRowEach
<1> QED BY <1>0, <1>1, <1>2, <1>4, <1>11, <1>12, <1>13, <1>14

LEMMA ScheduleCommitOrder ==
  ASSUME TypeOK, TypeOK', NEW w \in Worker, ScheduleCommit(w), \A c \in Deployment : Orderly(c)
  PROVE  \A c \in Deployment : Orderly(c)'
<1> USE DEF redis, broker, ghosts
<1>0. /\ UNCHANGED <<sched, final, ops>> /\ Scheduling(w)
      /\ worker'[w].pc = "idle" /\ \A v \in Worker : v # w => worker'[v] = worker[v]
      /\ dep' = [dep EXCEPT ![worker[w].dep] = Flush(@, worker[w].seen, worker[w].new)]
      /\ row' = [t \in Task |-> IF t \in NewRows(worker[w]) THEN "pending" ELSE row[t]]
  BY RestTypes DEF ScheduleCommit, Scheduling, TypeOK
<1>1. PICK d \in Deployment : d = worker[w].dep
  BY <1>0, RunTaskFacts
<1>2. ASSUME NEW c \in Deployment, c # d PROVE Orderly(c)'
  <2>1. dep'[c] = dep[c] /\ SameRows(c)
    BY <1>0, <1>1, <1>2 DEF TypeOK, SameRows, NewRows
  <2> QED BY <1>0, <1>2, <2>1, WorkerElsewhere
<1>3. Orderly(d)'
  <2> DEFINE S == worker[w].pushed
  <2>1. /\ Job(w, d) /\ Starting(d) /\ RowsIn(d) = {} /\ S \subseteq Endpoint
        /\ dep'[d].status = (IF S = {} THEN "completed" ELSE "in_progress")
        /\ dep'[d].total = Cardinality(S) /\ dep'[d].succ = 0 /\ dep'[d].fail = 0
        /\ \A t \in Task : t.dep = d => row'[t] = IF t \in NewRows(worker[w]) THEN "pending" ELSE "none"
        /\ RowsIn(d)' = NewRows(worker[w]) /\ Cardinality(RowsIn(d)') = Cardinality(S)
    BY <1>1, ScheduleCommitFacts
  <2>2. /\ Calls(d) = {} /\ \A k \in 0..MaxRetries : sched[<<d, k>>] = 0
        /\ \A v \in Worker : Job(v, d) => v = w
    BY <2>1 DEF Orderly, OneJob
  <2>3. \A v \in Worker : ~Job(v, d)'
    BY <1>0, <2>2 DEF Job, Scheduling
  <2>5. ~Starting(d)'
    <3>1. Calls(d)' = {} /\ \A k \in 0..MaxRetries : ~(sched'[<<d, k>>] > 0)
      BY <1>0, <2>2 DEF Calls
    <3> QED BY <2>3, <3>1 DEF Starting
  <2>6. OneJob(d)'
    BY <1>0, <2>2, <2>3 DEF OneJob, Calls
  <2>7. Planned(d)' /\ Unstarted(d)'
    BY <2>1, <2>3, <2>5 DEF Planned, Unstarted
  <2>8. OneRun(d)' /\ Counted(d)'
    BY <2>1 DEF OneRun, Counted, NewRows
  <2>9. Done(d)'
    <3>1. CASE S # {}
      BY <2>1, <3>1 DEF Done
    <3>2. CASE S = {}
      <4>1. \A t \in Task : t.dep = d => row'[t] = "none"
        BY <2>1, <3>2 DEF NewRows
      <4>2. Idle(d)'
        BY <4>1 DEF Idle, Active
      <4>3. ASSUME NEW s, s # "none" PROVE Count(d, s)' = 0
        <5>1. {t \in Task : t.dep = d /\ row'[t] = s} = {}
          BY <4>1, <4>3
        <5> QED BY <5>1, FS_EmptySet DEF Count
      <4>4. Count(d, "success")' = 0 /\ Count(d, "rolled_back")' = 0 /\ Count(d, "failed")' = 0
        BY <4>3
      <4>5. Truth(d, dep[d])'
        BY <2>1, <3>2, <4>4 DEF Truth, Verdict
      <4> QED BY <2>1, <3>2, <4>2, <4>5 DEF Done
    <3> QED BY <3>1, <3>2
  <2>10. Finishing(d)'
    <3>1. \A v \in Worker : ~Finalizing(v, d)'
      BY <1>0, <2>1 DEF Orderly, Unstarted, Finalizing
    <3> QED BY <3>1 DEF Finishing
  <2> QED BY <2>6, <2>7, <2>8, <2>9, <2>10 DEF Orderly
<1> QED BY <1>2, <1>3

LEMMA FinalizeLoadOrder ==
  ASSUME TypeOK, TypeOK', NEW d \in Deployment, NEW w \in Worker, FinalizeLoad(w, d),
         \A c \in Deployment : Orderly(c)
  PROVE  \A c \in Deployment : Orderly(c)'
<1> USE DEF db, redis, ghosts
<1>0. /\ UNCHANGED <<dep, row, sched, ops>> /\ worker[w].pc = "idle" /\ final[d] > 0
      /\ final' = [final EXCEPT ![d] = @ - 1] /\ final \in [Deployment -> Nat]
      /\ worker'[w].pc = "count" /\ worker'[w].dep = d /\ worker'[w].seen = dep[d]
      /\ \A v \in Worker : v # w => worker'[v] = worker[v]
  <2>1. /\ worker \in [Worker -> WorkerState]
        /\ worker' = [worker EXCEPT ![w] = [Resting EXCEPT !.pc = "count", !.dep = d, !.seen = dep[d]]]
    BY DEF FinalizeLoad, TypeOK
  <2>2. worker'[w] = [Resting EXCEPT !.pc = "count", !.dep = d, !.seen = dep[d]]
    BY <2>1
  <2>3. worker'[w].pc = "count" /\ worker'[w].dep = d /\ worker'[w].seen = dep[d]
    BY <2>2, RestTypes DEF WorkerState
  <2> QED BY <2>1, <2>3 DEF FinalizeLoad, TypeOK
<1>1. ASSUME NEW c \in Deployment, c # d PROVE Orderly(c)'
  BY <1>0, <1>1, WorkerElsewhere DEF SameRows
<1>2. Orderly(d)'
  <2>1. /\ RowsIn(d)' = RowsIn(d) /\ Idle(d)' = Idle(d) /\ \A s : Count(d, s)' = Count(d, s)
        /\ dep'[d] = dep[d] /\ Verdict(d)' = Verdict(d)
    BY <1>0, RowsFrame DEF SameRows
  <2>2. dep[d].status \notin {"absent", "pending"} /\ ~Starting(d)
    BY <1>0 DEF Orderly, Unstarted
  <2>3. \A v \in Worker : Job(v, d)' => Job(v, d)
    BY <1>0 DEF Job, Scheduling
  <2>4. ~Starting(d)' /\ OneJob(d)' /\ Planned(d)'
    BY <1>0, <2>2, <2>3, StillNoJob DEF Calls
  <2>5. Unstarted(d)' /\ OneRun(d)' /\ Counted(d)' /\ Done(d)'
    BY <2>1, <2>2, <2>4 DEF Orderly, Unstarted, OneRun, Counted, Done, Truth
  <2>6. Finishing(d)'
    <3>1. ASSUME NEW v \in Worker, Finalizing(v, d)', v # w
          PROVE  Finalizing(v, d) /\ worker'[v] = worker[v]
      BY <1>0, <3>1 DEF Finalizing
    <3> QED BY <1>0, <2>1, <3>1 DEF Orderly, Finishing, Finished, Truth, Upto
  <2> QED BY <2>4, <2>5, <2>6 DEF Orderly
<1> QED BY <1>1, <1>2

LEMMA FinalizeCountOrder ==
  ASSUME TypeOK, TypeOK', NEW w \in Worker, FinalizeCount(w), \A c \in Deployment : Orderly(c)
  PROVE  \A c \in Deployment : Orderly(c)'
<1> USE DEF db, redis, broker, ghosts
<1>0. /\ UNCHANGED <<dep, row, sched, final, ops>> /\ worker[w].pc = "count"
      /\ \A v \in Worker : v # w => worker'[v] = worker[v]
  BY DEF FinalizeCount, TypeOK
<1>1. PICK d \in Deployment : d = worker[w].dep
  BY <1>0 DEF TypeOK, WorkerState
<1>w. worker[w] \in WorkerState /\ worker[w].seen \in Dep
  BY DEF TypeOK, WorkerState
<1>2. \/ worker'[w].pc = "idle"
      \/ /\ Idle(d) /\ worker'[w].pc = "finish" /\ worker'[w].dep = d
         /\ worker'[w].seen = worker[w].seen /\ worker'[w].new = Outcome(d, worker[w].seen)
  <2>1. CASE \E t \in Task : t.dep = d /\ row[t] \in StillRunning
    <3>1. worker'[w] = Resting
      BY <1>1, <2>1 DEF FinalizeCount, TypeOK
    <3> QED BY <3>1, RestTypes
  <2>2. CASE ~\E t \in Task : t.dep = d /\ row[t] \in StillRunning
    <3>1. Idle(d)
      BY <2>2 DEF Idle, StillRunning
    <3>n. PICK n : n = Outcome(d, worker[w].seen)
      OBVIOUS
    <3>2. worker'[w] = [worker[w] EXCEPT !.pc = "finish", !.new = n]
      BY <1>1, <2>2, <3>n DEF FinalizeCount, TypeOK
    <3>3. /\ worker'[w].pc = "finish" /\ worker'[w].dep = d
          /\ worker'[w].seen = worker[w].seen /\ worker'[w].new = n
      BY <1>1, <1>w, <3>2 DEF WorkerState
    <3> QED BY <3>1, <3>n, <3>3
  <2> QED BY <2>1, <2>2
<1>3. ASSUME NEW c \in Deployment, c # d PROVE Orderly(c)'
  BY <1>0, <1>2, <1>3, WorkerElsewhere DEF SameRows
<1>4. Orderly(d)'
  <2>1. /\ RowsIn(d)' = RowsIn(d) /\ Idle(d)' = Idle(d) /\ \A s : Count(d, s)' = Count(d, s)
        /\ dep'[d] = dep[d] /\ Verdict(d)' = Verdict(d)
    BY <1>0, RowsFrame DEF SameRows
  <2>2. dep[d].status \notin {"absent", "pending"} /\ ~Starting(d)
    BY <1>0, <1>1 DEF Orderly, Unstarted, Finalizing
  <2>3. \A v \in Worker : Job(v, d)' => Job(v, d)
    BY <1>0, <1>2 DEF Job, Scheduling
  <2>4. ~Starting(d)' /\ OneJob(d)' /\ Planned(d)'
    BY <1>0, <2>2, <2>3, StillNoJob DEF Calls
  <2>5. Unstarted(d)' /\ OneRun(d)' /\ Counted(d)' /\ Done(d)'
    BY <2>1, <2>2, <2>4 DEF Orderly, Unstarted, OneRun, Counted, Done, Truth
  <2>6. ASSUME NEW v \in Worker, Finalizing(v, d)', v # w
        PROVE  Finalizing(v, d) /\ worker'[v] = worker[v]
    BY <1>0, <2>6 DEF Finalizing
  <2>7. ASSUME Finalizing(w, d)'
        PROVE  /\ Finalizing(w, d) /\ worker'[w].seen = worker[w].seen
               /\ Finished(d, worker[w].new, worker[w].seen)'
               /\ worker'[w].new.status = Verdict(d)
    <3>1. /\ Idle(d) /\ worker'[w].seen = worker[w].seen
          /\ worker'[w].new = Outcome(d, worker[w].seen)
      BY <1>2, <2>7 DEF Finalizing
    <3>2. /\ Truth(d, worker'[w].new) /\ worker'[w].new.total = worker[w].seen.total
          /\ worker'[w].new.status = Verdict(d)
      BY <1>w, <3>1, OutcomeFacts
    <3> QED BY <1>0, <1>1, <2>1, <3>1, <3>2 DEF Finished, Truth, Finalizing
  <2>8. ASSUME NEW v \in Worker, Finalizing(v, d)'
        PROVE  /\ Upto(dep'[d], worker'[v].seen) \/ Finished(d, dep[d], worker[v].seen)'
               /\ worker'[v].pc = "finish" => /\ Finished(d, worker[v].new, worker[v].seen)'
                                              /\ worker'[v].new.status = Verdict(d)'
    <3>1. Finishing(d)
      BY DEF Orderly
    <3>2. CASE v = w
      BY <2>1, <2>7, <2>8, <3>1, <3>2 DEF Finishing, Finished, Truth
    <3>3. CASE v # w
      BY <2>1, <2>6, <2>8, <3>1, <3>3 DEF Finishing, Finished, Truth
    <3> QED BY <3>2, <3>3
  <2>9. Finishing(d)'
    BY <2>8 DEF Finishing, Upto
  <2> QED BY <2>4, <2>5, <2>9 DEF Orderly
<1> QED BY <1>3, <1>4

\* What a finalize job writes is the outcome, whoever finished the deployment
\* before, unless it is what the job had read and a rollback came between.
LEMMA FinalizeCommitFacts ==
  ASSUME TypeOK, NEW w \in Worker, FinalizeCommit(w), NEW d \in Deployment, worker[w].dep = d,
         Orderly(d)
  PROVE  /\ dep[d].status \notin {"absent", "pending"} /\ ~Starting(d) /\ Idle(d)
         /\ Truth(d, dep'[d]) /\ dep'[d].total = dep[d].total /\ dep'[d] \in Dep
         /\ dep[d].status # "rolled_back" => dep'[d].status = Verdict(d)
<1>1. Finalizing(w, d) /\ worker[w].pc = "finish"
      /\ dep' = [dep EXCEPT ![d] = Flush(@, worker[w].seen, worker[w].new)]
  BY DEF FinalizeCommit, Finalizing
<1>2. PICK x \in Dep, y \in Dep : x = worker[w].seen /\ y = worker[w].new
  BY DEF TypeOK, WorkerState
<1>3. dep[d] \in Dep /\ dep'[d] = Flush(dep[d], x, y)
  BY <1>1, <1>2 DEF TypeOK
<1>4. Finished(d, y, x) /\ y.status = Verdict(d) /\ (Upto(dep[d], x) \/ Finished(d, dep[d], x))
  BY <1>1, <1>2 DEF Orderly, Finishing
<1>5. dep[d].status \notin {"absent", "pending"} /\ ~Starting(d)
  BY <1>1 DEF Orderly, Unstarted
<1>6. dep'[d] \in Dep
      /\ dep'[d].status = (IF y.status # x.status THEN y.status ELSE dep[d].status)
      /\ dep'[d].total = (IF y.total # x.total THEN y.total ELSE dep[d].total)
      /\ dep'[d].succ = (IF y.succ # x.succ THEN y.succ ELSE dep[d].succ)
      /\ dep'[d].fail = (IF y.fail # x.fail THEN y.fail ELSE dep[d].fail)
  BY <1>3, FlushFacts
<1>7. dep'[d].total = dep[d].total
  BY <1>4, <1>6 DEF Finished
<1>8. CASE Upto(dep[d], x)
  BY <1>4, <1>5, <1>6, <1>7, <1>8 DEF Finished, Truth, Upto
<1>9. CASE Finished(d, dep[d], x)
  BY <1>4, <1>5, <1>6, <1>7, <1>9 DEF Finished, Truth
<1> QED BY <1>4, <1>8, <1>9

LEMMA FinalizeCommitOrder ==
  ASSUME TypeOK, TypeOK', NEW w \in Worker, FinalizeCommit(w), \A c \in Deployment : Orderly(c)
  PROVE  \A c \in Deployment : Orderly(c)'
<1> USE DEF redis, broker, ghosts
<1>0. /\ UNCHANGED <<row, sched, final, ops>> /\ worker[w].pc = "finish"
      /\ worker'[w].pc = "idle" /\ \A v \in Worker : v # w => worker'[v] = worker[v]
      /\ dep' = [dep EXCEPT ![worker[w].dep] = Flush(@, worker[w].seen, worker[w].new)]
  BY RestTypes DEF FinalizeCommit, TypeOK
<1>1. PICK d \in Deployment : d = worker[w].dep
  BY <1>0 DEF TypeOK, WorkerState
<1>2. ASSUME NEW c \in Deployment, c # d PROVE Orderly(c)'
  <2>1. dep'[c] = dep[c] /\ SameRows(c)
    BY <1>0, <1>1, <1>2 DEF TypeOK, SameRows
  <2> QED BY <1>0, <1>2, <2>1, WorkerElsewhere
<1>3. Orderly(d)'
  <2>1. /\ dep[d].status \notin {"absent", "pending"} /\ ~Starting(d) /\ Idle(d)
        /\ Truth(d, dep'[d]) /\ dep'[d].total = dep[d].total
    BY <1>1, FinalizeCommitFacts
  <2>2. /\ RowsIn(d)' = RowsIn(d) /\ Idle(d)' = Idle(d) /\ \A s : Count(d, s)' = Count(d, s)
        /\ Verdict(d)' = Verdict(d)
    BY <1>0, RowsFrame DEF SameRows
  <2>3. \A v \in Worker : Job(v, d)' => Job(v, d)
    BY <1>0 DEF Job, Scheduling
  <2>4. ~Starting(d)' /\ OneJob(d)' /\ Planned(d)'
    BY <1>0, <2>1, <2>3, StillNoJob DEF Calls
  <2>5. Unstarted(d)'
    BY <2>1, <2>4 DEF Unstarted, Truth, Verdict
  <2>6. OneRun(d)' /\ Counted(d)'
    BY <2>1, <2>2 DEF Orderly, OneRun, Counted
  <2>7. Truth(d, dep[d])' /\ Done(d)'
    BY <2>1, <2>2 DEF Done, Truth, Verdict
  <2>8. ASSUME NEW v \in Worker, Finalizing(v, d)'
        PROVE  /\ Finished(d, dep[d], worker[v].seen)'
               /\ worker'[v].pc = "finish" => /\ Finished(d, worker[v].new, worker[v].seen)'
                                              /\ worker'[v].new.status = Verdict(d)'
    <3>1. worker'[v] = worker[v] /\ Finalizing(v, d)
      BY <1>0, <2>8 DEF Finalizing
    <3>2. dep[d].total = worker[v].seen.total
      BY <3>1 DEF Orderly, Finishing, Finished, Upto
    <3>3. Finished(d, dep[d], worker[v].seen)'
      BY <2>1, <2>2, <2>7, <3>1, <3>2 DEF Finished
    <3>4. worker'[v].pc = "finish" => /\ Finished(d, worker[v].new, worker[v].seen)'
                                      /\ worker'[v].new.status = Verdict(d)'
      BY <2>2, <3>1 DEF Orderly, Finishing, Finished, Truth
    <3> QED BY <3>3, <3>4
  <2>9. Finishing(d)'
    BY <2>8 DEF Finishing
  <2> QED BY <2>4, <2>5, <2>6, <2>7, <2>9 DEF Orderly
<1> QED BY <1>2, <1>3

\* A report that queues a finalize job has found a row, so the deployment has
\* started.
LEMMA LoadRowOrder ==
  ASSUME IInv, TypeOK', NEW r \in reqs, LoadRow(r), \A c \in Deployment : Orderly(c)
  PROVE  \A c \in Deployment : Orderly(c)'
<1> USE DEF db, redis, ghosts
<1> SUFFICES ASSUME NEW c \in Deployment PROVE Orderly(c)'
  OBVIOUS
<1>0. TypeOK /\ UNCHANGED <<dep, row, sched, worker, ops>> /\ r.item.task \in Task
  BY RequestType DEF IInv, LoadRow
<1>1. CASE final'[c] = final[c]
  BY <1>0, <1>1, ElsewhereOrderly DEF SameTable, SameRows, SameJobs, Calls
<1>2. CASE final'[c] # final[c]
  <2>1. StatusOf(r.item) # "none" /\ r.item.task.dep = c
    BY <1>0, <1>2 DEF LoadRow, TypeOK
  <2>2. r.item.task \in RowsIn(c)
    BY <1>0, <2>1 DEF StatusOf, RowsIn
  <2>3. dep[c].status \notin {"absent", "pending"} /\ ~Starting(c)
    BY <2>2 DEF Orderly, Unstarted
  <2>4. /\ RowsIn(c)' = RowsIn(c) /\ Idle(c)' = Idle(c) /\ \A s : Count(c, s)' = Count(c, s)
        /\ Verdict(c)' = Verdict(c)
    BY <1>0, RowsFrame DEF SameRows
  <2>5. \A w \in Worker : Job(w, c)' = Job(w, c) /\ Finalizing(w, c)' = Finalizing(w, c)
    BY <1>0 DEF Job, Scheduling, Finalizing
  <2>6. ~Starting(c)' /\ OneJob(c)' /\ Planned(c)'
    BY <1>0, <2>3, <2>5, StillNoJob DEF Calls
  <2>7. Unstarted(c)' /\ OneRun(c)' /\ Counted(c)' /\ Done(c)' /\ Finishing(c)'
    BY <1>0, <2>3, <2>4, <2>5, <2>6
    DEF Orderly, Unstarted, OneRun, Counted, Done, Finishing, Finished, Truth
  <2> QED BY <2>6, <2>7 DEF Orderly
<1> QED BY <1>1, <1>2

\* A report changes a row that is still active, and no other.
LEMMA ReportFacts ==
  ASSUME IInv, OnceInv, CalmInv, CalmInv', NEW r \in reqs, CommitReport(r),
         NEW t \in Task, row'[t] # row[t]
  PROVE  /\ t = r.item.task /\ row'[t] = r.status /\ r.status \in Active \cup Ended
         /\ row[t] \in Active
<1>1. [Next]_vars
  BY DEF Next, ReportStep
<1>2. t = r.item.task /\ r.seen # "none" /\ row'[t] = r.status
  BY RequestType DEF CommitReport, IInv, TypeOK
<1>3. row[t] # "none" /\ r.status \in Active \cup Ended
  BY <1>2 DEF IInv, TaskInv, RequestInv, Active
<1>4. ~HasResult(t)
  BY <1>1, LastWord DEF CalmInv
<1>5. row[t] \in RowStatus /\ OnTime(t) /\ row[t] # "skipped"
  BY DEF IInv, TypeOK, CalmInv
<1>6. row[t] \in Active
  BY <1>3, <1>4, <1>5 DEF HasResult, Reported, RowStatus
<1> QED BY <1>2, <1>3, <1>6

LEMMA CommitReportOrder ==
  ASSUME IInv, OnceInv, CalmInv, CalmInv', TypeOK', NEW r \in reqs, CommitReport(r),
         \A c \in Deployment : Orderly(c)
  PROVE  \A c \in Deployment : Orderly(c)'
<1> USE DEF redis, broker, ghosts
<1> SUFFICES ASSUME NEW c \in Deployment PROVE Orderly(c)'
  OBVIOUS
<1>0. TypeOK /\ UNCHANGED <<dep, sched, final, worker, ops>>
  BY DEF IInv, CommitReport
<1>1. CASE SameRows(c)
  BY <1>0, <1>1, ElsewhereOrderly DEF SameTable, SameJobs, Calls
<1>2. CASE ~SameRows(c)
  <2>1. PICK t \in Task : t.dep = c /\ row'[t] # row[t]
    BY <1>2 DEF SameRows
  <2>2. \A u \in Task : row'[u] # row[u] => row[u] # "none" /\ row'[u] # "none"
    <3>1. ASSUME NEW u \in Task, row'[u] # row[u] PROVE row[u] # "none" /\ row'[u] # "none"
      BY <3>1, ReportFacts DEF Active, Ended
    <3> QED BY <3>1
  <2>3. RowsIn(c)' = RowsIn(c)
    BY <2>2 DEF RowsIn
  <2>4. ~Idle(c) /\ t \in RowsIn(c)
    BY <2>1, <2>2, ReportFacts DEF Idle, RowsIn
  <2>5. dep[c].status \notin {"absent", "pending", "completed", "failed"} /\ ~Starting(c)
    BY <2>4 DEF Orderly, Unstarted, Done
  <2>6. \A w \in Worker : Job(w, c)' = Job(w, c) /\ Finalizing(w, c)' = Finalizing(w, c)
    BY <1>0 DEF Job, Scheduling, Finalizing
  <2>7. ~Starting(c)' /\ OneJob(c)' /\ Planned(c)'
    BY <1>0, <2>5, <2>6, StillNoJob DEF Calls
  <2>8. Unstarted(c)' /\ OneRun(c)' /\ Counted(c)' /\ Done(c)'
    BY <1>0, <2>3, <2>5, <2>7 DEF Orderly, Unstarted, OneRun, Counted, Done
  <2>9. Finishing(c)'
    BY <1>0, <2>4, <2>6 DEF Orderly, Finishing, Finished
  <2> QED BY <2>7, <2>8, <2>9 DEF Orderly
<1> QED BY <1>1, <1>2

\* Of the steps of a rollback only the commit concerns the deployments: it writes
\* the status.
LEMMA RollbackOrder ==
  ASSUME TypeOK, TypeOK', \A c \in Deployment : Orderly(c),
         (\E d \in Deployment : RollbackLoad(d)) \/ \E o \in ops : RollbackPush(o)
  PROVE  \A c \in Deployment : Orderly(c)'
<1> SUFFICES ASSUME NEW c \in Deployment PROVE Orderly(c)'
  OBVIOUS
<1>1. UNCHANGED <<dep, row, sched, final, worker>>
  BY DEF RollbackLoad, RollbackPush, db, broker
<1>2. Calls(c)' \subseteq Calls(c)
  <2>1. ASSUME NEW d \in Deployment, RollbackLoad(d) PROVE Calls(c)' \subseteq Calls(c)
    BY <2>1 DEF RollbackLoad, NewOp, Calls
  <2>2. ASSUME NEW o \in ops, RollbackPush(o) PROVE Calls(c)' \subseteq Calls(c)
    <3>1. PICK t \in o.rows : ops' = (ops \ {o}) \cup {[o EXCEPT !.rows = @ \ {t}]}
      BY <2>2 DEF RollbackPush
    <3>2. [o EXCEPT !.rows = @ \ {t}].kind = "rollback"
      BY <2>2 DEF RollbackPush, TypeOK, Op
    <3> QED BY <3>1, <3>2 DEF Calls
  <2> QED BY <2>1, <2>2
<1> QED BY <1>1, <1>2, ElsewhereOrderly DEF SameTable, SameRows, SameJobs

LEMMA RollbackCommitOrder ==
  ASSUME TypeOK, TypeOK', NEW o \in ops, RollbackCommit(o), \A c \in Deployment : Orderly(c)
  PROVE  \A c \in Deployment : Orderly(c)'
<1> USE DEF redis, broker, ghosts
<1>0. /\ UNCHANGED <<row, sched, final, worker>> /\ ops' \subseteq ops /\ o \in Op
      /\ dep' = [dep EXCEPT ![o.dep] = Flush(@, o.seen, [o.seen EXCEPT !.status = "rolled_back"])]
  BY DEF RollbackCommit, TypeOK
<1>c. ASSUME NEW c \in Deployment PROVE Calls(c)' \subseteq Calls(c)
  BY <1>0 DEF Calls
<1>1. PICK d \in Deployment : d = o.dep
  BY <1>0 DEF Op
<1>2. ASSUME NEW c \in Deployment, c # d PROVE Orderly(c)'
  <2>1. dep'[c] = dep[c]
    BY <1>0, <1>1, <1>2 DEF TypeOK
  <2> QED BY <1>0, <1>c, <2>1, ElsewhereOrderly DEF SameTable, SameRows, SameJobs
<1>3. Orderly(d)'
  <2>1. Upto(dep'[d], dep[d])
    <3>1. PICK x \in Dep : x = o.seen
      BY <1>0 DEF Op
    <3>2. PICK y \in Dep : y = [x EXCEPT !.status = "rolled_back"]
      BY DEF Dep, DepStatus, Closed
    <3>3. y.total = x.total /\ y.succ = x.succ /\ y.fail = x.fail /\ y.status = "rolled_back"
      BY <3>2 DEF Dep
    <3>4. dep[d] \in Dep /\ dep'[d] = Flush(dep[d], x, y)
      BY <1>0, <1>1, <3>1, <3>2 DEF TypeOK
    <3> QED BY <3>3, <3>4, FlushFacts DEF Upto
  <2>2. /\ RowsIn(d)' = RowsIn(d) /\ Idle(d)' = Idle(d) /\ \A s : Count(d, s)' = Count(d, s)
        /\ Verdict(d)' = Verdict(d)
    BY <1>0, RowsFrame DEF SameRows
  <2>3. \A w \in Worker : Job(w, d)' = Job(w, d) /\ Finalizing(w, d)' = Finalizing(w, d)
    BY <1>0 DEF Job, Scheduling, Finalizing
  <2>4. OneJob(d)' /\ (Starting(d)' => Starting(d))
    <3>1. Waits(d) => Waits(d)'
      BY <2>1 DEF Waits, Upto
    <3>2. \A k \in 0..MaxRetries : sched[<<d, k>>] \in Nat /\ sched'[<<d, k>>] <= sched[<<d, k>>]
      BY <1>0 DEF TypeOK
    <3> QED BY <1>c, <2>3, <3>1, <3>2, JobGoesOn DEF Orderly
  <2>5. Planned(d)'
    BY <1>0, <2>1, <2>3 DEF Orderly, Planned, Upto
  <2>6. Unstarted(d)'
    BY <1>0, <2>1, <2>2, <2>3, <2>4 DEF Orderly, Unstarted, Upto
  <2>7. OneRun(d)' /\ Counted(d)' /\ Done(d)'
    BY <2>1, <2>2 DEF Orderly, OneRun, Counted, Done, Truth, Upto
  <2>8. Finishing(d)'
    BY <1>0, <2>1, <2>2, <2>3 DEF Orderly, Finishing, Finished, Truth, Upto
  <2> QED BY <2>4, <2>5, <2>6, <2>7, <2>8 DEF Orderly
<1> QED BY <1>2, <1>3

\* The steps that touch the deployments and their jobs
LEMMA LifeMoves ==
  ASSUME CalmInv, [Next]_vars
  PROVE  \/ UNCHANGED <<dep, row, sched, final, worker, ops>>
         \/ \E d \in Deployment : CreateCommit(d)
         \/ \E o \in ops : CreateEnqueue(o) \/ ApiFails(o)
         \/ \E d \in Deployment : RollbackLoad(d)
         \/ \E o \in ops : RollbackPush(o) \/ RollbackCommit(o)
         \/ \E d \in Deployment, k \in 0..MaxRetries : ScheduleIgnored(d, k) \/ ScheduleDefer(d, k)
         \/ \E d \in Deployment, w \in Worker : ScheduleLoad(w, d) \/ FinalizeLoad(w, d)
         \/ \E w \in Worker : \/ ScheduleStart(w) \/ SchedulePush(w) \/ ScheduleCommit(w)
                              \/ ScheduleRetry(w) \/ WorkerLost(w)
                              \/ FinalizeCount(w) \/ FinalizeCommit(w)
         \/ \E r \in reqs : LoadRow(r) \/ CommitReport(r)
<1> USE DEF db, redis, broker, ghosts
<1>1. CASE UNCHANGED vars
  BY <1>1 DEF vars
<1>2. CASE ApiStep
  BY <1>2, Undisturbed DEF ApiStep, Decommission, Quarantine
<1>3. CASE WorkerStep
  BY <1>3, Undisturbed DEF WorkerStep
<1>4. CASE ReportStep
  BY <1>4, Undisturbed DEF ReportStep, Refuse, Dequeue, AttemptFails, Receive, Expire
<1>5. CASE AgentStep
  BY <1>5, Undisturbed DEF AgentStep, Fetch, StartInstall, FinishDownload, RunInstaller,
                           RunRollback, AgentDies
<1> QED BY <1>1, <1>2, <1>3, <1>4, <1>5 DEF Next

LEMMA LifeStep == IInv /\ OnceInv /\ LifeInv /\ [Next]_vars => IInv' /\ OnceInv' /\ LifeInv'
<1> SUFFICES ASSUME IInv, OnceInv, LifeInv, [Next]_vars PROVE IInv' /\ OnceInv' /\ LifeInv'
  OBVIOUS
<1>1. IInv' /\ OnceInv' /\ TypeOK /\ TypeOK'
  BY OnceStep DEF IInv
<1>2. CalmInv /\ CalmInv' /\ \A c \in Deployment : Orderly(c)
  BY CalmStep DEF LifeInv
<1>3. \A c \in Deployment : Orderly(c)'
  <2>1. CASE UNCHANGED <<dep, row, sched, final, worker, ops>>
    BY <1>1, <1>2, <2>1, ElsewhereOrderly DEF SameTable, SameRows, SameJobs, Calls
  <2>2. ASSUME NEW d \in Deployment, CreateCommit(d) PROVE \A c \in Deployment : Orderly(c)'
    BY <1>1, <1>2, <2>2, CreateCommitOrder
  <2>3. ASSUME NEW o \in ops, CreateEnqueue(o) \/ ApiFails(o)
        PROVE  \A c \in Deployment : Orderly(c)'
    BY <1>1, <1>2, <2>3, CreateEnqueueOrder, ApiFailsOrder
  <2>4. ASSUME NEW d \in Deployment, NEW k \in 0..MaxRetries,
               ScheduleIgnored(d, k) \/ ScheduleDefer(d, k)
        PROVE  \A c \in Deployment : Orderly(c)'
    BY <1>1, <1>2, <2>4, ScheduleIgnoredOrder, ScheduleDeferOrder
  <2>5. ASSUME NEW d \in Deployment, NEW w \in Worker, ScheduleLoad(w, d) \/ FinalizeLoad(w, d)
        PROVE  \A c \in Deployment : Orderly(c)'
    BY <1>1, <1>2, <2>5, ScheduleLoadOrder, FinalizeLoadOrder
  <2>6. ASSUME NEW w \in Worker,
               ScheduleStart(w) \/ SchedulePush(w) \/ ScheduleCommit(w) \/ ScheduleRetry(w) \/ WorkerLost(w)
        PROVE  \A c \in Deployment : Orderly(c)'
    BY <1>1, <1>2, <2>6, ScheduleTurnOrder, ScheduleCommitOrder, ScheduleRetryOrder, WorkerLostOrder
  <2>7. ASSUME NEW w \in Worker, FinalizeCount(w) \/ FinalizeCommit(w)
        PROVE  \A c \in Deployment : Orderly(c)'
    BY <1>1, <1>2, <2>7, FinalizeCountOrder, FinalizeCommitOrder
  <2>8. ASSUME NEW r \in reqs, LoadRow(r) \/ CommitReport(r)
        PROVE  \A c \in Deployment : Orderly(c)'
    BY <1>1, <1>2, <2>8, LoadRowOrder, CommitReportOrder
  <2>9. ASSUME (\E d \in Deployment : RollbackLoad(d))
                 \/ \E o \in ops : RollbackPush(o) \/ RollbackCommit(o)
        PROVE  \A c \in Deployment : Orderly(c)'
    BY <1>1, <1>2, <2>9, RollbackOrder, RollbackCommitOrder
  <2> QED BY <1>2, <2>1, <2>2, <2>3, <2>4, <2>5, <2>6, <2>7, <2>8, <2>9, LifeMoves
<1> QED BY <1>1, <1>2, <1>3 DEF LifeInv

LEMMA LifeInit ==
  ASSUME Steady, Init
  PROVE  IInv /\ OnceInv /\ LifeInv
<1>1. IInv /\ OnceInv
  BY TypeInit, TaskInit, OnceInit DEF IInv
<1>2. CalmInv
  BY DEF Init, Steady, CalmInv, OnTime
<1>3. ASSUME NEW d \in Deployment PROVE Orderly(d)
  <2>1. /\ dep[d] = NoDep /\ RowsIn(d) = {} /\ final[d] = 0 /\ Calls(d) = {}
        /\ \A k \in 0..MaxRetries : sched[<<d, k>>] = 0
        /\ \A w \in Worker : ~Job(w, d) /\ ~Finalizing(w, d)
    BY RestTypes DEF Init, RowsIn, Calls, Job, Scheduling, Finalizing
  <2>2. NoDep.status = "absent" /\ NoDep.total = 0 /\ NoDep.succ = 0 /\ NoDep.fail = 0
    BY DEF NoDep
  <2>3. ~Starting(d)
    <3>1. \A k \in 0..MaxRetries : ~(sched[<<d, k>>] > 0)
      BY <2>1
    <3> QED BY <2>1, <3>1 DEF Starting
  <2> QED BY <2>1, <2>2, <2>3, FS_EmptySet DEF Orderly, OneJob, Unstarted, Planned, OneRun, Counted,
                                              Done, Finishing
<1> QED BY <1>1, <1>2, <1>3 DEF LifeInv

LEMMA RowsAddUp ==
  ASSUME NEW d, \A t \in Task : t.dep = d => row[t] \in {"none", "success", "failed", "rolled_back"}
  PROVE  /\ Cardinality(RowsIn(d)) =
              Count(d, "success") + Count(d, "rolled_back") + Count(d, "failed")
         /\ Count(d, "skipped") = 0
<1> DEFINE R(s) == {t \in Task : t.dep = d /\ row[t] = s}
<1>1. \A s : IsFiniteSet(R(s)) /\ Count(d, s) = Cardinality(R(s)) /\ Count(d, s) \in Nat
  <2>1. ASSUME NEW s PROVE IsFiniteSet(R(s)) /\ Count(d, s) = Cardinality(R(s)) /\ Count(d, s) \in Nat
    <3>1. R(s) \subseteq Task
      OBVIOUS
    <3>2. Count(d, s) = Cardinality(R(s))
      BY DEF Count
    <3> QED BY <3>1, <3>2, TasksFinite, FS_Subset, CountType
  <2> QED BY <2>1
<1>2. /\ R("success") \cap R("rolled_back") = {}
      /\ (R("success") \cup R("rolled_back")) \cap R("failed") = {}
      /\ RowsIn(d) = (R("success") \cup R("rolled_back")) \cup R("failed")
      /\ R("skipped") = {}
  BY DEF RowsIn
<1> HIDE DEF R
<1>3. /\ IsFiniteSet(R("success") \cup R("rolled_back"))
      /\ Cardinality(R("success") \cup R("rolled_back")) =
           Cardinality(R("success")) + Cardinality(R("rolled_back")) - Cardinality({})
  BY <1>1, <1>2, FS_Union
<1>4. Cardinality(RowsIn(d)) =
        Cardinality(R("success") \cup R("rolled_back")) + Cardinality(R("failed")) - Cardinality({})
  BY <1>1, <1>2, <1>3, FS_Union
<1> QED BY <1>1, <1>2, <1>3, <1>4, FS_EmptySet

\* A deployment that is completed or failed has no row left to wait for, if
\* nothing disturbs the rollout: a finalize job that finds a row active gives up,
\* it is queued for a row that is there, and no report takes a result back.  That
\* somebody rolls the deployment back meanwhile does not matter.
THEOREM DoneForGood == ASSUME Steady PROVE Spec => []DoneMeansDone
<1>1. Init => IInv /\ OnceInv /\ LifeInv
  BY LifeInit
<1>2. LifeInv => DoneMeansDone
  BY DEF LifeInv, Orderly, Done, Idle, DoneMeansDone
<1> QED BY <1>1, <1>2, LifeStep, PTL DEF Spec

\* The counters of a finished deployment are the truth about its rows, if nothing
\* disturbs the rollout: whoever finalizes it, and however often, writes the same.
THEOREM CountsTrue == ASSUME Steady PROVE Spec => []CountsAreTrue
<1>1. Init => IInv /\ OnceInv /\ LifeInv
  BY LifeInit
<1>2. IInv /\ LifeInv => CountsAreTrue
  <2> SUFFICES ASSUME IInv, LifeInv, NEW d \in Deployment, dep[d].status \in {"completed", "failed"}
               PROVE  /\ dep[d].succ = Count(d, "success") + Count(d, "rolled_back")
                      /\ dep[d].fail = Count(d, "failed")
                      /\ dep[d].total = dep[d].succ + dep[d].fail + Count(d, "skipped")
                      /\ (dep[d].status = "completed") <=> (dep[d].fail = 0)
    BY DEF CountsAreTrue
  <2>1. Truth(d, dep[d]) /\ Idle(d) /\ dep[d].total = Cardinality(RowsIn(d))
    BY DEF LifeInv, Orderly, Done, Counted
  <2>2. \A t \in Task : t.dep = d => row[t] \in {"none", "success", "failed", "rolled_back"}
    BY <2>1 DEF IInv, TypeOK, RowStatus, Ended, Idle, LifeInv, CalmInv
  <2>v. dep[d].status = Verdict(d)
    BY <2>1 DEF Truth
  <2>3. /\ Count(d, "success") \in Nat /\ Count(d, "rolled_back") \in Nat /\ Count(d, "failed") \in Nat
    BY CountType
  <2> QED BY <2>1, <2>2, <2>v, <2>3, RowsAddUp DEF Truth, Verdict
<1> QED BY <1>1, <1>2, LifeStep, PTL DEF Spec

-----------------------------------------------------------------------------
(* The steps of Rollout are steps of Lifecycle if nobody rolls back           *)

KeptInv ==
  /\ budget["rollback"] = 0 /\ \A o \in ops : o.kind # "rollback"
  /\ \A d \in Deployment : dep[d].status # "rolled_back"

LEMMA NoRollback ==
  ASSUME KeptInv
  PROVE  /\ \A d : ~RollbackLoad(d)
         /\ \A o \in ops : ~RollbackPush(o) /\ ~RollbackCommit(o)
BY DEF KeptInv, RollbackLoad, RollbackPush, RollbackCommit, Spend

LEMMA KeptStep == IInv /\ OnceInv /\ LifeInv /\ KeptInv /\ [Next]_vars => KeptInv'
<1> SUFFICES ASSUME IInv, OnceInv, LifeInv, KeptInv, [Next]_vars PROVE KeptInv'
  OBVIOUS
<1> USE DEF db, redis, broker, ghosts
<1>1. TypeOK /\ CalmInv /\ \A c \in Deployment : Orderly(c)
  BY DEF IInv, LifeInv
<1>2. budget'["rollback"] = 0
  <2>1. UNCHANGED budget \/ \E f : Spend(f)
    <3>1. CASE ApiStep
      BY <1>1, <3>1, Undisturbed, NoRollback
      DEF ApiStep, CreateCommit, CreateEnqueue, ApiFails, Decommission, Quarantine
    <3>2. CASE WorkerStep
      BY <3>2 DEF WorkerStep, ScheduleIgnored, ScheduleDefer, Redeliver, ScheduleLoad, FinalizeLoad,
         ScheduleStart, SchedulePush, ScheduleCommit, ScheduleRetry, FinalizeCount,
         FinalizeCommit, WorkerLost
    <3>3. CASE ReportStep
      BY <1>1, <3>3, Undisturbed
      DEF ReportStep, Refuse, Dequeue, LoadRow, CommitReport, AttemptFails, Receive, Expire
    <3>4. CASE AgentStep
      BY <1>1, <3>4, Undisturbed DEF AgentStep, Fetch, StartInstall, FinishDownload, RunInstaller,
         RunRollback, AgentDies
    <3> QED BY <3>1, <3>2, <3>3, <3>4 DEF Next, vars
  <2>2. ASSUME NEW g, Spend(g) PROVE budget'["rollback"] = 0
    BY <1>1, <2>2 DEF KeptInv, Spend, TypeOK, Fault
  <2> QED BY <2>1, <2>2 DEF KeptInv
<1>3. \A o \in ops' : o.kind # "rollback"
  <2>1. ops' \subseteq ops \/ \E d \in Deployment : ops' = ops \cup {NewOp("create", d, {}, 0)}
    BY <1>1, LifeMoves, NoRollback DEF CreateCommit, CreateEnqueue, ApiFails, ScheduleIgnored,
       ScheduleDefer, ScheduleLoad, FinalizeLoad, ScheduleStart, SchedulePush, ScheduleCommit,
       ScheduleRetry, WorkerLost, FinalizeCount, FinalizeCommit, LoadRow, CommitReport
  <2>2. \A d : NewOp("create", d, {}, 0).kind = "create"
    BY DEF NewOp
  <2> QED BY <2>1, <2>2 DEF KeptInv
<1>4. ASSUME NEW c \in Deployment PROVE dep'[c].status # "rolled_back"
  <2>1. CASE UNCHANGED dep
    BY <2>1 DEF KeptInv
  <2>2. ASSUME NEW d \in Deployment, CreateCommit(d) PROVE dep'[c].status # "rolled_back"
    <3>1. dep' = [dep EXCEPT ![d] = [dep[d] EXCEPT !.status = "pending"]] /\ dep \in [Deployment -> Dep]
      BY <1>1, <2>2 DEF CreateCommit, TypeOK
    <3> QED BY <3>1 DEF KeptInv, Dep
  <2>3. ASSUME NEW w \in Worker, ScheduleCommit(w) PROVE dep'[c].status # "rolled_back"
    <3>1. PICK d \in Deployment : d = worker[w].dep
      BY <1>1, <2>3, RunTaskFacts DEF ScheduleCommit, Scheduling
    <3>2. CASE c = d
      BY <1>1, <2>3, <3>1, <3>2, ScheduleCommitFacts
    <3>3. CASE c # d
      BY <1>1, <2>3, <3>1, <3>3 DEF KeptInv, ScheduleCommit, TypeOK
    <3> QED BY <3>2, <3>3
  <2>4. ASSUME NEW w \in Worker, FinalizeCommit(w) PROVE dep'[c].status # "rolled_back"
    <3>1. PICK d \in Deployment : d = worker[w].dep
      BY <1>1, <2>4 DEF FinalizeCommit, TypeOK, WorkerState
    <3>2. CASE c = d
      BY <1>1, <2>4, <3>1, <3>2, FinalizeCommitFacts DEF KeptInv, Verdict
    <3>3. CASE c # d
      BY <1>1, <2>4, <3>1, <3>3 DEF KeptInv, FinalizeCommit, TypeOK
    <3> QED BY <3>2, <3>3
  <2>5. \/ UNCHANGED dep \/ \E d \in Deployment : CreateCommit(d)
        \/ \E w \in Worker : ScheduleCommit(w) \/ FinalizeCommit(w)
    BY <1>1, LifeMoves, NoRollback DEF CreateEnqueue, ApiFails, ScheduleIgnored, ScheduleDefer,
       ScheduleLoad, FinalizeLoad, ScheduleStart, SchedulePush, ScheduleRetry, WorkerLost,
       FinalizeCount, LoadRow, CommitReport
  <2> QED BY <2>1, <2>2, <2>3, <2>4, <2>5
<1> QED BY <1>2, <1>3, <1>4 DEF KeptInv

Status == [d \in Deployment |-> dep[d].status]

\* The endpoints of d that have a row in S
With(d, S) == {e \in Endpoint : \E t \in Task : t.dep = d /\ t.ep = e /\ row[t] \in S}

LEMMA WithFacts ==
  \A S : /\ EndpointsWith(S) = [d \in Deployment |-> With(d, S)]
         /\ EndpointsWith(S)' = [d \in Deployment |-> With(d, S)']
BY DEF EndpointsWith, With

LEMMA SameView ==
  ASSUME \A d \in Deployment : dep'[d].status = dep[d].status /\ SameRows(d)
  PROVE  UNCHANGED LC!vars
<1>1. ASSUME NEW S PROVE EndpointsWith(S)' = EndpointsWith(S)
  BY DEF EndpointsWith, SameRows, Task
<1>2. Status' = Status
  BY DEF Status
<1>3. EndpointsWith(Active)' = EndpointsWith(Active) /\ EndpointsWith({"failed"})' = EndpointsWith({"failed"})
  BY <1>1
<1> QED BY <1>2, <1>3 DEF LC!vars, Status

LEMMA CreateView ==
  ASSUME TypeOK, NEW d \in Deployment, CreateCommit(d)
  PROVE  LC!Create(d)
<1>1. /\ dep \in [Deployment -> Dep] /\ dep[d].status = "absent" /\ row' = row
      /\ dep' = [dep EXCEPT ![d] = [dep[d] EXCEPT !.status = "pending"]]
  BY DEF TypeOK, CreateCommit
<1>2. dep'[d].status = "pending" /\ \A c \in Deployment : c # d => dep'[c] = dep[c]
  BY <1>1 DEF Dep
<1>3. Status' = [Status EXCEPT ![d] = "pending"]
  BY <1>2 DEF Status
<1>4. EndpointsWith(Active)' = EndpointsWith(Active) /\ EndpointsWith({"failed"})' = EndpointsWith({"failed"})
  BY <1>1 DEF EndpointsWith
<1> QED BY <1>1, <1>3, <1>4 DEF LC!Create, Status

LEMMA StartView ==
  ASSUME TypeOK, KeptInv, NEW w \in Worker, ScheduleCommit(w), \A c \in Deployment : Orderly(c)
  PROVE  \E d \in Deployment, S \in SUBSET Endpoint : LC!Start(d, S)
<1>1. /\ Scheduling(w) /\ dep \in [Deployment -> Dep] /\ row \in [Task -> RowStatus]
      /\ dep' = [dep EXCEPT ![worker[w].dep] = Flush(@, worker[w].seen, worker[w].new)]
      /\ row' = [t \in Task |-> IF t \in NewRows(worker[w]) THEN "pending" ELSE row[t]]
  BY DEF ScheduleCommit, Scheduling, TypeOK
<1>2. PICK d \in Deployment : d = worker[w].dep
  BY <1>1, RunTaskFacts
<1>3. PICK S \in SUBSET Endpoint : S = worker[w].pushed
  BY <1>1, RunTaskFacts
<1>4. /\ dep[d].status = "pending" /\ RowsIn(d) = {}
      /\ dep'[d].status = (IF S = {} THEN "completed" ELSE "in_progress")
      /\ \A t \in Task : t.dep = d => row'[t] = IF t \in NewRows(worker[w]) THEN "pending" ELSE "none"
  BY <1>2, <1>3, ScheduleCommitFacts DEF Waits, KeptInv
<1>5. Status' = [Status EXCEPT ![d] = IF S = {} THEN "completed" ELSE "in_progress"]
  <2>1. \A c \in Deployment : c # d => dep'[c] = dep[c]
    BY <1>1, <1>2
  <2> QED BY <1>4, <2>1 DEF Status
<1>6. \A T : \A c \in Deployment : c # d => With(c, T)' = With(c, T)
  BY <1>1, <1>2 DEF With, NewRows
<1>7. With(d, Active)' = S
  <2>1. ASSUME NEW e \in Endpoint
        PROVE  e \in S <=> \E t \in Task : t.dep = d /\ t.ep = e /\ row'[t] \in Active
    <3>1. ASSUME e \in S PROVE \E t \in Task : t.dep = d /\ t.ep = e /\ row'[t] \in Active
      <4>1. RunTask(w, e) \in Task /\ RunTask(w, e).dep = d /\ RunTask(w, e).ep = e
            /\ RunTask(w, e).run = worker[w].run
        BY <1>1, <1>2, RunTaskFacts
      <4>2. RunTask(w, e) \in NewRows(worker[w])
        BY <1>2, <1>3, <3>1, <4>1 DEF NewRows
      <4> QED BY <1>4, <4>1, <4>2 DEF Active
    <3>2. ASSUME NEW t \in Task, t.dep = d, t.ep = e, row'[t] \in Active PROVE e \in S
      BY <1>3, <1>4, <3>2 DEF NewRows, Active
    <3> QED BY <3>1, <3>2
  <2> QED BY <2>1 DEF With
<1>8. With(d, {"failed"})' = With(d, {"failed"})
  BY <1>4 DEF With, RowsIn
<1>9. EndpointsWith(Active)' = [EndpointsWith(Active) EXCEPT ![d] = S]
  BY <1>6, <1>7, WithFacts
<1>10. EndpointsWith({"failed"})' = EndpointsWith({"failed"})
  BY <1>6, <1>8, WithFacts
<1>11. LC!Start(d, S)
  BY <1>4, <1>5, <1>9, <1>10 DEF LC!Start, Status
<1> QED BY <1>11

LEMMA SettleView ==
  ASSUME IInv, OnceInv, CalmInv, CalmInv', NEW r \in reqs, CommitReport(r),
         \A c \in Deployment : Orderly(c)
  PROVE  UNCHANGED LC!vars \/ \E d \in Deployment, e \in Endpoint : LC!Settle(d, e)
<1>1. dep' = dep
  BY DEF CommitReport
<1>2. CASE \A t \in Task : row'[t] = row[t]
  BY <1>1, <1>2, SameView DEF SameRows
<1>3. CASE \E t \in Task : row'[t] # row[t]
  <2>1. PICK t \in Task : row'[t] # row[t]
    BY <1>3
  <2>2. /\ row[t] \in Active /\ row'[t] = r.status /\ r.status \in Active \cup Ended
        /\ \A u \in Task : u # t => row'[u] = row[u]
    BY <2>1, ReportFacts
  <2>3. PICK d \in Deployment : d = t.dep
    BY DEF Task
  <2>4. PICK e \in Endpoint : e = t.ep
    BY DEF Task
  <2>5. \A T : \A c \in Deployment : c # d => With(c, T)' = With(c, T)
    BY <2>2, <2>3 DEF With
  <2>6. \A u \in Task : u.dep = d /\ u.ep = e /\ row[u] # "none" => u = t
    <3>1. t \in RowsIn(d) /\ OneRun(d)
      BY <2>2, <2>3 DEF RowsIn, Orderly, Active
    <3>2. ASSUME NEW u \in Task, u.dep = d, u.ep = e, row[u] # "none" PROVE u = t
      <4>1. u.run = t.run
        BY <3>1, <3>2 DEF RowsIn, OneRun
      <4> QED BY <2>3, <2>4, <3>2, <4>1 DEF Task
    <3> QED BY <3>2
  <2>7. /\ e \in With(d, Active)
        /\ With(d, Active)' = IF r.status \in Active THEN With(d, Active) ELSE With(d, Active) \ {e}
        /\ With(d, {"failed"})' = IF r.status = "failed" THEN With(d, {"failed"}) \cup {e}
                                                       ELSE With(d, {"failed"})
    <3>1. \A T : \A c \in Endpoint : c # e => (c \in With(d, T)' <=> c \in With(d, T))
      BY <2>2, <2>4 DEF With
    <3>2. \A T : "none" \notin T => (e \in With(d, T) <=> row[t] \in T)
      BY <2>3, <2>4, <2>6 DEF With
    <3>3. \A u \in Task : u.dep = d /\ u.ep = e /\ row'[u] # "none" => u = t
      BY <2>2, <2>6
    <3>4. \A T : "none" \notin T => (e \in With(d, T)' <=> r.status \in T)
      BY <2>2, <2>3, <2>4, <3>3 DEF With
    <3>5. "none" \notin Active /\ "none" \notin {"failed"} /\ "failed" \notin Active
      BY DEF Active
    <3>6. e \in With(d, Active) /\ e \notin With(d, {"failed"})
          /\ (e \in With(d, Active)' <=> r.status \in Active)
          /\ (e \in With(d, {"failed"})' <=> r.status = "failed")
      BY <2>2, <3>2, <3>4, <3>5
    <3>7. \A T : With(d, T) \subseteq Endpoint /\ With(d, T)' \subseteq Endpoint
      BY DEF With
    <3> QED BY <3>1, <3>6, <3>7, <3>5
  <2>8. CASE r.status \in Active
    <3>1. \A c \in Deployment : With(c, Active)' = With(c, Active) /\ With(c, {"failed"})' = With(c, {"failed"})
      BY <2>5, <2>7, <2>8 DEF Active
    <3> QED BY <1>1, <3>1, WithFacts DEF LC!vars
  <2>9. CASE r.status \notin Active
    <3>1. EndpointsWith(Active)' = [EndpointsWith(Active) EXCEPT ![d] = @ \ {e}]
      BY <2>5, <2>7, <2>9, WithFacts
    <3>2. EndpointsWith({"failed"})' \in {EndpointsWith({"failed"}),
             [EndpointsWith({"failed"}) EXCEPT ![d] = @ \cup {e}]}
      BY <2>5, <2>7, WithFacts
    <3>3. e \in EndpointsWith(Active)[d]
      BY <2>7, WithFacts
    <3>4. LC!Settle(d, e)
      BY <1>1, <3>1, <3>2, <3>3 DEF LC!Settle
    <3> QED BY <3>4
  <2> QED BY <2>8, <2>9
<1> QED BY <1>2, <1>3

LEMMA FinishView ==
  ASSUME TypeOK, KeptInv, NEW w \in Worker, FinalizeCommit(w), \A c \in Deployment : Orderly(c)
  PROVE  UNCHANGED LC!vars \/ \E d \in Deployment : LC!Finish(d)
<1>1. /\ dep \in [Deployment -> Dep] /\ row' = row /\ worker[w].pc = "finish"
      /\ dep' = [dep EXCEPT ![worker[w].dep] = Flush(@, worker[w].seen, worker[w].new)]
  BY DEF FinalizeCommit, TypeOK
<1>2. PICK d \in Deployment : d = worker[w].dep
  BY <1>1 DEF TypeOK, WorkerState
<1>3. /\ dep[d].status \in {"in_progress", "completed", "failed"} /\ Idle(d)
      /\ dep'[d].status = Verdict(d)
      /\ dep[d].status \in {"completed", "failed"} => dep[d].status = Verdict(d)
      /\ \A c \in Deployment : c # d => dep'[c] = dep[c]
  <2>1. dep[d].status \in DepStatus
    BY <1>1 DEF Dep
  <2>2. dep[d].status \notin {"absent", "pending"} /\ Idle(d) /\ dep'[d].status = Verdict(d)
    BY <1>2, FinalizeCommitFacts DEF KeptInv
  <2>3. dep[d].status \notin {"cancelled", "rolled_back"}
    BY DEF KeptInv, Orderly, Done
  <2>4. dep[d].status \in {"completed", "failed"} => dep[d].status = Verdict(d)
    BY DEF Orderly, Done, Truth
  <2> QED BY <1>1, <1>2, <2>1, <2>2, <2>3, <2>4 DEF DepStatus, Open, Closed
<1>4. CASE dep[d].status \in {"completed", "failed"}
  <2>1. \A c \in Deployment : dep'[c].status = dep[c].status /\ SameRows(c)
    BY <1>1, <1>3, <1>4 DEF SameRows
  <2> QED BY <2>1, SameView
<1>5. CASE dep[d].status = "in_progress"
  <2>1. With(d, Active) = {}
    BY <1>3 DEF With, Idle
  <2>2. Count(d, "failed") = 0 <=> With(d, {"failed"}) = {}
    <3> DEFINE F == {t \in Task : t.dep = d /\ row[t] = "failed"}
    <3>1. IsFiniteSet(F)
      BY TasksFinite, FS_Subset
    <3>2. Cardinality(F) = 0 <=> F = {}
      BY <3>1, FS_EmptySet
    <3>3. Count(d, "failed") = Cardinality(F)
      BY DEF Count
    <3>4. F = {} <=> With(d, {"failed"}) = {}
      BY DEF With, Task
    <3> QED BY <3>2, <3>3, <3>4
  <2>3. Status' = [Status EXCEPT ![d] = IF With(d, {"failed"}) = {} THEN "completed" ELSE "failed"]
    BY <1>3, <2>2 DEF Status, Verdict
  <2>4. EndpointsWith(Active)' = EndpointsWith(Active) /\ EndpointsWith({"failed"})' = EndpointsWith({"failed"})
    BY <1>1 DEF EndpointsWith
  <2>5. EndpointsWith(Active)[d] = {} /\ EndpointsWith({"failed"})[d] = With(d, {"failed"})
    BY <2>1, WithFacts
  <2>6. LC!Finish(d)
    BY <1>5, <2>3, <2>4, <2>5 DEF LC!Finish, Status
  <2> QED BY <2>6
<1> QED BY <1>3, <1>4, <1>5

LEMMA LifeView == IInv /\ OnceInv /\ LifeInv /\ KeptInv /\ [Next]_vars => [LC!Next]_(LC!vars)
<1> SUFFICES ASSUME IInv, OnceInv, LifeInv, KeptInv, [Next]_vars PROVE LC!Next \/ UNCHANGED LC!vars
  OBVIOUS
<1>1. TypeOK /\ CalmInv /\ CalmInv' /\ \A c \in Deployment : Orderly(c)
  BY CalmStep DEF LifeInv, IInv
<1>2. CASE UNCHANGED <<dep, row>>
  BY <1>2, SameView DEF SameRows
<1>3. ASSUME NEW d \in Deployment, CreateCommit(d) PROVE LC!Next
  BY <1>1, <1>3, CreateView DEF LC!Next
<1>4. ASSUME NEW w \in Worker, ScheduleCommit(w) PROVE LC!Next
  BY <1>1, <1>4, StartView DEF LC!Next
<1>5. ASSUME NEW w \in Worker, FinalizeCommit(w) PROVE LC!Next \/ UNCHANGED LC!vars
  BY <1>1, <1>5, FinishView DEF LC!Next
<1>6. ASSUME NEW r \in reqs, CommitReport(r) PROVE LC!Next \/ UNCHANGED LC!vars
  BY <1>1, <1>6, SettleView DEF LC!Next
<1>7. \/ UNCHANGED <<dep, row>>
      \/ \E d \in Deployment : CreateCommit(d)
      \/ \E w \in Worker : ScheduleCommit(w) \/ FinalizeCommit(w)
      \/ \E r \in reqs : CommitReport(r)
  BY <1>1, LifeMoves, NoRollback
  DEF CreateEnqueue, ApiFails, ScheduleIgnored, ScheduleDefer, ScheduleLoad,
     FinalizeLoad, ScheduleStart, SchedulePush, ScheduleRetry, WorkerLost, FinalizeCount, LoadRow,
     db, redis, broker, ghosts
<1> QED BY <1>2, <1>3, <1>4, <1>5, <1>6, <1>7

\* Rollout implements Lifecycle if nothing disturbs it and nobody rolls back, which
\* closes a deployment from any status: a deployment is created, starts on a set of
\* endpoints, settles one endpoint after the other and finishes once, when nobody
\* is waited for, for any number of deployments, endpoints and workers, and whatever
\* breaks on the way.
THEOREM KeepsThePromise == ASSUME Steady, Kept PROVE Spec => ImplementsLifecycle
<1>1. Init => IInv /\ OnceInv /\ LifeInv /\ KeptInv
  BY LifeInit DEF Init, Kept, KeptInv, NoDep
<1>2. Init => LC!Init
  BY DEF Init, LC!Init, EndpointsWith, NoDep, Active
<1> QED BY <1>1, <1>2, LifeStep, KeptStep, LifeView, PTL DEF Spec, LC!Spec, ImplementsLifecycle
=============================================================================
