---------------------------- MODULE RolloutProofs ----------------------------
(***************************************************************************)
(* The lemmas about the list operations of Rollout, and type correctness,  *)
(* for any number of deployments, endpoints, workers and faults.           *)
(***************************************************************************)
EXTENDS RolloutInvariant, FiniteSetTheorems, SequenceTheorems, TLAPS

-----------------------------------------------------------------------------
(* The list operations *)

\* LREM keeps the list a list of tasks, takes nothing else off and adds nothing.
LEMMA LRemFacts ==
  ASSUME NEW q \in Seq(Item), NEW i \in Item
  PROVE  /\ LRem(q, i) \in Seq(Item)
         /\ Elements(LRem(q, i)) \subseteq Elements(q)
         /\ \A x \in Elements(q) : x # i => x \in Elements(LRem(q, i))
         /\ Distinct(q) => Distinct(LRem(q, i))
<1>1. CASE i \notin Elements(q)
  BY <1>1 DEF LRem
<1>2. CASE i \in Elements(q)
  <2> DEFINE n == CHOOSE k \in DOMAIN q : q[k] = i
             a == SubSeq(q, 1, n - 1)
             b == SubSeq(q, n + 1, Len(q))
             s == a \o b
  <2>1. n \in 1..Len(q) /\ q[n] = i
    BY <1>2 DEF Elements
  <2>2. LRem(q, i) = s
    BY <1>2 DEF LRem
  <2> HIDE DEF n
  <2>3. a \in Seq(Item) /\ Len(a) = n - 1 /\ \A k \in 1..(n - 1) : a[k] = q[k]
    BY <2>1
  <2>4. b \in Seq(Item) /\ Len(b) = Len(q) - n /\ \A k \in 1..(Len(q) - n) : b[k] = q[n + k]
    BY <2>1
  <2> HIDE DEF a, b
  <2>5. /\ s \in Seq(Item) /\ Len(s) = Len(q) - 1
        /\ \A k \in 1..(Len(q) - 1) : s[k] = IF k < n THEN q[k] ELSE q[k + 1]
    <3>1. /\ s \in Seq(Item) /\ Len(s) = Len(a) + Len(b)
          /\ \A k \in 1..(Len(a) + Len(b)) : s[k] = IF k <= Len(a) THEN a[k] ELSE b[k - Len(a)]
      BY <2>3, <2>4, ConcatProperties
    <3> HIDE DEF s
    <3>2. ASSUME NEW k \in 1..(Len(q) - 1) PROVE s[k] = IF k < n THEN q[k] ELSE q[k + 1]
      <4>0. /\ Len(q) \in Nat /\ k \in 1..(Len(a) + Len(b))
            /\ s[k] = IF k <= n - 1 THEN a[k] ELSE b[k - (n - 1)]
        BY <2>1, <2>3, <2>4, <3>1
      <4>1. CASE k < n
        <5>1. k \in 1..(n - 1) /\ s[k] = a[k]
          BY <2>1, <4>0, <4>1
        <5> QED BY <2>3, <4>1, <5>1
      <4>2. CASE k >= n
        <5>1. k - (n - 1) \in 1..(Len(q) - n) /\ s[k] = b[k - (n - 1)]
          BY <2>1, <4>0, <4>2
        <5>2. b[k - (n - 1)] = q[n + (k - (n - 1))]
          BY <2>4, <5>1
        <5> QED BY <2>1, <4>2, <5>1, <5>2
      <4> QED BY <2>1, <4>1, <4>2
    <3> QED BY <2>1, <2>3, <2>4, <3>1, <3>2
  <2> HIDE DEF s
  <2>6. Elements(s) \subseteq Elements(q)
    BY <2>1, <2>5 DEF Elements
  <2>7. ASSUME NEW x \in Elements(q), x # i PROVE x \in Elements(s)
    <3>1. PICK k \in 1..Len(q) : q[k] = x
      BY DEF Elements
    <3>2. CASE k < n
      <4>1. k \in DOMAIN s /\ s[k] = x
        BY <2>1, <2>5, <3>1, <3>2
      <4> QED BY <4>1 DEF Elements
    <3>3. CASE k > n
      <4>1. k - 1 \in DOMAIN s /\ s[k - 1] = x
        BY <2>1, <2>5, <3>1, <3>3
      <4> QED BY <4>1 DEF Elements
    <3>4. k # n /\ k \in Int /\ n \in Int
      BY <2>1, <2>7, <3>1
    <3>5. k < n \/ k > n
      BY <3>4
    <3> QED BY <3>2, <3>3, <3>5
  <2>8. ASSUME Distinct(q) PROVE Distinct(s)
    <3> DEFINE m(k) == IF k < n THEN k ELSE k + 1
    <3>1. \A k \in DOMAIN s : k \in Int /\ n \in Int /\ m(k) \in DOMAIN q /\ s[k] = q[m(k)]
      BY <2>1, <2>5
    <3> SUFFICES ASSUME NEW j \in DOMAIN s, NEW k \in DOMAIN s,
                        s[j] = s[k], s[j].kind = "install"
                 PROVE  j = k
      BY DEF Distinct
    <3>2. m(j) = m(k)
      <4> HIDE DEF m
      <4> QED BY <2>8, <3>1 DEF Distinct
    <3> QED BY <3>1, <3>2
  <2> QED BY <2>2, <2>5, <2>6, <2>7, <2>8
<1> QED BY <1>1, <1>2

\* LRANGE returns an initial part of the list.
LEMMA LRangeFacts ==
  ASSUME NEW q \in Seq(Item), NEW n \in Nat
  PROVE  /\ LRange(q, n) \in Seq(Item)
         /\ Len(LRange(q, n)) <= Len(q)
         /\ q # <<>> /\ n # 0 => LRange(q, n) # <<>>
         /\ \A k \in DOMAIN LRange(q, n) : k \in DOMAIN q /\ LRange(q, n)[k] = q[k]
<1> DEFINE m == IF Len(q) < n THEN Len(q) ELSE n
<1>1. m \in Nat /\ m <= Len(q) /\ (Len(q) # 0 /\ n # 0 => m # 0)
  OBVIOUS
<1>2. LRange(q, n) = SubSeq(q, 1, m)
  BY DEF LRange
<1> HIDE DEF m
<1>3. \A k \in 1..m : q[k] \in Item
  BY <1>1
<1>4. /\ SubSeq(q, 1, m) \in Seq(Item) /\ Len(SubSeq(q, 1, m)) = m
      /\ \A k \in 1..m : SubSeq(q, 1, m)[k] = q[k]
  BY <1>1
<1>5. q # <<>> => Len(q) # 0
  BY EmptySeq
<1>6. m # 0 => SubSeq(q, 1, m) # <<>>
  BY <1>1, <1>4
<1> QED BY <1>1, <1>2, <1>4, <1>5, <1>6

\* RPUSH adds one element.
LEMMA AppendFacts ==
  ASSUME NEW q \in Seq(Item), NEW i \in Item
  PROVE  /\ Append(q, i) \in Seq(Item)
         /\ Elements(Append(q, i)) = Elements(q) \cup {i}
         /\ Distinct(q) /\ (i.kind = "install" => i \notin Elements(q)) => Distinct(Append(q, i))
<1>1. /\ Append(q, i) \in Seq(Item) /\ Len(Append(q, i)) = Len(q) + 1
      /\ \A k \in 1..(Len(q) + 1) : Append(q, i)[k] = IF k = Len(q) + 1 THEN i ELSE q[k]
  OBVIOUS
<1>2. Elements(Append(q, i)) = Elements(q) \cup {i}
  BY <1>1 DEF Elements
<1>3. Distinct(q) /\ (i.kind = "install" => i \notin Elements(q)) => Distinct(Append(q, i))
  BY <1>1 DEF Elements, Distinct
<1> QED BY <1>1, <1>2, <1>3

-----------------------------------------------------------------------------
(* Type correctness *)

LEMMA RestTypes ==
  /\ NoDep \in Dep
  /\ Resting \in WorkerState /\ Resting.pc = "idle"
  /\ Sleeping \in AgentState /\ Sleeping.phase = "idle" /\ Sleeping.todo = <<>>
<1>1. NoDep \in Dep
  BY DEF NoDep, Dep, DepStatus
<1>2. Resting \in WorkerState /\ Resting.pc = "idle"
  BY <1>1 DEF Resting, WorkerState
<1>3. Sleeping \in AgentState /\ Sleeping.phase = "idle" /\ Sleeping.todo = <<>>
  BY DEF Sleeping, AgentState
<1> QED BY <1>1, <1>2, <1>3

\* A flush writes a row of the right type.
LEMMA FlushType ==
  ASSUME NEW cur \in Dep, NEW old \in Dep, NEW new \in Dep
  PROVE  Flush(cur, old, new) \in Dep
<1>1. DOMAIN cur = {"status", "total", "succ", "fail"}
  BY DEF Dep
<1> QED BY <1>1 DEF Flush, Dep

LEMMA MarkType ==
  ASSUME mishap \in [Task -> SUBSET Mishap], NEW T, NEW k \in Mishap, Mark(T, k)
  PROVE  mishap' \in [Task -> SUBSET Mishap]
BY DEF Mark

LEMMA SpendType ==
  ASSUME budget \in [Fault -> Nat], NEW f \in Fault, Spend(f)
  PROVE  budget' \in [Fault -> Nat]
BY DEF Spend

\* There are finitely many tasks, so they can be counted.
LEMMA TasksFinite == IsFiniteSet(Task)
<1>1. IsFiniteSet(Deployment) /\ IsFiniteSet(Endpoint) /\ IsFiniteSet(1..MaxRuns)
  BY RolloutAssumption, FS_Interval
<1> DEFINE P == Deployment \X ((1..MaxRuns) \X Endpoint)
           f == [p \in P |-> TaskOf(p[1], p[2][1], p[2][2])]
<1>2. IsFiniteSet(P)
  BY <1>1, FS_Product
<1>3. Task \subseteq {f[p] : p \in P}
  <2> SUFFICES ASSUME NEW t \in Task PROVE \E p \in P : f[p] = t
    OBVIOUS
  <2>1. <<t.dep, <<t.run, t.ep>>>> \in P
    BY DEF Task
  <2>2. f[<<t.dep, <<t.run, t.ep>>>>] = t
    BY <2>1 DEF Task, TaskOf
  <2> QED BY <2>1, <2>2
<1>4. IsFiniteSet({f[p] : p \in P})
  <2> HIDE DEF P
  <2>1. f \in Surjection(P, {f[p] : p \in P})
    BY DEF Surjection
  <2> QED BY <1>2, <2>1, FS_Surjection
<1> QED BY <1>3, <1>4, FS_Subset

LEMMA CountType ==
  ASSUME NEW d, NEW s
  PROVE  Count(d, s) \in Nat
<1>1. IsFiniteSet({t \in Task : t.dep = d /\ row[t] = s})
  BY TasksFinite, FS_Subset
<1> QED BY <1>1, FS_CardinalityType DEF Count

LEMMA TargetType ==
  ASSUME NEW S \in TargetChoices
  PROVE  S \subseteq Endpoint /\ Cardinality(S) \in Nat
BY RolloutAssumption, FS_Subset, FS_CardinalityType

LEMMA TypeInit == Init => TypeOK
<1> SUFFICES ASSUME Init PROVE TypeOK
  OBVIOUS
<1>1. worker \in [Worker -> WorkerState] /\ agent \in [Endpoint -> AgentState]
      /\ dep \in [Deployment -> Dep]
  BY RestTypes DEF Init
<1>2. row \in [Task -> RowStatus] /\ budget \in [Fault -> Nat]
  BY RolloutAssumption DEF Init, RowStatus
<1> QED BY <1>1, <1>2, RolloutAssumption DEF Init, TypeOK

\* Requests, handlers and workers keep their types, field by field.
LEMMA RequestType ==
  ASSUME TypeOK, NEW r \in reqs
  PROVE  /\ r \in Request /\ r.item \in Item /\ r.item.task \in Task
         /\ r.item.task.ep \in Endpoint /\ r.item.task.dep \in Deployment
         /\ RowsOf(r.item) \subseteq Task /\ StatusOf(r.item) \in RowStatus
<1>1. r \in Request /\ row \in [Task -> RowStatus]
  BY DEF TypeOK
<1>2. r.item \in Item
  BY <1>1 DEF Request
<1>3. r.item.task \in Task
  BY <1>2 DEF Item
<1>4. r.item.task.ep \in Endpoint /\ r.item.task.dep \in Deployment
  BY <1>3 DEF Task
<1> QED BY <1>1, <1>2, <1>3, <1>4 DEF RowsOf, StatusOf, RowStatus

LEMMA CurrentType ==
  ASSUME TypeOK, NEW e \in Endpoint, agent[e].todo # <<>>
  PROVE  Current(e) \in Item /\ Current(e).task \in Task
<1>1. agent[e].todo \in Seq(Item)
  BY DEF TypeOK, AgentState
<1>2. Current(e) \in Item
  BY <1>1, HeadTailProperties DEF Current
<1> QED BY <1>2 DEF Item

\* The typing of reqs and agent survives the sending of a report.
LEMMA SendType ==
  ASSUME TypeOK, NEW e \in Endpoint, agent[e].todo # <<>>, NEW s \in RowStatus,
         NEW b \in BOOLEAN, NEW ph \in {"downloading", "installing", "closing"},
         Send(e, s, b, ph)
  PROVE  reqs' \subseteq Request /\ agent' \in [Endpoint -> AgentState]
<1>1. Current(e) \in Item
  BY CurrentType
<1>2. reqs' \subseteq Request
  <2> DEFINE r == [item |-> Current(e), status |-> s, snap |-> b, try |-> 1,
                   live |-> TRUE, stage |-> "sent", seen |-> "none"]
  <2>1. r \in Request
    BY <1>1 DEF Request, RowStatus
  <2>2. reqs' = reqs \cup {r}
    BY DEF Send
  <2> QED BY <2>1, <2>2 DEF TypeOK
<1>3. agent' \in [Endpoint -> AgentState]
  <2> DEFINE a == [agent[e] EXCEPT !.phase = ph, !.snap = b]
  <2>1. a \in AgentState
    BY DEF TypeOK, AgentState
  <2>2. agent' = [agent EXCEPT ![e] = a]
    BY DEF Send
  <2> QED BY <2>1, <2>2 DEF TypeOK
<1> QED BY <1>2, <1>3

\* After a report that ends a task the agent is in a state of its type.
LEMMA AfterTaskType ==
  ASSUME NEW a \in AgentState
  PROVE  AfterTask(a) \in AgentState
<1>1. a.todo \in Seq(Item) /\ Len(a.todo) \in Nat
  BY DEF AgentState
<1>2. CASE Len(a.todo) <= 1
  BY <1>2, RestTypes DEF AfterTask
<1>3. CASE ~(Len(a.todo) <= 1)
  <2>1. a.todo # <<>> /\ Len(a.todo) > 1
    BY <1>1, <1>3
  <2> DEFINE b == Tail(a.todo)
  <2>2. b \in Seq(Item) /\ Len(b) = Len(a.todo) - 1
    BY <1>1, <2>1, HeadTailProperties
  <2> HIDE DEF b
  <2>3. b # <<>>
    BY <1>1, <2>1, <2>2
  <2>4. AfterTask(a) = [phase |-> "next", todo |-> b, snap |-> FALSE]
    BY <1>3 DEF AfterTask, b
  <2> QED BY <2>2, <2>3, <2>4 DEF AgentState
<1> QED BY <1>2, <1>3

LEMMA ApiType == TypeOK /\ ApiStep => TypeOK'
<1> SUFFICES ASSUME TypeOK, ApiStep PROVE TypeOK'
  OBVIOUS
<1> USE DEF db, redis, broker, ghosts
<1>o. ASSUME NEW k \in {"create", "cancel", "rollback"}, NEW d \in Deployment,
             NEW rs \in SUBSET Task, NEW n \in Nat
      PROVE  NewOp(k, d, rs, n) \in Op
  BY DEF NewOp, Op, TypeOK
<1>f. ASSUME NEW o \in ops, NEW s \in DepStatus,
             dep' = [dep EXCEPT ![o.dep] = Flush(@, o.seen, [o.seen EXCEPT !.status = s])]
      PROVE  dep' \in [Deployment -> Dep]
  <2>1. o.dep \in Deployment /\ o.seen \in Dep /\ [o.seen EXCEPT !.status = s] \in Dep
    BY DEF TypeOK, Op, Dep
  <2>2. Flush(dep[o.dep], o.seen, [o.seen EXCEPT !.status = s]) \in Dep
    BY <2>1, FlushType DEF TypeOK
  <2> QED BY <1>f, <2>1, <2>2 DEF TypeOK
<1>1. ASSUME NEW d \in Deployment, CreateCommit(d) PROVE TypeOK'
  <2>1. dep[d] \in Dep
    BY DEF TypeOK
  <2>2. [dep[d] EXCEPT !.status = "pending"] \in Dep
    BY <2>1 DEF Dep, DepStatus, Open
  <2>3. dep' = [dep EXCEPT ![d] = [dep[d] EXCEPT !.status = "pending"]]
    BY <1>1 DEF CreateCommit
  <2>4. NewOp("create", d, {}, 0) \in Op
    BY <1>o
  <2>5. dep' \in [Deployment -> Dep] /\ ops' \subseteq Op
    BY <1>1, <2>2, <2>3, <2>4 DEF CreateCommit, TypeOK
  <2> QED BY <1>1, <2>5 DEF CreateCommit, TypeOK
<1>2. ASSUME NEW d \in Deployment, CancelLoad(d) PROVE TypeOK'
  <2>1. NewOp("cancel", d, {}, 0) \in Op
    BY <1>o
  <2>2. ops' \subseteq Op /\ budget' \in [Fault -> Nat]
    BY <1>2, <2>1, SpendType DEF CancelLoad, TypeOK, Fault
  <2> QED BY <1>2, <2>2 DEF CancelLoad, TypeOK
<1>3. ASSUME NEW d \in Deployment, RollbackLoad(d) PROVE TypeOK'
  <2>1. CanRollBack(d) \subseteq Task /\ budget["rollback"] \in Nat
    BY DEF CanRollBack, TypeOK, Fault
  <2>2. NewOp("rollback", d, CanRollBack(d), budget["rollback"]) \in Op
    BY <1>o, <2>1
  <2>3. ops' \subseteq Op /\ budget' \in [Fault -> Nat]
    BY <1>3, <2>2, SpendType DEF RollbackLoad, TypeOK, Fault
  <2> QED BY <1>3, <2>3 DEF RollbackLoad, TypeOK
<1>4. ASSUME NEW o \in ops, CreateEnqueue(o) PROVE TypeOK'
  <2>1. <<o.dep, 0>> \in Deployment \X (0..MaxRetries)
    BY RolloutAssumption DEF TypeOK, Op
  <2> QED BY <1>4, <2>1 DEF CreateEnqueue, TypeOK
<1>5. ASSUME NEW o \in ops, CancelSelect(o) PROVE TypeOK'
  <2>1. [o EXCEPT !.stage = "locked",
                  !.rows = {t \in Task : t.dep = o.dep /\ row[t] = "pending"}] \in Op
    BY DEF TypeOK, Op
  <2> QED BY <1>5, <2>1 DEF CancelSelect, TypeOK
<1>6. ASSUME NEW o \in ops, CancelCommit(o) PROVE TypeOK'
  <2>1. dep' \in [Deployment -> Dep]
    BY <1>6, <1>f DEF CancelCommit, DepStatus, Closed
  <2>2. row' \in [Task -> RowStatus]
    BY <1>6 DEF CancelCommit, TypeOK, RowStatus, Ended
  <2> QED BY <1>6, <2>1, <2>2 DEF CancelCommit, TypeOK
<1>7. ASSUME NEW o \in ops, RollbackPush(o) PROVE TypeOK'
  <2>1. PICK t \in o.rows :
          /\ queue' = [queue EXCEPT ![t.ep] = Append(@, Rollback(t, o.nth))]
          /\ ops' = (ops \ {o}) \cup {[o EXCEPT !.rows = @ \ {t}]}
    BY <1>7 DEF RollbackPush
  <2>2. t \in Task /\ t.ep \in Endpoint /\ Rollback(t, o.nth) \in Item
    BY DEF TypeOK, Op, Task, Rollback, Item
  <2>3. queue' \in [Endpoint -> Seq(Item)]
    BY <2>1, <2>2, AppendFacts DEF TypeOK
  <2>4. [o EXCEPT !.rows = @ \ {t}] \in Op
    BY DEF TypeOK, Op
  <2> QED BY <1>7, <2>1, <2>3, <2>4 DEF RollbackPush, TypeOK
<1>8. ASSUME NEW o \in ops, RollbackCommit(o) PROVE TypeOK'
  <2>1. dep' \in [Deployment -> Dep]
    BY <1>8, <1>f DEF RollbackCommit, DepStatus, Closed
  <2> QED BY <1>8, <2>1 DEF RollbackCommit, TypeOK
<1>9. ASSUME NEW o \in ops, ApiFails(o) PROVE TypeOK'
  BY <1>9, SpendType DEF ApiFails, TypeOK, Fault
<1>10. ASSUME NEW e \in Endpoint, Decommission(e) PROVE TypeOK'
  BY <1>10, SpendType DEF Decommission, TypeOK, Fault
<1>11. ASSUME NEW e \in Endpoint, Quarantine(e) PROVE TypeOK'
  BY <1>11 DEF Quarantine, TypeOK
<1> QED BY <1>1, <1>2, <1>3, <1>4, <1>5, <1>6, <1>7, <1>8, <1>9, <1>10, <1>11 DEF ApiStep

LEMMA WorkerType == TypeOK /\ WorkerStep => TypeOK'
<1> SUFFICES ASSUME TypeOK, WorkerStep PROVE TypeOK'
  OBVIOUS
<1> USE DEF db, redis, broker, ghosts
<1>n. ASSUME NEW w \in Worker, NEW x \in WorkerState, worker' = [worker EXCEPT ![w] = x]
      PROVE  worker' \in [Worker -> WorkerState]
  BY <1>n DEF TypeOK
<1>r. ASSUME NEW w \in Worker, worker' = [worker EXCEPT ![w] = Resting]
      PROVE  worker' \in [Worker -> WorkerState]
  BY <1>n, <1>r, RestTypes
<1>w. ASSUME NEW w \in Worker, worker[w].pc # "idle"
      PROVE  /\ worker[w] \in WorkerState /\ worker[w].dep \in Deployment
             /\ worker[w].seen \in Dep /\ worker[w].new \in Dep
             /\ worker[w].tries \in Nat
             /\ worker[w].todo \subseteq Endpoint /\ worker[w].pushed \subseteq Endpoint
             /\ worker[w].pc \in {"loaded", "push"} => worker[w].run \in 1..MaxRuns
  <2>1. worker[w] \in WorkerState
    BY DEF TypeOK
  <2> QED BY <1>w, <2>1 DEF WorkerState
<1>f. ASSUME NEW w \in Worker, worker[w].pc # "idle",
             dep' = [dep EXCEPT ![worker[w].dep] = Flush(@, worker[w].seen, worker[w].new)]
      PROVE  dep' \in [Deployment -> Dep]
  <2>1. dep[worker[w].dep] \in Dep
    BY <1>f, <1>w DEF TypeOK
  <2>2. Flush(dep[worker[w].dep], worker[w].seen, worker[w].new) \in Dep
    BY <1>f, <1>w, <2>1, FlushType
  <2> QED BY <1>f, <1>w, <2>2 DEF TypeOK
<1>1. ASSUME NEW d \in Deployment, NEW k \in 0..MaxRetries, ScheduleIgnored(d, k) PROVE TypeOK'
  BY <1>1 DEF ScheduleIgnored, TypeOK
<1>2. ASSUME NEW d \in Deployment, NEW k \in 0..MaxRetries, ScheduleDefer(d, k) PROVE TypeOK'
  <2> DEFINE c(j) == sched[j] + (IF j = <<d, 0>> THEN 1 ELSE 0)
                              - (IF j = <<d, k>> THEN 1 ELSE 0)
  <2>1. sched \in [Deployment \X (0..MaxRetries) -> Nat] /\ sched[<<d, k>>] > 0
    BY <1>2 DEF ScheduleDefer, TypeOK
  <2>2. \A j \in Deployment \X (0..MaxRetries) : c(j) \in Nat
    BY <2>1
  <2>3. sched' = [j \in Deployment \X (0..MaxRetries) |-> c(j)]
    BY <1>2, <2>1 DEF ScheduleDefer
  <2>4. sched' \in [Deployment \X (0..MaxRetries) -> Nat]
    BY <2>2, <2>3
  <2> QED BY <1>2, <2>4 DEF ScheduleDefer, TypeOK
<1>3. ASSUME NEW d \in Deployment, Redeliver(d) PROVE TypeOK'
  <2>1. sched' \in [Deployment \X (0..MaxRetries) -> Nat]
    BY <1>3 DEF Redeliver, TypeOK
  <2>2. budget' \in [Fault -> Nat]
    BY <1>3, SpendType DEF Redeliver, TypeOK, Fault
  <2> QED BY <1>3, <2>1, <2>2 DEF Redeliver, TypeOK
<1>4. ASSUME NEW w \in Worker, NEW d \in Deployment, ScheduleLoad(w, d) PROVE TypeOK'
  <2>1. PICK k \in 0..MaxRetries, S \in TargetChoices :
          /\ sched[<<d, k>>] > 0
          /\ sched' = [sched EXCEPT ![<<d, k>>] = @ - 1]
          /\ worker' = [worker EXCEPT ![w] =
               [pc |-> "loaded", dep |-> d, run |-> runs[d] + 1, tries |-> k, todo |-> S,
                pushed |-> {}, seen |-> dep[d], new |-> Scheduled(dep[d], S)]]
    BY <1>4 DEF ScheduleLoad
  <2>2. Scheduled(dep[d], S) \in Dep
    <3>1. dep[d] \in Dep /\ Cardinality(S) \in Nat
      BY TargetType DEF TypeOK
    <3> QED BY <3>1 DEF Scheduled, Dep, DepStatus, Open, Closed
  <2>3. runs[d] + 1 \in 1..MaxRuns /\ runs' \in [Deployment -> 0..MaxRuns]
    BY <1>4, RolloutAssumption DEF ScheduleLoad, TypeOK
  <2> DEFINE x == [pc |-> "loaded", dep |-> d, run |-> runs[d] + 1, tries |-> k, todo |-> S,
                   pushed |-> {}, seen |-> dep[d], new |-> Scheduled(dep[d], S)]
  <2>4. x \in WorkerState
    BY <2>2, <2>3, TargetType, RolloutAssumption DEF TypeOK, WorkerState
  <2>5. worker' \in [Worker -> WorkerState]
    BY <1>n, <2>1, <2>4
  <2>6. sched' \in [Deployment \X (0..MaxRetries) -> Nat]
    BY <2>1 DEF TypeOK
  <2> QED BY <1>4, <2>3, <2>5, <2>6 DEF ScheduleLoad, TypeOK
<1>5. ASSUME NEW w \in Worker, NEW d \in Deployment, FinalizeLoad(w, d) PROVE TypeOK'
  <2>1. [Resting EXCEPT !.pc = "count", !.dep = d, !.seen = dep[d]] \in WorkerState
    BY RestTypes DEF TypeOK, WorkerState
  <2>2. worker' \in [Worker -> WorkerState] /\ final' \in [Deployment -> Nat]
    BY <1>5, <1>n, <2>1 DEF FinalizeLoad, TypeOK
  <2> QED BY <1>5, <2>2 DEF FinalizeLoad, TypeOK
<1>6. ASSUME NEW w \in Worker, ScheduleStart(w) PROVE TypeOK'
  <2>1. worker[w] \in WorkerState /\ worker[w].pc = "loaded"
    BY <1>6 DEF ScheduleStart, TypeOK
  <2>2. [worker[w] EXCEPT !.pc = "push"] \in WorkerState
    BY <2>1 DEF WorkerState
  <2>3. worker' \in [Worker -> WorkerState]
    BY <1>6, <1>n, <2>2 DEF ScheduleStart
  <2> QED BY <1>6, <2>3 DEF ScheduleStart, TypeOK
<1>7. ASSUME NEW w \in Worker, SchedulePush(w) PROVE TypeOK'
  <2>1. PICK e \in worker[w].todo :
          /\ queue' = [queue EXCEPT ![e] = Append(@, Install(TaskOf(worker[w].dep, worker[w].run, e)))]
          /\ ttl' = [ttl EXCEPT ![e] = TRUE]
          /\ worker' = [worker EXCEPT ![w].todo = @ \ {e}, ![w].pushed = @ \cup {e}]
    BY <1>7 DEF SchedulePush
  <2>2. /\ worker[w] \in WorkerState /\ worker[w].dep \in Deployment /\ e \in Endpoint
        /\ worker[w].run \in 1..MaxRuns
    BY <1>7, <1>w, <2>1 DEF SchedulePush
  <2>3. Install(TaskOf(worker[w].dep, worker[w].run, e)) \in Item
    BY <2>2 DEF Install, TaskOf, Item, Task
  <2>4. queue' \in [Endpoint -> Seq(Item)]
    BY <2>1, <2>2, <2>3, AppendFacts DEF TypeOK
  <2> DEFINE x == [worker[w] EXCEPT !.todo = @ \ {e}, !.pushed = @ \cup {e}]
  <2>5. x \in WorkerState
    BY <2>2 DEF WorkerState
  <2>6. worker' = [worker EXCEPT ![w] = x]
    BY <2>1
  <2>7. worker' \in [Worker -> WorkerState]
    BY <1>n, <2>5, <2>6
  <2>8. ttl' \in [Endpoint -> BOOLEAN]
    BY <2>1 DEF TypeOK
  <2> QED BY <1>7, <2>4, <2>7, <2>8 DEF SchedulePush, TypeOK
<1>8. ASSUME NEW w \in Worker, ScheduleCommit(w) PROVE TypeOK'
  <2>1. row' \in [Task -> RowStatus]
    BY <1>8 DEF ScheduleCommit, TypeOK, RowStatus, Active
  <2>2. worker[w].pc # "idle"
    BY <1>8 DEF ScheduleCommit
  <2>3. worker' \in [Worker -> WorkerState] /\ dep' \in [Deployment -> Dep]
    BY <1>8, <1>r, <1>f, <2>2 DEF ScheduleCommit
  <2> QED BY <1>8, <2>1, <2>3 DEF ScheduleCommit, TypeOK
<1>9. ASSUME NEW w \in Worker, ScheduleRetry(w) PROVE TypeOK'
  <2>1. worker[w].pc # "idle" /\ worker[w].tries < MaxRetries
    BY <1>9 DEF ScheduleRetry
  <2>2. <<worker[w].dep, worker[w].tries + 1>> \in Deployment \X (0..MaxRetries)
    BY <1>w, <2>1, RolloutAssumption
  <2>3. sched' \in [Deployment \X (0..MaxRetries) -> Nat]
    BY <1>9, <2>2 DEF ScheduleRetry, TypeOK
  <2>4. worker' \in [Worker -> WorkerState] /\ budget' \in [Fault -> Nat]
    BY <1>9, <1>r, SpendType DEF ScheduleRetry, TypeOK, Fault
  <2> QED BY <1>9, <2>3, <2>4 DEF ScheduleRetry, TypeOK
<1>10. ASSUME NEW w \in Worker, FinalizeCount(w) PROVE TypeOK'
  <2> DEFINE y == Outcome(worker[w].dep, worker[w].seen)
  <2>1. /\ worker[w] \in WorkerState /\ worker[w].pc = "count"
        /\ worker[w].dep \in Deployment /\ worker[w].seen \in Dep
    BY <1>10, <1>w DEF FinalizeCount
  <2>2. y \in Dep
    <3>1. \A s : Count(worker[w].dep, s) \in Nat
      BY CountType
    <3>2. Count(worker[w].dep, "success") + Count(worker[w].dep, "rolled_back") \in Nat
      BY <3>1
    <3>3. "completed" \in DepStatus /\ "failed" \in DepStatus
      BY DEF DepStatus, Closed
    <3> HIDE DEF y
    <3>4. ASSUME NEW m \in Nat, NEW n \in Nat, NEW s \in DepStatus
          PROVE  [worker[w].seen EXCEPT !.succ = m, !.fail = n, !.status = s] \in Dep
      BY <2>1 DEF Dep
    <3> QED BY <3>1, <3>2, <3>3, <3>4 DEF y, Outcome
  <2> HIDE DEF y
  <2>3. [worker[w] EXCEPT !.pc = "finish", !.new = y] \in WorkerState
    BY <2>1, <2>2 DEF WorkerState
  <2>4. \/ worker' = [worker EXCEPT ![w] = Resting]
        \/ worker' = [worker EXCEPT ![w] = [worker[w] EXCEPT !.pc = "finish", !.new = y]]
    BY <1>10 DEF FinalizeCount, y
  <2>5. worker' \in [Worker -> WorkerState]
    BY <1>r, <1>n, <2>3, <2>4
  <2> QED BY <1>10, <2>5 DEF FinalizeCount, TypeOK
<1>11. ASSUME NEW w \in Worker, FinalizeCommit(w) PROVE TypeOK'
  <2>1. worker' \in [Worker -> WorkerState] /\ dep' \in [Deployment -> Dep]
    BY <1>11, <1>r, <1>f DEF FinalizeCommit
  <2> QED BY <1>11, <2>1 DEF FinalizeCommit, TypeOK
<1>12. ASSUME NEW w \in Worker, WorkerLost(w) PROVE TypeOK'
  <2>1. worker' \in [Worker -> WorkerState] /\ budget' \in [Fault -> Nat]
    BY <1>12, <1>r, SpendType DEF WorkerLost, TypeOK, Fault
  <2> QED BY <1>12, <2>1 DEF WorkerLost, TypeOK
<1> QED BY <1>1, <1>2, <1>3, <1>4, <1>5, <1>6, <1>7, <1>8, <1>9, <1>10, <1>11, <1>12
        DEF WorkerStep

LEMMA ReportType == TypeOK /\ ReportStep => TypeOK'
<1> SUFFICES ASSUME TypeOK, ReportStep PROVE TypeOK'
  OBVIOUS
<1> USE DEF db, redis, broker, ghosts
<1>m. ASSUME NEW T \in SUBSET Task, NEW k \in Mishap, Mark(T, k)
      PROVE  mishap' \in [Task -> SUBSET Mishap]
  BY <1>m, MarkType DEF TypeOK
<1>g. ASSUME NEW r \in reqs, NEW q \in Request, Move(r, q)
      PROVE  reqs' \subseteq Request
  BY <1>g DEF Move, TypeOK
<1>e. ASSUME NEW r \in reqs, reqs' = reqs \ {r}
      PROVE  reqs' \subseteq Request
  BY <1>e DEF TypeOK
<1>n. ASSUME NEW r \in reqs
      PROVE  r.try \in Nat /\ r.live \in BOOLEAN /\ r.seen \in RowStatus /\ r.status \in RowStatus
             /\ r.stage \in {"sent", "removed", "loaded", "replied"} /\ r.snap \in BOOLEAN
  BY RequestType DEF Request
<1>z. ASSUME NEW r \in reqs PROVE Resend(r) \in Request
  <2>1. r.try + 1 \in Nat /\ "none" \in RowStatus
    BY <1>n DEF RowStatus
  <2>2. \A n \in Nat, s \in RowStatus :
          [r EXCEPT !.try = n, !.stage = "sent", !.seen = s] \in Request
    BY RequestType DEF Request
  <2> QED BY <2>1, <2>2 DEF Resend
<1>1. ASSUME NEW r \in reqs, Refuse(r) PROVE TypeOK'
  <2>1. reqs' \subseteq Request
    <3>1. [r EXCEPT !.stage = "replied"] \in Request
      BY RequestType DEF Request
    <3> QED BY <1>1, <1>g, <1>e, <3>1 DEF Refuse
  <2>2. mishap' \in [Task -> SUBSET Mishap]
    <3>1. (IF Terminal(r.status) THEN RowsOf(r.item) ELSE {}) \in SUBSET Task
      BY RequestType
    <3> QED BY <1>1, <1>m, <3>1 DEF Refuse, Mishap
  <2>3. restarts' \in [Endpoint -> Nat]
    BY <1>1, RequestType DEF Refuse, Restart, TypeOK
  <2> QED BY <1>1, <2>1, <2>2, <2>3 DEF Refuse, TypeOK
<1>2. ASSUME NEW r \in reqs, Dequeue(r) PROVE TypeOK'
  <2> DEFINE e == r.item.task.ep
  <2>1. reqs' \subseteq Request
    <3>1. [r EXCEPT !.stage = "removed"] \in Request
      BY RequestType DEF Request
    <3> QED BY <1>2, <1>g, <3>1 DEF Dequeue
  <2>2. mishap' \in [Task -> SUBSET Mishap]
    <3>1. (IF r.live THEN {} ELSE RowsOf(r.item)) \in SUBSET Task
      BY RequestType
    <3> QED BY <1>2, <1>m, <3>1 DEF Dequeue, Mishap
  <2>3. queue' \in [Endpoint -> Seq(Item)] /\ ttl' \in [Endpoint -> BOOLEAN]
    <3>1. e \in Endpoint /\ LRem(queue[e], r.item) \in Seq(Item)
      BY RequestType, LRemFacts DEF TypeOK
    <3>2. CASE Terminal(r.status)
      <4>1. queue' = [queue EXCEPT ![e] = LRem(queue[e], r.item)]
        BY <1>2, <3>2 DEF Dequeue
      <4>2. ttl' = [ttl EXCEPT ![e] = ttl[e] /\ queue'[e] # <<>>]
        BY <1>2, <3>2 DEF Dequeue
      <4>3. (ttl[e] /\ queue'[e] # <<>>) \in BOOLEAN
        OBVIOUS
      <4> QED BY <3>1, <4>1, <4>2, <4>3 DEF TypeOK
    <3>3. CASE ~Terminal(r.status)
      BY <1>2, <3>3 DEF Dequeue, TypeOK
    <3> QED BY <3>2, <3>3
  <2> QED BY <1>2, <2>1, <2>2, <2>3 DEF Dequeue, TypeOK
<1>3. ASSUME NEW r \in reqs, LoadRow(r) PROVE TypeOK'
  <2>1. reqs' \subseteq Request
    <3>1. [r EXCEPT !.stage = "loaded", !.seen = StatusOf(r.item)] \in Request
      BY RequestType DEF Request
    <3> QED BY <1>3, <1>g, <3>1 DEF LoadRow
  <2>2. mishap' \in [Task -> SUBSET Mishap]
    <3> DEFINE T == IF Terminal(r.status) /\ ~(Terminal(r.status) /\ StatusOf(r.item) # "none")
                    THEN RowsOf(r.item) ELSE {}
    <3>1. T \in SUBSET Task
      BY RequestType
    <3>2. Mark(T, "early")
      BY <1>3 DEF LoadRow
    <3> QED BY <1>m, <3>1, <3>2 DEF Mishap
  <2>3. final' \in [Deployment -> Nat]
    BY <1>3, RequestType DEF LoadRow, TypeOK
  <2> QED BY <1>3, <2>1, <2>2, <2>3 DEF LoadRow, TypeOK
<1>4. ASSUME NEW r \in reqs, CommitReport(r) PROVE TypeOK'
  <2>1. reqs' \subseteq Request
    <3>1. [r EXCEPT !.stage = "replied"] \in Request
      BY RequestType DEF Request
    <3> QED BY <1>4, <1>g, <1>e, <3>1 DEF CommitReport
  <2>2. mishap' \in [Task -> SUBSET Mishap]
    <3>1. (IF r.live THEN {} ELSE RowsOf(r.item)) \in SUBSET Task
      BY RequestType
    <3> QED BY <1>4, <1>m, <3>1 DEF CommitReport, Mishap
  <2>3. row' \in [Task -> RowStatus]
    BY <1>4, <1>n DEF CommitReport, TypeOK
  <2>4. snap' \in [Task -> BOOLEAN]
    BY <1>4 DEF CommitReport, TypeOK
  <2> QED BY <1>4, <2>1, <2>2, <2>3, <2>4 DEF CommitReport, TypeOK
<1>5. ASSUME NEW r \in reqs, AttemptFails(r) PROVE TypeOK'
  <2>1. reqs' \subseteq Request /\ budget' \in [Fault -> Nat]
    BY <1>5, <1>g, <1>z, SpendType DEF AttemptFails, TypeOK, Fault
  <2> QED BY <1>5, <2>1 DEF AttemptFails, TypeOK
<1>6. ASSUME NEW r \in reqs, AttemptTimesOut(r) PROVE TypeOK'
  <2>1. [r EXCEPT !.live = FALSE] \in Request
    BY RequestType DEF Request
  <2>2. reqs' \subseteq Request /\ budget' \in [Fault -> Nat]
    BY <1>6, <1>z, <2>1, SpendType DEF AttemptTimesOut, TypeOK, Fault
  <2> QED BY <1>6, <2>2 DEF AttemptTimesOut, TypeOK
<1>7. ASSUME NEW r \in reqs, Receive(r) PROVE TypeOK'
  <2> DEFINE e == r.item.task.ep
  <2>1. e \in Endpoint /\ agent[e] \in AgentState
    BY RequestType DEF TypeOK
  <2>2. AfterTask(agent[e]) \in AgentState
    BY <2>1, AfterTaskType
  <2>3. agent' \in [Endpoint -> AgentState]
    BY <1>7, <2>1, <2>2 DEF Receive, TypeOK
  <2>4. reqs' \subseteq Request
    BY <1>7, <1>e DEF Receive
  <2> QED BY <1>7, <2>3, <2>4 DEF Receive, TypeOK
<1>8. ASSUME NEW e \in Endpoint, Expire(e) PROVE TypeOK'
  <2>1. UNION {RowsOf(i) : i \in Elements(queue[e])} \in SUBSET Task
    <3> SUFFICES ASSUME NEW i \in Elements(queue[e]) PROVE RowsOf(i) \subseteq Task
      OBVIOUS
    <3>1. i \in Item
      BY DEF Elements, TypeOK
    <3> QED BY <3>1 DEF Item, RowsOf
  <2>2. mishap' \in [Task -> SUBSET Mishap]
    BY <1>8, <1>m, <2>1 DEF Expire, Mishap
  <2>3. queue' \in [Endpoint -> Seq(Item)]
    BY <1>8 DEF Expire, TypeOK
  <2>4. ttl' \in [Endpoint -> BOOLEAN] /\ budget' \in [Fault -> Nat]
    BY <1>8, SpendType DEF Expire, TypeOK, Fault
  <2> QED BY <1>8, <2>2, <2>3, <2>4 DEF Expire, TypeOK
<1> QED BY <1>1, <1>2, <1>3, <1>4, <1>5, <1>6, <1>7, <1>8 DEF ReportStep

LEMMA AgentType == TypeOK /\ AgentStep => TypeOK'
<1> SUFFICES ASSUME TypeOK, AgentStep PROVE TypeOK'
  OBVIOUS
<1> USE DEF db, redis, broker, ghosts
<1>t. ASSUME NEW e \in Endpoint, agent[e].phase # "idle" PROVE agent[e].todo # <<>>
  BY <1>t DEF TypeOK, AgentState
<1>s. ASSUME NEW e \in Endpoint, agent[e].phase # "idle", NEW s \in RowStatus,
             NEW b \in BOOLEAN, NEW ph \in {"downloading", "installing", "closing"},
             Send(e, s, b, ph)
      PROVE  reqs' \subseteq Request /\ agent' \in [Endpoint -> AgentState]
  BY <1>s, <1>t, SendType
<1>d. ASSUME NEW e \in Endpoint, agent' = [agent EXCEPT ![e] = Sleeping]
      PROVE  agent' \in [Endpoint -> AgentState]
  BY <1>d, RestTypes DEF TypeOK
<1>c. {"downloading", "installing", "success", "failed", "rolled_back"} \subseteq RowStatus
  BY DEF RowStatus, Active, Ended
<1>1. ASSUME NEW e \in Endpoint, Fetch(e) PROVE TypeOK'
  <2> DEFINE q == LRange(queue[e], FetchLimit)
  <2>1. q \in Seq(Item) /\ q # <<>>
    BY <1>1, LRangeFacts, RolloutAssumption DEF Fetch, TypeOK
  <2> HIDE DEF q
  <2>2. [phase |-> "next", todo |-> q, snap |-> FALSE] \in AgentState
    BY <2>1 DEF AgentState
  <2>3. agent' \in [Endpoint -> AgentState]
    BY <1>1, <2>2 DEF Fetch, TypeOK, q
  <2> QED BY <1>1, <2>3 DEF Fetch, TypeOK
<1>2. ASSUME NEW e \in Endpoint, StartInstall(e) PROVE TypeOK'
  <2>1. agent[e].phase # "idle"
    BY <1>2 DEF StartInstall, AtTask
  <2>2. reqs' \subseteq Request /\ agent' \in [Endpoint -> AgentState]
    BY <1>2, <1>s, <1>c, <2>1 DEF StartInstall
  <2> QED BY <1>2, <2>2 DEF StartInstall, TypeOK
<1>3. ASSUME NEW e \in Endpoint, FinishDownload(e) PROVE TypeOK'
  <2>1. agent[e].phase # "idle"
    BY <1>3 DEF FinishDownload
  <2>2. reqs' \subseteq Request /\ agent' \in [Endpoint -> AgentState]
    BY <1>3, <1>s, <1>c, <2>1 DEF FinishDownload
  <2> QED BY <1>3, <2>2 DEF FinishDownload, TypeOK
<1>4. ASSUME NEW e \in Endpoint, RunInstaller(e) PROVE TypeOK'
  <2>1. agent[e].phase # "idle" /\ agent[e].snap \in BOOLEAN
    BY <1>4 DEF RunInstaller, TypeOK, AgentState
  <2>2. reqs' \subseteq Request /\ agent' \in [Endpoint -> AgentState]
    BY <1>4, <1>s, <1>c, <2>1 DEF RunInstaller
  <2>3. Current(e).task \in Task
    BY <1>t, <2>1, CurrentType
  <2>4. installs' \in [Task -> Nat]
    BY <1>4, <2>3 DEF RunInstaller, TypeOK
  <2> QED BY <1>4, <2>2, <2>4 DEF RunInstaller, TypeOK
<1>5. ASSUME NEW e \in Endpoint, RunRollback(e) PROVE TypeOK'
  <2>1. agent[e].phase # "idle"
    BY <1>5 DEF RunRollback, AtTask
  <2>2. reqs' \subseteq Request /\ agent' \in [Endpoint -> AgentState]
    BY <1>5, <1>s, <1>c, <2>1 DEF RunRollback
  <2> QED BY <1>5, <2>2 DEF RunRollback, TypeOK
<1>6. ASSUME NEW e \in Endpoint, AgentDies(e) PROVE TypeOK'
  <2> DEFINE T == UNION {RowsOf(r.item) : r \in {q \in Mine(e) : Abandoned(q)}}
  <2>1. T \in SUBSET Task
    BY RequestType DEF Mine
  <2>2. Mark(T, "abandoned")
    BY <1>6 DEF AgentDies
  <2>3. mishap' \in [Task -> SUBSET Mishap]
    BY <2>1, <2>2, MarkType DEF TypeOK, Mishap
  <2>4. agent' \in [Endpoint -> AgentState] /\ budget' \in [Fault -> Nat]
    BY <1>6, <1>d, SpendType DEF AgentDies, TypeOK, Fault
  <2>5. reqs' \subseteq Request /\ restarts' \in [Endpoint -> Nat]
    BY <1>6 DEF AgentDies, Restart, TypeOK
  <2> QED BY <1>6, <2>3, <2>4, <2>5 DEF AgentDies, TypeOK
<1>7. ASSUME NEW e \in Endpoint, AgentDiesLate(e) PROVE TypeOK'
  <2>1. reqs' \subseteq Request
    <3>1. \A r \in reqs : [r EXCEPT !.live = FALSE] \in Request
      BY RequestType DEF Request
    <3> QED BY <1>7, <3>1 DEF AgentDiesLate, Mine, TypeOK
  <2>2. restarts' \in [Endpoint -> Nat] /\ budget' \in [Fault -> Nat]
    <3>1. restarts' = [restarts EXCEPT ![e] = @ + 1]
      BY <1>7 DEF AgentDiesLate, Restart
    <3>2. /\ budget["crash"] > 0 /\ budget["late"] > 0
          /\ budget' = [budget EXCEPT !["crash"] = @ - 1, !["late"] = @ - 1]
      BY <1>7 DEF AgentDiesLate
    <3>3. restarts \in [Endpoint -> Nat] /\ budget \in [Fault -> Nat]
      BY DEF TypeOK
    <3>4. budget' \in [Fault -> Nat]
      BY <3>2, <3>3 DEF Fault
    <3> QED BY <3>1, <3>3, <3>4
  <2>3. agent' \in [Endpoint -> AgentState]
    BY <1>7, <1>d DEF AgentDiesLate
  <2> QED BY <1>7, <2>1, <2>2, <2>3 DEF AgentDiesLate, TypeOK
<1> QED BY <1>1, <1>2, <1>3, <1>4, <1>5, <1>6, <1>7 DEF AgentStep

LEMMA TypeStep == TypeOK /\ [Next]_vars => TypeOK'
<1> SUFFICES ASSUME TypeOK, [Next]_vars PROVE TypeOK'
  OBVIOUS
<1>1. CASE UNCHANGED vars
  BY <1>1 DEF TypeOK, vars
<1> QED BY <1>1, ApiType, WorkerType, ReportType, AgentType DEF Next

\* Every variable keeps its type, for any number of deployments, endpoints,
\* workers and faults: no handler, job or agent writes a status its column does
\* not have, and no counter goes below zero.
THEOREM TypeCorrect == Spec => []TypeOK
<1>1. Init => TypeOK
  BY TypeInit
<1>2. TypeOK /\ [Next]_vars => TypeOK'
  BY TypeStep
<1> QED BY <1>1, <1>2, PTL DEF Spec
=============================================================================
