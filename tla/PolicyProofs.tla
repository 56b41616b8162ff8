----------------------------- MODULE PolicyProofs -----------------------------
(***************************************************************************)
(* Whom a target reaches, when a window is open, how long a deployment     *)
(* waits at an open window, and whether the dry run tells the truth, for   *)
(* any fleet, any windows and any period of the schedule job.              *)
(***************************************************************************)
EXTENDS Policy, TLAPS, WellFoundedInduction

Field == {"active", "priority", "target", "types", "window", "excluded"}

LEMMA ColumnFacts ==
  /\ DOMAIN Column = Field
  /\ Column["active"] = BOOLEAN /\ Column["priority"] = Nat /\ Column["target"] = Target
  /\ Column["types"] = SUBSET Patch /\ Column["window"] = Window \cup {Empty} /\ Column["excluded"] = SUBSET Patch
BY DEF Column, Field

\* A row that PUT has changed is a row: a null leaves its column as it is.
LEMMA UpdatedIsRow ==
  ASSUME NEW row \in Row, NEW body \in UpdateChoice
  PROVE  Updated(row, body) \in Row
<1>1. DOMAIN row = Field
  BY DEF Row, Field
<1>2. /\ row.active \in BOOLEAN /\ row.priority \in Nat /\ row.target \in Target
      /\ row.types \in SUBSET Patch /\ row.window \in Window \cup {Null, Empty} /\ row.excluded \in SUBSET Patch
  BY DEF Row
<1>3. \A f \in Field : Updated(row, body)[f] = IF f \in DOMAIN body /\ body[f] # Null THEN body[f] ELSE row[f]
  BY <1>1 DEF Updated
<1>4. \A f \in Field : Updated(row, body)[f] = row[f] \/ Updated(row, body)[f] \in Column[f]
  BY <1>3, ColumnFacts, PolicyAssumption
<1>5. /\ Updated(row, body).active \in BOOLEAN /\ Updated(row, body).priority \in Nat
      /\ Updated(row, body).target \in Target /\ Updated(row, body).types \in SUBSET Patch
      /\ Updated(row, body).window \in Window \cup {Null, Empty} /\ Updated(row, body).excluded \in SUBSET Patch
  BY <1>2, <1>4, ColumnFacts DEF Field
<1>6. Updated(row, body) = [f \in Field |-> Updated(row, body)[f]]
  BY <1>1 DEF Updated
<1> QED
  BY <1>5, <1>6 DEF Row, Field

-----------------------------------------------------------------------------
(* Types, and the time a deployment has waited while its window was open *)

\* A job that is not due has waited at most since it ran last, and not at all
\* while the window was open if it ran a moment ago: it saw the window closed.
Waited ==
  /\ job.state # "waiting" => openFor = 0
  /\ job.state = "waiting" =>
       \/ openFor <= (PollPeriod - job.due) + job.late
       \/ /\ ~Within(policy[job.policy].window, now)
          /\ openFor <= PollPeriod + MaxLate /\ job.due > 0

PolicyInv == TypeOK /\ Waited

LEMMA NoJobFacts == NoJob.state = "none"
BY DEF NoJob

LEMMA CreatedFacts ==
  ASSUME TypeOK
  PROVE  /\ \A p \in Created : p \in PolicyId /\ policy[p] \in Row
         /\ \A p \in PolicyId : policy[p] \in Row => p \in Created
BY PolicyAssumption DEF TypeOK, Created

LEMMA PolicyInvInit == Init => PolicyInv
<1> SUFFICES ASSUME Init PROVE PolicyInv
  OBVIOUS
<1>1. 0 \in Time
  BY PolicyAssumption DEF Time, Week
<1> QED
  BY <1>1, PolicyAssumption, NoJobFacts DEF Init, PolicyInv, TypeOK, Waited

LEMMA BudgetKept ==
  ASSUME TypeOK, NEW a \in Act, Spend(a)
  PROVE  budget' \in [Act -> Nat] /\ budget[a] \in Nat
BY DEF TypeOK, Spend

\* The steps of administrators, the job being left alone
LEMMA ChangeKeepsInv ==
  ASSUME PolicyInv, UNCHANGED <<now, job>>,
         policy' \in [PolicyId -> Row \cup {Null}], Created \subseteq Created',
         exceptions' \subseteq Exception, host' \in [Endpoint -> Host], budget' \in [Act -> Nat],
         \/ openFor' = 0
         \/ openFor' = openFor /\ (job.state = "waiting" =>
                                     policy'[job.policy].window = policy[job.policy].window)
  PROVE  PolicyInv'
<1>1. TypeOK'
  BY DEF PolicyInv, TypeOK
<1>2. Waited'
  <2>1. CASE openFor' = openFor /\ (job.state = "waiting" =>
                                      policy'[job.policy].window = policy[job.policy].window)
    BY <2>1 DEF PolicyInv, Waited, Within
  <2>2. CASE openFor' = 0
    <3>1. job.state = "waiting" => job.due \in 0..PollPeriod /\ job.late \in 0..MaxLate
      BY NoJobFacts DEF PolicyInv, TypeOK
    <3> QED
      BY <2>2, <3>1, PolicyAssumption DEF Waited
  <2> QED
    BY <2>1, <2>2
<1> QED
  BY <1>1, <1>2 DEF PolicyInv

LEMMA PolicyInvStep == PolicyInv /\ [Next]_vars => PolicyInv'
<1> SUFFICES ASSUME PolicyInv, [Next]_vars PROVE PolicyInv'
  OBVIOUS
<1>1. /\ policy \in [PolicyId -> Row \cup {Null}] /\ exceptions \subseteq Exception
      /\ host \in [Endpoint -> Host] /\ now \in Time /\ openFor \in Nat /\ budget \in [Act -> Nat]
      /\ TypeOK /\ Waited
      /\ \A p \in Created : p \in PolicyId /\ policy[p] \in Row
  BY CreatedFacts DEF PolicyInv, TypeOK
<1>2. job = NoJob \/ /\ job.state \in {"waiting", "started"} /\ job.policy \in Created
                     /\ job.due \in 0..PollPeriod /\ job.late \in 0..MaxLate
  BY <1>1 DEF TypeOK
<1>3. job.state = "waiting" => /\ job.policy \in Created /\ job.due \in 0..PollPeriod
                               /\ job.late \in 0..MaxLate
  BY <1>2, NoJobFacts
<1>4. ASSUME NEW p \in PolicyId, Create(p) PROVE PolicyInv'
  <2>1. PICK row \in PolicyChoice : policy' = [policy EXCEPT ![p] = row]
    BY <1>4 DEF Create
  <2>2. row \in Row /\ policy[p] = Null /\ budget' \in [Act -> Nat]
        /\ UNCHANGED <<exceptions, host, now, job, openFor>>
    BY <1>1, <1>4, <2>1, PolicyAssumption, BudgetKept DEF Create, Act
  <2>3. policy' \in [PolicyId -> Row \cup {Null}] /\ Created \subseteq Created'
        /\ \A q \in Created : policy'[q] = policy[q]
    BY <1>1, <2>1, <2>2, PolicyAssumption DEF Created
  <2> QED
    BY <1>1, <1>3, <2>2, <2>3, ChangeKeepsInv
<1>5. ASSUME NEW p \in PolicyId, Update(p) PROVE PolicyInv'
  <2>1. PICK body \in UpdateChoice : policy' = [policy EXCEPT ![p] = Updated(policy[p], body)]
    BY <1>5 DEF Update
  <2>2. /\ p \in Created /\ budget' \in [Act -> Nat] /\ UNCHANGED <<exceptions, host, now, job>>
        /\ openFor' = IF job.policy = p THEN 0 ELSE openFor
    BY <1>1, <1>5, BudgetKept DEF Update, Act
  <2>3. Updated(policy[p], body) \in Row
    BY <1>1, <2>2, UpdatedIsRow
  <2>4. policy' \in [PolicyId -> Row \cup {Null}] /\ Created \subseteq Created'
        /\ \A q \in Created \ {p} : policy'[q] = policy[q]
    BY <1>1, <2>1, <2>3, PolicyAssumption DEF Created
  <2>5. \/ openFor' = 0
        \/ openFor' = openFor /\ (job.state = "waiting" =>
                                    policy'[job.policy].window = policy[job.policy].window)
    BY <1>3, <2>2, <2>4
  <2> QED
    BY <1>1, <2>2, <2>4, <2>5, ChangeKeepsInv
<1>6. ASSUME NEW p \in PolicyId, Delete(p) PROVE PolicyInv'
  <2>1. /\ policy' = [policy EXCEPT ![p] = [policy[p] EXCEPT !.active = FALSE]]
        /\ p \in Created /\ budget' \in [Act -> Nat]
        /\ UNCHANGED <<exceptions, host, now, job, openFor>>
    BY <1>1, <1>6, BudgetKept DEF Delete, Act
  <2>2. [policy[p] EXCEPT !.active = FALSE] \in Row
        /\ [policy[p] EXCEPT !.active = FALSE].window = policy[p].window
    <3>1. policy[p] \in Row
      BY <1>1, <2>1
    <3> QED
      BY <3>1 DEF Row
  <2>3. policy' \in [PolicyId -> Row \cup {Null}] /\ Created \subseteq Created'
        /\ \A q \in Created : policy'[q].window = policy[q].window
    BY <1>1, <2>1, <2>2, PolicyAssumption DEF Created
  <2> QED
    BY <1>1, <1>3, <2>1, <2>3, ChangeKeepsInv
<1>7. ASSUME UNCHANGED <<policy, now, job, openFor>>, exceptions' \subseteq Exception,
             host' \in [Endpoint -> Host], budget' \in [Act -> Nat]
      PROVE  PolicyInv'
  BY <1>1, <1>7, ChangeKeepsInv DEF Created
<1>8. ASSUME NEW p \in PolicyId, NEW e \in Endpoint, NEW x \in Patch \cup {Null}, AddException(p, e, x)
      PROVE  PolicyInv'
  <2>1. budget' \in [Act -> Nat] /\ budget["except"] \in Nat
    BY <1>1, <1>8, BudgetKept DEF AddException, Act
  <2>2. [id |-> budget["except"], policy |-> p, endpoint |-> e, patch |-> x, over |-> FALSE] \in Exception
    BY <2>1 DEF Exception
  <2> QED
    BY <1>1, <1>7, <1>8, <2>1, <2>2 DEF AddException
<1>9. ASSUME NEW n \in exceptions, RemoveException(n) \/ ExceptionExpires(n) PROVE PolicyInv'
  <2>1. [n EXCEPT !.over = TRUE] \in Exception
    <3>1. n \in Exception
      BY <1>1
    <3> QED
      BY <3>1 DEF Exception
  <2> QED
    BY <1>1, <1>7, <1>9, <2>1 DEF RemoveException, ExceptionExpires
<1>10. ASSUME NEW e \in Endpoint, Move(e) \/ Decommission(e) PROVE PolicyInv'
  <2>1. budget' \in [Act -> Nat] /\ UNCHANGED <<policy, exceptions, now, job, openFor>>
    BY <1>1, <1>10, BudgetKept DEF Move, Decommission, Act
  <2>2. host[e] \in Host
    BY <1>1
  <2>3. /\ \A g \in Group : [host[e] EXCEPT !.group = g] \in Host
        /\ \A o \in Org : [host[e] EXCEPT !.org = o] \in Host
        /\ [host[e] EXCEPT !.status = "decommissioned"] \in Host
    BY <2>2 DEF Host
  <2>4. \E h \in Host : host' = [host EXCEPT ![e] = h]
    <3>1. CASE Move(e)
      <4>1. CASE \E g \in Group : host' = [host EXCEPT ![e].group = g]
        BY <2>3, <4>1
      <4>2. CASE \E o \in Org : host' = [host EXCEPT ![e].org = o]
        BY <2>3, <4>2
      <4> QED
        BY <3>1, <4>1, <4>2 DEF Move
    <3>2. CASE Decommission(e)
      BY <2>3, <3>2 DEF Decommission
    <3> QED
      BY <1>10, <3>1, <3>2
  <2>5. host' \in [Endpoint -> Host]
    BY <1>1, <2>4
  <2> QED
    BY <1>1, <1>7, <2>1, <2>5
<1>11. ASSUME NEW p \in PolicyId, NEW target \in Target, Enqueue(p, target) PROVE PolicyInv'
  <2>1. /\ job.state = "none" /\ p \in Created /\ budget' \in [Act -> Nat]
        /\ job' = [state |-> "waiting", policy |-> p, target |-> target, due |-> 0, late |-> 0, got |-> {}]
        /\ UNCHANGED <<policy, exceptions, host, now, openFor>>
    BY <1>1, <1>11, BudgetKept DEF Enqueue, Act
  <2>2. openFor = 0
    BY <1>1, <2>1 DEF Waited
  <2>3. /\ job'.state = "waiting" /\ job'.policy = p /\ job'.target = target /\ job'.due = 0
        /\ job'.late = 0 /\ job'.got = {}
    BY <2>1
  <2>4. TypeOK'
    BY <1>1, <2>1, <2>3, PolicyAssumption DEF TypeOK, Created
  <2>5. Waited'
    BY <2>1, <2>2, <2>3, PolicyAssumption DEF Waited
  <2> QED
    BY <2>4, <2>5 DEF PolicyInv
<1>12. CASE Run
  <2>1. /\ job.state = "waiting" /\ job.due = 0 /\ UNCHANGED <<policy, exceptions, host, now, budget>>
        /\ job # NoJob
    BY <1>12, NoJobFacts DEF Run
  <2>2. /\ job.policy \in Created /\ job.target \in Target /\ job.due \in 0..PollPeriod
        /\ job.late \in 0..MaxLate /\ job.got \subseteq Endpoint
    BY <1>1, <2>1 DEF TypeOK
  <2>3. openFor <= PollPeriod + job.late
    BY <1>1, <2>1, <2>2, PolicyAssumption DEF Waited
  <2>4. CASE Within(policy[job.policy].window, now)
    <3>1. job' = [job EXCEPT !.state = "started", !.got = Expand(job.target)] /\ openFor' = 0
      BY <1>12, <2>4 DEF Run
    <3>2. Expand(job.target) \subseteq Endpoint
      BY <2>2 DEF Expand, Target, ActiveHosts, GroupReach
    <3> QED
      BY <1>1, <2>1, <2>2, <3>1, <3>2 DEF PolicyInv, TypeOK, Waited, Created
  <2>5. CASE ~Within(policy[job.policy].window, now)
    <3>1. job' = [job EXCEPT !.due = PollPeriod, !.late = 0] /\ UNCHANGED openFor
      BY <1>12, <2>5 DEF Run, Countdown
    <3> QED
      BY <1>1, <2>1, <2>2, <2>3, <2>5, <3>1, PolicyAssumption DEF PolicyInv, TypeOK, Waited, Created, Within
  <2> QED
    BY <2>4, <2>5
<1>13. CASE Tick
  <2>1. /\ UNCHANGED <<policy, exceptions, host, budget>> /\ now' = (now + 1) % Week
        /\ ~(job.state = "waiting" /\ job.due = 0 /\ job.late = MaxLate)
        /\ openFor' = IF job.state = "waiting" /\ Within(policy[job.policy].window, now)
                      THEN openFor + 1 ELSE 0
    BY <1>13 DEF Tick
  <2>2. now' \in Time
    <3>1. Week \in Nat \ {0}
      BY PolicyAssumption DEF Week
    <3>2. now + 1 \in Nat
      BY <1>1 DEF Time
    <3> QED
      BY <2>1, <3>1, <3>2 DEF Time
  <2>3. CASE job.state # "waiting"
    <3>1. job' = job /\ openFor' = 0
      BY <1>13, <2>1, <2>3 DEF Tick
    <3> QED
      BY <1>1, <2>1, <2>2, <2>3, <3>1 DEF PolicyInv, TypeOK, Waited, Created
  <2>4. CASE job.state = "waiting"
    <3>1. /\ job.policy \in Created /\ job.target \in Target /\ job.due \in 0..PollPeriod
          /\ job.late \in 0..MaxLate /\ job.got \subseteq Endpoint
      BY <1>1, <2>4, NoJobFacts DEF TypeOK
    <3>2. job' = IF job.due > 0 THEN [job EXCEPT !.due = job.due - 1] ELSE [job EXCEPT !.late = job.late + 1]
      BY <1>13, <2>4 DEF Tick
    <3>3. openFor' <= (PollPeriod - job.due) + job.late + 1 /\ openFor' \in Nat
      BY <1>1, <2>1, <2>4, <3>1, PolicyAssumption DEF Waited
    <3>4. CASE job.due > 0
      <4>1. job' = [job EXCEPT !.due = job.due - 1] /\ job.due - 1 \in 0..PollPeriod
        BY <3>1, <3>2, <3>4, PolicyAssumption
      <4> QED
        BY <1>1, <2>1, <2>2, <2>4, <3>1, <3>3, <4>1, PolicyAssumption DEF PolicyInv, TypeOK, Waited, Created
    <3>5. CASE ~(job.due > 0)
      <4>1. job' = [job EXCEPT !.late = job.late + 1] /\ job.late + 1 \in 0..MaxLate /\ job.due = 0
        BY <2>1, <2>4, <3>1, <3>2, <3>5, PolicyAssumption
      <4> QED
        BY <1>1, <2>1, <2>2, <2>4, <3>1, <3>3, <4>1, PolicyAssumption DEF PolicyInv, TypeOK, Waited, Created
    <3> QED
      BY <3>4, <3>5
  <2> QED
    BY <2>3, <2>4
<1>14. CASE UNCHANGED vars
  BY <1>1, <1>7, <1>14 DEF vars
<1> QED
  BY <1>4, <1>5, <1>6, <1>8, <1>9, <1>10, <1>11, <1>12, <1>13, <1>14 DEF Next

LEMMA PolicyInvAlways == Spec => []PolicyInv
  BY PolicyInvInit, PolicyInvStep, PTL DEF Spec

\* The engine and the schedule job keep their tables and their job well formed.
THEOREM PolicyTypeCorrect == Spec => []TypeOK
<1>1. PolicyInv => TypeOK
  BY DEF PolicyInv
<1> QED
  BY <1>1, PolicyInvAlways, PTL

\* Whatever the windows, the period and the delay of the workers are, a deployment
\* waits at an open window for a period and a delay at most.
THEOREM OpenWindowTaken == Spec => []NotPastTheWindow
<1>1. PolicyInv => NotPastTheWindow
  <2> SUFFICES ASSUME PolicyInv PROVE openFor <= PollPeriod + MaxLate
    BY DEF NotPastTheWindow
  <2>1. job.state = "waiting" => job.due \in 0..PollPeriod /\ job.late \in 0..MaxLate
    BY NoJobFacts DEF PolicyInv, TypeOK
  <2>2. openFor \in Nat
    BY DEF PolicyInv, TypeOK
  <2> QED
    BY <2>1, <2>2, PolicyAssumption DEF PolicyInv, Waited
<1> QED
  BY <1>1, PolicyInvAlways, PTL

\* In any fleet, with any groups and statuses, expand_targets and _matches_target
\* agree about every target but an organization.
THEOREM ReachIsMatch == Spec => []ReachMatches
<1>1. TypeOK => ReachMatches
  <2> SUFFICES ASSUME TypeOK, NEW target \in Target
               PROVE  /\ \A e \in Expand(target) : Matches(target, e)
                      /\ target.type # "organization" =>
                           \A e \in ActiveHosts : Matches(target, e) => e \in Expand(target)
    BY DEF ReachMatches
  <2>1. CASE target.type = "all"
    BY <2>1 DEF Expand, Matches
  <2>2. CASE target.type = "endpoint"
    BY <2>2 DEF Expand, Matches, ActiveHosts
  <2>3. CASE target.type = "organization"
    BY <2>3 DEF Expand, Matches
  <2>4. CASE target.type = "group"
    <3>1. target.id \in Group /\ target.id # Null /\ Expand(target) = GroupReach(target.id)
      BY <2>4, PolicyAssumption DEF Target, Expand
    <3>2. \A e \in Endpoint : Matches(target, e) <=> target.id \in host[e].member \/ target.id = host[e].group
      BY <2>4, <3>1 DEF Matches, GroupsOf
    <3> QED
      BY <3>1, <3>2 DEF GroupReach, ActiveHosts
  <2> QED
    BY <2>1, <2>2, <2>3, <2>4 DEF Target
<1> QED
  BY <1>1, PolicyTypeCorrect, PTL

-----------------------------------------------------------------------------
(* Install windows *)

LEMMA TimesMonotone ==
  ASSUME NEW a \in Int, NEW b \in Int, NEW c \in Nat, a <= b
  PROVE  a * c <= b * c
<1>1. (b - a) * c >= 0
  <2>1. b - a \in Nat
    OBVIOUS
  <2> QED
    BY <2>1
<1> QED
  BY <1>1

\* The remainder is the one number within the bounds that differs by a multiple.
LEMMA RemainderIs ==
  ASSUME NEW W \in Nat \ {0}, NEW q \in Int, NEW r \in 0..(W - 1)
  PROVE  (q * W + r) % W = r
<1> DEFINE x == q * W + r
<1>1. x \in Int
  OBVIOUS
<1>2. PICK k \in Int : k = x \div W
  BY <1>1
<1>3. PICK s \in 0..(W - 1) : s = x % W
  BY <1>1
<1>4. k * W + s = q * W + r
  BY <1>1, <1>2, <1>3
<1>5. ~(k < q)
  <2> SUFFICES ASSUME k + 1 <= q PROVE FALSE
    OBVIOUS
  <2>1. (k + 1) * W <= q * W
    BY TimesMonotone
  <2> QED
    BY <1>4, <2>1
<1>6. ~(q < k)
  <2> SUFFICES ASSUME q + 1 <= k PROVE FALSE
    OBVIOUS
  <2>1. (q + 1) * W <= k * W
    BY TimesMonotone
  <2> QED
    BY <1>4, <2>1
<1>7. k = q
  BY <1>5, <1>6
<1> QED
  BY <1>3, <1>4, <1>7

\* Where a time lies in the week that begins k days and r units before it, and
\* when that is less than a day (or a part of one) from the beginning.
LEMMA WithinADay ==
  ASSUME NEW k \in Int, NEW r \in 0..(DayLen - 1), NEW q \in Int, NEW c \in 0..(Days - 1),
         k = q * Days + c, NEW len \in 0..DayLen
  PROVE  (k * DayLen + r) % Week < len <=> c = 0 /\ r < len
<1>1. Days \in Nat \ {0} /\ DayLen \in Nat \ {0} /\ Week = Days * DayLen /\ Week \in Nat \ {0}
  BY PolicyAssumption DEF Week
<1>2. k * DayLen + r = q * Week + (c * DayLen + r)
  BY <1>1
<1>3. c * DayLen \in Nat /\ c * DayLen <= (Days - 1) * DayLen
  BY <1>1, TimesMonotone
<1>4. c * DayLen + r \in 0..(Week - 1)
  BY <1>1, <1>3
<1>5. PICK v \in 0..(Week - 1) : v = c * DayLen + r
  BY <1>4
<1>6. (k * DayLen + r) % Week = v
  <2>1. k * DayLen + r = q * Week + v
    BY <1>2, <1>5
  <2>2. (q * Week + v) % Week = v
    BY <1>1, RemainderIs
  <2> QED
    BY <2>1, <2>2
<1>8. CASE c = 0
  <2>1. v = r
    BY <1>1, <1>5, <1>8
  <2> QED
    BY <1>6, <1>8, <2>1
<1>7. CASE c # 0
  <2>1. 1 * DayLen <= c * DayLen
    BY <1>1, <1>7, TimesMonotone
  <2> QED
    BY <1>1, <1>3, <1>5, <1>6, <1>7, <2>1
<1> QED
  BY <1>7, <1>8

\* The day and the unit of a time
LEMMA DayAndUnit ==
  ASSUME NEW t \in Time
  PROVE  /\ t \div DayLen \in 0..(Days - 1) /\ t % DayLen \in 0..(DayLen - 1)
         /\ t = (t \div DayLen) * DayLen + (t % DayLen)
<1>1. DayLen \in Nat \ {0} /\ Days \in Nat \ {0} /\ t \in Nat /\ t < Days * DayLen
  BY PolicyAssumption DEF Time, Week
<1>2. PICK d \in Int : d = t \div DayLen
  BY <1>1
<1>3. PICK m \in 0..(DayLen - 1) : m = t % DayLen
  BY <1>1
<1>4. t = d * DayLen + m
  BY <1>1, <1>2, <1>3
<1>5. d >= 0
  <2> SUFFICES ASSUME d <= -1 PROVE FALSE
    OBVIOUS
  <2>1. d * DayLen <= (-1) * DayLen
    BY <1>1, TimesMonotone
  <2> QED
    BY <1>1, <1>4, <2>1
<1>6. d < Days
  <2> SUFFICES ASSUME Days <= d PROVE FALSE
    BY <1>1
  <2>1. Days * DayLen <= d * DayLen
    BY <1>1, TimesMonotone
  <2> QED
    BY <1>1, <1>4, <2>1
<1> QED
  BY <1>1, <1>2, <1>3, <1>4, <1>5, <1>6

\* The day before, in a week that comes round
LEMMA DayBefore ==
  ASSUME NEW d \in 0..(Days - 1)
  PROVE  (d + Days - 1) % Days = IF d = 0 THEN Days - 1 ELSE d - 1
<1>1. Days \in Nat \ {0}
  BY PolicyAssumption
<1>2. CASE d = 0
  <2>1. d + Days - 1 = 0 * Days + (Days - 1) /\ Days - 1 \in 0..(Days - 1)
    BY <1>1, <1>2
  <2> QED
    BY <1>1, <1>2, <2>1, RemainderIs
<1>3. CASE d # 0
  <2>1. d + Days - 1 = 1 * Days + (d - 1) /\ d - 1 \in 0..(Days - 1)
    BY <1>1, <1>3
  <2> QED
    BY <1>1, <1>3, <2>1, RemainderIs
<1> QED
  BY <1>2, <1>3

\* What a window is meant to be, in days and hours: it is the day itself from its
\* start on, or the day before until its end.
LEMMA IntendedByDay ==
  ASSUME NEW w \in Window, NEW t \in Time, NEW d, d = t \div DayLen, NEW m, m = t % DayLen,
         NEW before, before = (d + Days - 1) % Days
  PROVE  Intended(w, t) <=> \/ d \in w.days /\ w.start <= m /\ m - w.start < Length(w)
                            \/ before \in w.days /\ m < w.start /\ m - w.start + DayLen < Length(w)
<1>1. /\ Days \in Nat \ {0} /\ DayLen \in Nat \ {0} /\ w.start \in 0..(DayLen - 1) /\ w.end \in 0..DayLen
      /\ w.days \subseteq 0..(Days - 1)
  BY PolicyAssumption, WindowAssumption
<1>2. d \in 0..(Days - 1) /\ m \in 0..(DayLen - 1) /\ t = d * DayLen + m
  BY DayAndUnit
<1>3. Length(w) \in 0..DayLen
  BY <1>1 DEF Length
<1>4. before = IF d = 0 THEN Days - 1 ELSE d - 1
  BY <1>2, DayBefore
<1>5. ASSUME NEW e \in w.days
      PROVE  (t - (e * DayLen + w.start)) % Week < Length(w)
               <=> \/ e = d /\ w.start <= m /\ m - w.start < Length(w)
                   \/ e = before /\ m < w.start /\ m - w.start + DayLen < Length(w)
  <2>1. e \in 0..(Days - 1)
    BY <1>1
  <2>2. CASE w.start <= m
    <3>1. t - (e * DayLen + w.start) = (d - e) * DayLen + (m - w.start) /\ m - w.start \in 0..(DayLen - 1)
      BY <1>1, <1>2, <2>1, <2>2
    <3>2. PICK q \in {0, -1}, c \in 0..(Days - 1) : d - e = q * Days + c /\ (c = 0 <=> e = d)
      <4>1. CASE e <= d
        <5>1. d - e = 0 * Days + (d - e) /\ d - e \in 0..(Days - 1)
          BY <1>1, <1>2, <2>1, <4>1
        <5> QED
          BY <1>2, <2>1, <5>1
      <4>2. CASE d < e
        <5>1. d - e = (-1) * Days + (d - e + Days) /\ d - e + Days \in 1..(Days - 1)
          BY <1>1, <1>2, <2>1, <4>2
        <5> QED
          BY <1>2, <2>1, <4>2, <5>1
      <4> QED
        BY <1>2, <2>1, <4>1, <4>2
    <3>3. (t - (e * DayLen + w.start)) % Week < Length(w) <=> e = d /\ m - w.start < Length(w)
      BY <1>2, <1>3, <2>1, <3>1, <3>2, WithinADay
    <3> QED
      BY <1>1, <1>2, <2>2, <3>3
  <2>3. CASE m < w.start
    <3>1. /\ t - (e * DayLen + w.start) = (d - e - 1) * DayLen + (m - w.start + DayLen)
          /\ m - w.start + DayLen \in 0..(DayLen - 1)
      <4>1. (d - e - 1) * DayLen = d * DayLen - e * DayLen - DayLen
        BY <1>1, <1>2, <2>1
      <4>2. d * DayLen \in Int /\ e * DayLen \in Int
        BY <1>1, <1>2, <2>1
      <4> QED
        BY <1>1, <1>2, <2>3, <4>1, <4>2
    <3>2. PICK q \in {0, -1}, c \in 0..(Days - 1) : d - e - 1 = q * Days + c /\ (c = 0 <=> e = before)
      <4>1. CASE e < d
        <5>1. d - e - 1 = 0 * Days + (d - e - 1) /\ d - e - 1 \in 0..(Days - 1)
          BY <1>1, <1>2, <2>1, <4>1
        <5>2. d - e - 1 = 0 <=> e = before
          BY <1>1, <1>2, <1>4, <2>1, <4>1
        <5> QED
          BY <5>1, <5>2
      <4>2. CASE d <= e
        <5>1. d - e - 1 = (-1) * Days + (d - e - 1 + Days) /\ d - e - 1 + Days \in 0..(Days - 1)
          BY <1>1, <1>2, <2>1, <4>2
        <5>2. d - e - 1 + Days = 0 <=> e = before
          BY <1>1, <1>2, <1>4, <2>1, <4>2
        <5> QED
          BY <5>1, <5>2
      <4> QED
        BY <1>2, <2>1, <4>1, <4>2
    <3>3. (t - (e * DayLen + w.start)) % Week < Length(w) <=> e = before /\ m - w.start + DayLen < Length(w)
      BY <1>2, <1>3, <2>1, <3>1, <3>2, WithinADay
    <3> QED
      BY <1>1, <1>2, <2>3, <3>3
  <2> QED
    BY <1>1, <1>2, <2>2, <2>3
<1> QED
  BY <1>5 DEF Intended

\* Windows of any days, hours and time zones: one that ends on the day it begins
\* is open at exactly the times meant; one over midnight is wrong only before its
\* end, and there only if of the day and the day before just one is a day of the
\* window (is_within_install_window).
THEOREM WindowsAreMeant == Spec => []WindowMeaning
<1>1. ASSUME TypeOK PROVE WindowMeaning
  <2> SUFFICES ASSUME NEW w \in Window, NEW t, t = Local(w, now), NEW d, d = t \div DayLen,
                      ~(Within(w, now) <=> Intended(w, t))
               PROVE  /\ w.start > w.end /\ t % DayLen < w.end
                      /\ (d \in w.days) # ((d + Days - 1) % Days \in w.days)
    BY DEF WindowMeaning, Within, WithinHours, Intended
  <2>1. /\ Days \in Nat \ {0} /\ DayLen \in Nat \ {0} /\ w.start \in 0..(DayLen - 1) /\ w.end \in 0..DayLen
        /\ w # Null /\ w # Empty /\ w.tz \in Int \cup {Null}
    BY PolicyAssumption, WindowAssumption
  <2>2. t \in Time
    <3>1. Week \in Nat \ {0} /\ now \in Nat
      BY <1>1, <2>1 DEF Week, TypeOK, Time
    <3>2. PICK k \in Int : t = (now + k) % Week
      BY <2>1 DEF Local
    <3> QED
      BY <3>1, <3>2 DEF Time
  <2>3. PICK m \in 0..(DayLen - 1) : m = t % DayLen
    BY <2>2, DayAndUnit
  <2>4. PICK before : before = (d + Days - 1) % Days
    OBVIOUS
  <2>5. Within(w, now) <=> /\ d \in w.days
                           /\ IF w.start <= w.end THEN w.start <= m /\ m < w.end ELSE m >= w.start \/ m < w.end
    BY <2>1, <2>3 DEF Within, WithinHours
  <2>6. Intended(w, t) <=> \/ d \in w.days /\ w.start <= m /\ m - w.start < Length(w)
                           \/ before \in w.days /\ m < w.start /\ m - w.start + DayLen < Length(w)
    BY <2>2, <2>3, <2>4, IntendedByDay
  <2>7. CASE w.start <= w.end
    <3>1. Length(w) = w.end - w.start
      BY <2>1, <2>7 DEF Length
    <3>2. Intended(w, t) <=> d \in w.days /\ w.start <= m /\ m < w.end
      BY <2>1, <2>6, <3>1
    <3> QED
      BY <2>5, <2>7, <3>2
  <2>8. CASE w.end < w.start
    <3>1. Length(w) = w.end - w.start + DayLen
      BY <2>1, <2>8 DEF Length
    <3>2. Intended(w, t) <=> \/ d \in w.days /\ w.start <= m
                             \/ before \in w.days /\ m < w.end
      BY <2>1, <2>6, <2>8, <3>1
    <3>3. Within(w, now) <=> d \in w.days /\ (w.start <= m \/ m < w.end)
      BY <2>1, <2>5, <2>8
    <3>4. m < w.end => ~(w.start <= m)
      BY <2>1, <2>8
    <3> QED
      BY <2>1, <2>3, <2>4, <2>8, <3>2, <3>3, <3>4
  <2> QED
    BY <2>1, <2>7, <2>8
<1> QED
  BY <1>1, PolicyTypeCorrect, PTL

-----------------------------------------------------------------------------
(* The dry run *)

\* Of the policies that apply to an endpoint, one has the least priority number.
LEMMA FirstApplies ==
  ASSUME TypeOK, NEW e, NEW x, NEW p \in Created, Applies(p, e, x)
  PROVE  \E q \in Created : Applies(q, e, x) /\ \A r \in Created : Applies(r, e, x) => ~Before(r, q)
<1> DEFINE Numbers == {policy[q].priority : q \in {r \in Created : Applies(r, e, x)}}
<1>1. \A q \in Created : policy[q].priority \in Nat
  BY CreatedFacts DEF Row
<1>2. Numbers \subseteq Nat /\ policy[p].priority \in Numbers
  BY <1>1
<1> HIDE DEF Numbers
<1>3. PICK least \in Numbers : \A k \in Numbers : least <= k
  <2>1. PICK least \in Numbers : \A k \in Numbers : <<k, least>> \notin OpToRel(<, Nat)
    BY <1>2, WFMin, NatLessThanWellFounded, Zenon
  <2>2. \A k \in Numbers : ~(k < least)
    BY <1>2, <2>1, Zenon DEF OpToRel
  <2> QED
    BY <1>2, <2>2
<1>4. PICK q \in Created : Applies(q, e, x) /\ policy[q].priority = least
  BY <1>3 DEF Numbers
<1>5. ASSUME NEW r \in Created, Applies(r, e, x) PROVE ~Before(r, q)
  <2>1. policy[r].priority \in Numbers
    BY <1>5 DEF Numbers
  <2>2. least <= policy[r].priority
    BY <1>3, <2>1
  <2> QED
    BY <1>1, <1>4, <2>2 DEF Before
<1> QED
  BY <1>4, <1>5

\* Where the dry run of a policy and resolve_policy disagree, whatever policies,
\* exceptions and endpoints there are: who is counted is governed by that policy
\* or one of at least its priority, and who is governed is counted, but for what
\* simulate_policy overlooks, two exceptions for one endpoint, organizations and
\* endpoints that are not active (simulate_policy, resolve_policy).
THEOREM DryRunIsTrue == Spec => []DryRunAgrees
<1>1. ASSUME TypeOK, ReachMatches, NEW p \in Created, NEW x \in Patch, NEW e \in Endpoint,
             e \in Expand(policy[p].target), ~Overlooked(p, x)
      PROVE  Eligible(p, e, x)
  <2>1. policy[p].target \in Target
    BY <1>1, CreatedFacts DEF Row
  <2> QED
    BY <1>1, <2>1 DEF ReachMatches, Eligible, Overlooked
<1>2. ASSUME TypeOK, ReachMatches, NEW p \in Created, NEW x \in Patch, NEW e \in Endpoint,
             e \in DryRun(p, x), ~Overlooked(p, x),
             \A q \in Created : ~Before(p, q) => ~Fails(q, e, x)
      PROVE  Resolved(e, x) # {} /\ \A q \in Resolved(e, x) : ~Before(p, q)
  <2>1. Applies(p, e, x)
    BY <1>1, <1>2 DEF DryRun, Applies
  <2>2. PICK q \in Created : Applies(q, e, x) /\ \A r \in Created : Applies(r, e, x) => ~Before(r, q)
    BY <1>2, <2>1, FirstApplies
  <2>3. ASSUME NEW r \in Created, Before(r, q) PROVE ~Fails(r, e, x)
    <3>1. policy[p].priority \in Nat /\ policy[r].priority \in Nat /\ policy[q].priority \in Nat
      BY <1>2, CreatedFacts DEF Row
    <3>2. ~Before(p, q)
      BY <2>1, <2>2
    <3>3. ~Before(p, r)
      BY <2>3, <3>1, <3>2 DEF Before
    <3> QED
      BY <1>2, <3>3
  <2>4. q \in Resolved(e, x)
    BY <2>2, <2>3 DEF Resolved
  <2> QED
    BY <2>1, <2>4 DEF Resolved
<1>3. ASSUME ReachMatches, NEW p \in Created, NEW x \in Patch, NEW e \in ActiveHosts,
             policy[p].target \in Target, p \in Resolved(e, x), policy[p].target.type # "organization"
      PROVE  e \in DryRun(p, x)
  <2>1. Matches(policy[p].target, e) /\ ~Excepted(p, e, x)
    BY <1>3 DEF Resolved, Applies, Eligible
  <2>2. e \in Expand(policy[p].target)
    BY <1>3, <2>1 DEF ReachMatches
  <2> QED
    BY <2>1, <2>2 DEF DryRun
<1>4. ASSUME TypeOK, ReachMatches, NEW p \in Created, NEW x \in Patch, NEW e \in Endpoint,
             e \in Expand(policy[p].target), ~Overlooked(p, x), Fails(p, e, x),
             \A q \in Created : Before(q, p) => ~Applies(q, e, x)
      PROVE  ResolveFails(e, x)
  BY <1>1, <1>4 DEF ResolveFails
<1>5. TypeOK => \A p \in Created : policy[p].target \in Target
  BY CreatedFacts DEF Row
<1>6. TypeOK /\ ReachMatches => DryRunAgrees
  BY <1>2, <1>3, <1>4, <1>5 DEF DryRunAgrees
<1> QED
  BY <1>6, PolicyTypeCorrect, ReachIsMatch, PTL
=============================================================================
