------------------------------- MODULE Policy -------------------------------
(***************************************************************************)
(* Policies: the API of app/routers/policies.py, the engine of             *)
(* app/services/policy_engine.py (which policy applies, when its install   *)
(* window is open, whom a target reaches, the dry run) and the part of the *)
(* schedule job that waits for the window.  Time is a week of DayLen units *)
(* a day that comes round again.                                           *)
(***************************************************************************)
EXTENDS Integers, FiniteSets

CONSTANTS
  PolicyId, Endpoint, Group, Org, Patch,
  Null,          \* a column or a field of a request that is not set
  Empty,         \* the install window {}
  Days,          \* days of the week
  DayLen,        \* units of time in a day
  PollPeriod,    \* countdown of a job that has to wait for the window
  MaxLate,       \* bound: how late a worker takes a job that is due
  Window,        \* install windows in use
  PolicyChoice,  \* bound: policies that are created
  UpdateChoice,  \* bound: bodies of PUT /policies/<id>
  FleetChoice,   \* bound: endpoints and groups at the beginning
  Budgets        \* bound: how often an administrator acts

Act == {"create", "update", "delete", "except", "move", "decommission", "deploy"}

Week == Days * DayLen
Time == 0..(Week - 1)

Target ==
  [type : {"all"}, id : {Null}] \cup [type : {"group"}, id : Group]
  \cup [type : {"organization"}, id : Org] \cup [type : {"endpoint"}, id : Endpoint]

\* A row of policies.  A patch stands for its type as well.
Row == [active : BOOLEAN, priority : Nat, target : Target, types : SUBSET Patch,
        window : Window \cup {Null, Empty}, excluded : SUBSET Patch]

\* What a body of PUT /policies/<id> may set a column to
Column == [active |-> BOOLEAN, priority |-> Nat, target |-> Target, types |-> SUBSET Patch,
           window |-> Window \cup {Empty}, excluded |-> SUBSET Patch]

\* A row of policy_exceptions; over says that expires_at has passed.
Exception == [id : Nat, policy : PolicyId, endpoint : Endpoint, patch : Patch \cup {Null},
              over : BOOLEAN]

\* An endpoint with its default group, its organization and its memberships
Host == [status : {"active", "quarantined", "decommissioned"}, group : Group \cup {Null},
         org : Org \cup {Null}, member : SUBSET Group]

ASSUME PolicyAssumption ==
  /\ IsFiniteSet(PolicyId) /\ IsFiniteSet(Endpoint) /\ Null \notin Group \cup Row
  /\ Days \in Nat \ {0} /\ DayLen \in Nat \ {0} /\ PollPeriod \in Nat \ {0} /\ MaxLate \in Nat
  /\ PolicyChoice \subseteq Row /\ FleetChoice \subseteq [Endpoint -> Host]
  /\ \A body \in UpdateChoice : \A f \in DOMAIN body \cap DOMAIN Column :
       body[f] \in Column[f] \cup {Null}
  /\ Budgets \subseteq [Act -> Nat]

\* An install window is a JSON value that nothing looks at before it is used: its
\* days are taken to be days, its hours to be hours; "24:00" is an end.
ASSUME WindowAssumption ==
  /\ Null \notin Window /\ Empty \notin Window
  /\ Window \subseteq [days : SUBSET (0..(Days - 1)), start : 0..(DayLen - 1), end : 0..DayLen,
                      tz : Int \cup {Null}]

VARIABLES
  policy,      \* policies
  exceptions,  \* policy_exceptions
  host,        \* endpoints and endpoint_group_members
  now,         \* the time, in UTC
  job,         \* the schedule job of a deployment
  openFor,     \* history: how long the window has been open while the job waits
  budget

vars == <<policy, exceptions, host, now, job, openFor, budget>>

Spend(a) == budget[a] > 0 /\ budget' = [budget EXCEPT ![a] = @ - 1]

Created == {p \in PolicyId : policy[p] # Null}

-----------------------------------------------------------------------------
(* Install windows *)

\* Defect: the last unit is the end.
WithinLast(w, t) ==
  LET m == t % DayLen IN
  /\ t \div DayLen \in w.days
  /\ IF w.start <= w.end THEN w.start <= m /\ m <= w.end ELSE m >= w.start \/ m <= w.end

\* The day of the week and the hours of the day are looked at one by one: of a
\* window over midnight, both parts belong to the same calendar day.
WithinHours(w, t) ==
  LET m == t % DayLen IN
  /\ t \div DayLen \in w.days
  /\ IF w.start <= w.end THEN w.start <= m /\ m < w.end ELSE m >= w.start \/ m < w.end

\* Local time: a name of a time zone that is not known stands for UTC.
Local(w, t) == (t + (IF w.tz = Null THEN 0 ELSE w.tz)) % Week

\* is_within_install_window
Within(w, t) == w \in {Null, Empty} \/ WithinHours(w, Local(w, t))

-----------------------------------------------------------------------------
(* Whom a policy is for *)

\* _get_endpoint_group_ids
GroupsOf(e) == host[e].member \cup ({host[e].group} \ {Null})

\* _matches_target
Matches(target, e) ==
  \/ target.type = "all"
  \/ target.type = "endpoint" /\ target.id = e
  \/ target.type = "organization" /\ target.id = host[e].org
  \/ target.type = "group" /\ target.id \in GroupsOf(e)

ActiveHosts == {e \in Endpoint : host[e].status = "active"}

\* Defect: the default group is forgotten.
GroupMembersOnly(g) == {e \in Endpoint : g \in host[e].member}

\* The members of a group whatever their status, and the active endpoints whose
\* default group it is
GroupReach(g) == {e \in Endpoint : g \in host[e].member} \cup {e \in ActiveHosts : host[e].group = g}

\* expand_targets
Expand(target) ==
  CASE target.type = "endpoint" -> {target.id}
    [] target.type = "all"      -> ActiveHosts
    [] target.type = "group"    -> GroupReach(target.id)
    [] OTHER                    -> {}

\* The exceptions that _has_endpoint_exception selects: of this patch, or of all
Matching(p, e, x) ==
  {n \in exceptions : n.policy = p /\ n.endpoint = e /\ n.patch \in {x, Null} /\ ~n.over}

\* scalar_one_or_none: two rows are an error.
Excepted(p, e, x) == Matching(p, e, x) # {}
Fails(p, e, x)    == Cardinality(Matching(p, e, x)) > 1

\* A policy that resolve_policy gets as far as the exceptions with
Eligible(p, e, x) ==
  /\ policy[p].active /\ Matches(policy[p].target, e)
  /\ x \in policy[p].types /\ x \notin policy[p].excluded

\* The policies are tried by priority, those of the same priority in any order,
\* until one applies or the look-up of an exception fails.
Before(p, q) == policy[p].priority < policy[q].priority

Applies(p, e, x) == Eligible(p, e, x) /\ ~Excepted(p, e, x)

\* The policies resolve_policy may return, and whether it may fail
Resolved(e, x) ==
  {p \in Created : /\ Applies(p, e, x)
                   /\ \A q \in Created : Before(q, p) => ~Applies(q, e, x) /\
                        ~(Eligible(q, e, x) /\ Fails(q, e, x))}

ResolveFails(e, x) ==
  \E q \in Created : /\ Eligible(q, e, x) /\ Fails(q, e, x)
                     /\ \A p \in Created : Before(p, q) => ~Applies(p, e, x)

\* Defect: an exception for all patches is not found.
DryRunForThePatch(p, x) ==
  {e \in Expand(policy[p].target) : \A n \in Matching(p, e, x) : n.patch # x}

\* simulate_policy: the endpoints it counts as affected, and whether it fails
DryRun(p, x)      == {e \in Expand(policy[p].target) : ~Excepted(p, e, x)}
DryRunFails(p, x) == \E e \in Expand(policy[p].target) : Fails(p, e, x)

-----------------------------------------------------------------------------
(* The API of the policies *)

Create(p) ==
  /\ policy[p] = Null /\ Spend("create")
  /\ \E row \in PolicyChoice : policy' = [policy EXCEPT ![p] = row]
  /\ UNCHANGED <<exceptions, host, now, job, openFor>>

\* exclude_none: a field of the body that is null leaves the column as it is.  A
\* window is cleared by {}.
Updated(row, body) ==
  [f \in DOMAIN row |-> IF f \in DOMAIN body /\ body[f] # Null THEN body[f] ELSE row[f]]

Update(p) ==
  /\ p \in Created /\ Spend("update")
  /\ \E body \in UpdateChoice : policy' = [policy EXCEPT ![p] = Updated(@, body)]
  /\ openFor' = IF job.policy = p THEN 0 ELSE openFor
  /\ UNCHANGED <<exceptions, host, now, job>>

\* delete_policy marks the row; deployments under it go on to wait for its window.
Delete(p) ==
  /\ p \in Created /\ Spend("delete")
  /\ policy' = [policy EXCEPT ![p].active = FALSE]
  /\ UNCHANGED <<exceptions, host, now, job, openFor>>

\* Nothing keeps a second exception for the same endpoint out.
AddException(p, e, x) ==
  /\ p \in Created /\ Spend("except")
  /\ exceptions' = exceptions \cup
       {[id |-> budget["except"], policy |-> p, endpoint |-> e, patch |-> x, over |-> FALSE]}
  /\ UNCHANGED <<policy, host, now, job, openFor>>

RemoveException(n) ==
  /\ n \in exceptions
  /\ exceptions' = exceptions \ {n}
  /\ UNCHANGED <<policy, host, now, job, openFor, budget>>

ExceptionExpires(n) ==
  /\ n \in exceptions /\ ~n.over
  /\ exceptions' = (exceptions \ {n}) \cup {[n EXCEPT !.over = TRUE]}
  /\ UNCHANGED <<policy, host, now, job, openFor, budget>>

\* update_endpoint: a group or an organization can be set, and not taken away.
Move(e) ==
  /\ Spend("move")
  /\ \/ \E g \in Group : host' = [host EXCEPT ![e].group = g]
     \/ \E o \in Org : host' = [host EXCEPT ![e].org = o]
  /\ UNCHANGED <<policy, exceptions, now, job, openFor>>

Decommission(e) ==
  /\ Spend("decommission")
  /\ host' = [host EXCEPT ![e].status = "decommissioned"]
  /\ UNCHANGED <<policy, exceptions, now, job, openFor>>

-----------------------------------------------------------------------------
(* The schedule job of a deployment under a policy *)

\* A deployment is created, or made by an upload for a watched product.
Enqueue(p, target) ==
  /\ job.state = "none" /\ p \in Created /\ Spend("deploy")
  /\ job' = [state |-> "waiting", policy |-> p, target |-> target, due |-> 0, late |-> 0, got |-> {}]
  /\ UNCHANGED <<policy, exceptions, host, now, openFor>>

\* Defect: the job comes back a day later.
CountdownDay == DayLen

Countdown == PollPeriod

\* The job runs: the policy is read by its id, whether or not it is active.
Run ==
  /\ job.state = "waiting" /\ job.due = 0
  /\ IF Within(policy[job.policy].window, now)
     THEN /\ job' = [job EXCEPT !.state = "started", !.got = Expand(job.target)]
          /\ openFor' = 0
     ELSE /\ job' = [job EXCEPT !.due = Countdown, !.late = 0]
          /\ UNCHANGED openFor
  /\ UNCHANGED <<policy, exceptions, host, now, budget>>

\* Time passes.  A job that is due is taken at most MaxLate later.
Tick ==
  /\ ~(job.state = "waiting" /\ job.due = 0 /\ job.late = MaxLate)
  /\ now' = (now + 1) % Week
  /\ job' = IF job.state # "waiting" THEN job
            ELSE IF job.due > 0 THEN [job EXCEPT !.due = @ - 1] ELSE [job EXCEPT !.late = @ + 1]
  /\ openFor' = IF job.state = "waiting" /\ Within(policy[job.policy].window, now)
                THEN openFor + 1 ELSE 0
  /\ UNCHANGED <<policy, exceptions, host, budget>>

-----------------------------------------------------------------------------
NoJob == [state |-> "none", policy |-> Null, target |-> Null, due |-> 0, late |-> 0, got |-> {}]

Init ==
  /\ policy = [p \in PolicyId |-> Null] /\ exceptions = {}
  /\ host \in FleetChoice
  /\ now = 0 /\ job = NoJob /\ openFor = 0
  /\ budget \in Budgets

Next ==
  \/ \E p \in PolicyId :
       \/ Create(p) \/ Update(p) \/ Delete(p)
       \/ \E e \in Endpoint, x \in Patch \cup {Null} : AddException(p, e, x)
       \/ \E target \in Target : Enqueue(p, target)
  \/ \E n \in exceptions : RemoveException(n) \/ ExceptionExpires(n)
  \/ \E e \in Endpoint : Move(e) \/ Decommission(e)
  \/ Run \/ Tick

Spec == Init /\ [][Next]_vars

(***************************************************************************)
(* Time goes on and a worker takes a job that is due.  Nothing makes an    *)
(* administrator act.                                                      *)
(***************************************************************************)
FairSpec == Spec /\ WF_vars(Run) /\ WF_vars(Tick)

-----------------------------------------------------------------------------
(* Properties *)

TypeOK ==
  /\ policy \in [PolicyId -> Row \cup {Null}]
  /\ exceptions \subseteq Exception
  /\ host \in [Endpoint -> Host]
  /\ now \in Time
  /\ job = NoJob \/ /\ job.state \in {"waiting", "started"}
                    /\ job.policy \in Created /\ job.target \in Target
                    /\ job.due \in 0..PollPeriod /\ job.late \in 0..MaxLate
                    /\ job.got \subseteq Endpoint
  /\ openFor \in Nat
  /\ budget \in [Act -> Nat]

\* When a window is open: if it begins and ends on one day, for exactly the time
\* from its start to its end on its days.  A window over midnight differs only
\* in the hours after midnight, and only if one of the two days is a day of the
\* window and the other is not.
Length(w) == w.end - w.start + (IF w.start <= w.end THEN 0 ELSE DayLen)
Intended(w, t) == \E d \in w.days : (t - (d * DayLen + w.start)) % Week < Length(w)

WindowMeaning ==
  \A w \in Window :
    LET t == Local(w, now)  d == t \div DayLen IN
    Within(w, now) # Intended(w, t)
      => /\ w.start > w.end /\ t % DayLen < w.end
         /\ (d \in w.days) # ((d + Days - 1) % Days \in w.days)

\* A deployment never waits through more than a period of the job and its delay
\* while the window is open.
NotPastTheWindow == openFor <= PollPeriod + MaxLate

\* So a deployment starts if its window is, and stays, at least that long: the
\* poll every hour does not miss one week after the other.
LongEnough(w) ==
  \E t \in Time : \A k \in 0..(PollPeriod + MaxLate) : Within(w, (t + k) % Week)

WaitEnds ==
  <>[](job.state # "none" => LongEnough(policy[job.policy].window))
    => (job.state = "waiting" ~> job.state = "started")

\* Whom a deployment reaches and whom the policy matches is the same: nobody is
\* reached who does not match, and every active endpoint that matches is reached,
\* but for the target "organization", which reaches nobody.
ReachMatches ==
  \A target \in Target :
    /\ \A e \in Expand(target) : Matches(target, e)
    /\ target.type # "organization" => \A e \in ActiveHosts : Matches(target, e) => e \in Expand(target)

\* What simulate_policy does not look at: it counts the endpoints of a policy that
\* is not active, or is not for the patch, as affected, and nothing governs them.
Overlooked(p, x) == ~policy[p].active \/ x \notin policy[p].types \/ x \in policy[p].excluded

\* Where the dry run is wrong.  An endpoint that it counts as affected is governed
\* by that policy or by one of at least its priority, unless the policy is
\* overlooked or one of at least its priority has two exceptions for the endpoint.
\* The policy that governs an active endpoint counts it, but for organizations.
\* Two exceptions that break the dry run break resolve_policy as well, unless the
\* policy is overlooked or another comes first.
DryRunAgrees ==
  \A p \in Created, x \in Patch, e \in Endpoint :
    /\ e \in DryRun(p, x) /\ ~DryRunFails(p, x) =>
         \/ Overlooked(p, x)
         \/ \E q \in Created : ~Before(p, q) /\ Fails(q, e, x)
         \/ Resolved(e, x) # {} /\ \A q \in Resolved(e, x) : ~Before(p, q)
    /\ p \in Resolved(e, x) /\ ~DryRunFails(p, x)
       /\ e \in ActiveHosts /\ policy[p].target.type # "organization"
         => e \in DryRun(p, x)
    /\ e \in Expand(policy[p].target) /\ Fails(p, e, x) =>
         \/ Overlooked(p, x) \/ ResolveFails(e, x)
         \/ \E q \in Created : Before(q, p) /\ Applies(q, e, x)
=============================================================================
