# Verification of the patch management system

TLA+ models of the patch management system in `src/` (a FastAPI server with
PostgreSQL, Redis and Celery, an agent for Linux and Windows, a Vue dashboard),
TLC configurations that check them on small instances, and proofs, checked by
TLAPS, of what holds for every instance.

Paths below are relative to `src/`; `server/` stands for `pms-server/app/` and
`agent/` for `pms-agent/agent/`.

## 1. The system

### Components

| Component | State | Operations | Interacts with | What makes it correct |
|---|---|---|---|---|
| Deployment API `server/routers/deployments.py` | rows of `deployments`, `deployment_results` | create, cancel, rollback | enqueues the schedule job; pushes rollback tasks to Redis | one final status; cancellation and rollback reach what they claim to reach |
| Deployment jobs `server/tasks/deployment_tasks.py` | the jobs in the broker; the same tables; `pms:tasks:<endpoint>` in Redis | `schedule_deployment`, `finalize_deployment` | Celery, Redis, PostgreSQL | a queued task has a row and a row has a task; the final status tells the truth |
| Agent task protocol `server/routers/agent.py` | the task lists, result rows | `get_tasks`, `update_task_status` | called by agents; queues finalize | a task is offered until its end is recorded |
| Agent `agent/main.py`, `agent/api_client.py` | the tasks it fetched, the report it waits for | heartbeat, fetch, download, install, roll back, report with retries | HTTP calls that fail, time out or are refused | an installation is not repeated; every task is reported |
| Enrolment and presence `server/routers/agent.py`, `server/routers/endpoints.py`, `agent/main.py`, `agent/config.py` | `pms:enroll:<token>`, `pms:endpoint:online:<id>`, rows of `endpoints`, `config.json` | issue a token, enroll, heartbeat, quarantine, decommission | agents, Redis, PostgreSQL | a token is used once; credentials name committed endpoints; presence follows status |
| User sessions `server/routers/auth.py`, `server/core/security.py`, `server/core/deps.py`, dashboard `stores/auth.ts`, `api/client.ts` | `pms:refresh:<jti>`, the two key files, `localStorage` and the memory of each tab | login, refresh, logout, check of an access token, refresh on a 401 | tabs that share one session, several server processes | a login has one live refresh token; logout ends it; nobody is thrown out without cause |
| Policy engine `server/services/policy_engine.py`, `server/routers/policies.py` | `policies`, `policy_exceptions`, groups | change a policy or an exception, `resolve_policy`, `is_within_install_window`, `expand_targets`, `simulate_policy` | schedule job, which polls the window every hour | the four readings of a policy agree; an open window is used |
| Catalog `server/routers/patches.py`, `server/routers/admin.py`, `server/services/file_distribution.py` | `patches`, `watched_products`, objects in MinIO | upload with automatic deployment, retire, watch a product | deployment jobs, agents that download | each watcher gets one deployment per patch; what is installed is what was uploaded |
| Compliance `server/services/compliance.py` | none | `compare_versions`, verdict per endpoint, endpoints affected by a patch | inventory, catalog | the order of versions is an order; the verdict is true of the last inventory |
| WebSocket manager `server/core/ws.py`, `server/main.py` | the list of connections of one server process | connect, disconnect, broadcast | heartbeat, status report | a message comes at most once; a closed connection leaves; a dead one does not lose a report |
| Agent executor and inventory `agent/executor/`, `agent/inventory/` | files, snapshots and packages of the host, `endpoint_software` | download and check, snapshot, install, restore, collect, upsert | agent, compliance | a rollback restores what was there; the table says what is installed |
| Delta patches, LDAP, OpenVAS, reports, mail, audit, administration, views of the dashboard, migrations | outside services, or one row per call | | | |

### What is hard here

* **Two stores and a broker without a common transaction.** A deployment lives
  in PostgreSQL, in one Redis list per endpoint and in Celery's broker. The
  schedule job pushes tasks before it commits their rows
  (`deployment_tasks.py:147` and `:151`); a report removes its task and queues
  the finalize job before it commits the row (`routers/agent.py:228`, `:266`,
  `:275`); create commits before it enqueues (`deployments.py:62`, `:71`).
* **Sessions that write only what they changed.** An SQLAlchemy UPDATE writes
  the columns that differ from the values loaded earlier, so two handlers of
  one row merge in ways neither of them read. A flush also takes a row lock,
  which the schedule job holds during its loop if the deployment has a policy.
* **Agents that retry, time out, die and are refused.** `_request` tries five
  times; a timeout leaves the first attempt running on the server; the fifth
  failure is an exception that ends the agent; a 401 counts as an answer.
* **A broker that delivers again.** An `eta` or `countdown` beyond the
  visibility timeout is handed out twice.
* **Coroutines of one event loop.** `broadcast` awaits in the middle of a loop
  over the list that `connect` and `disconnect` change (`core/ws.py:21`), and
  removes what another broadcast may have removed already (`:27`).
* **Check, then act, in Redis.** `refresh` reads a key, then the user, then
  deletes the key and stores another (`auth.py:70`, `:80`, `:86`); tabs of one
  user do this at the same moment, as one expired token refuses them all.
* **Several readings of one rule**: targets, exceptions and windows of a policy
  are evaluated by four functions over two representations of a group.
* **Names shared by what is not the same**: objects of uploads
  (`patches.py:151`), snapshots (`rollback.py:95`), packages of two sources.
* **Keys that expire**: a task list as a whole, 48 hours after the last push;
  enrolment tokens; the online mark; credentials.

`PROJECT.json` lists these hazards at their lines, each with the properties
that would catch it.

## 2. The modules

| Module | Content |
|---|---|
| `Rollout` | the deployment API, the Celery jobs, the agent task protocol and the agents, composed over the shared stores; its properties |
| `Lifecycle` | what a deployment promises to the operator; `Rollout` implements it |
| `RolloutInvariant` | the inductive invariants behind `NoTaskVanishes` and `RollbackHasSnapshot` |
| `RolloutProofs` | lemmas about lists, type correctness |
| `RolloutTaskProofs` | the inductive invariant and `NoTaskVanishes` |
| `RolloutOutcomeProofs` | snapshots, installations and results; the end of a deployment; the refinement of `Lifecycle` |
| `MCRollout` | instances of `Rollout` for TLC |
| `Enrollment` | enrolment tokens, credentials, heartbeats, quarantine and decommission; its properties |
| `MCEnrollment` | instances of `Enrollment` for TLC |
| `EnrollmentProofs` | its types, `NoGhosts`, `TokenSpentOnce` and `DecommissionSticks` |
| `Broadcast`, `BroadcastProofs`, `MCBroadcast` | the connection manager and the handlers that broadcast |
| `Sessions`, `SessionsProofs`, `MCSessions` | login, refresh, logout, key files, tabs of the dashboard |
| `Policy`, `PolicyProofs`, `MCPolicy` | policies, exceptions, targets, windows and the deployment that waits for one |
| `Versions` | `compare_versions` and the order it is meant to be |
| `Catalog` | uploads, watched products, automatic deployments, the job that follows |
| `Host` | the agent on its host: download, snapshot, installer, rollback, inventory; extends `Catalog` |
| `Supply`, `SupplyProofs`, `MCSupply` | catalog, host and compliance composed; the properties of the whole chain |

`Rollout` is the protocol between server and agents, with what its outcomes are
left open; `Supply` is what the protocol is for, with every report arriving.
`Policy` refines one open choice of `Rollout`, the window, and `Supply` the
others: download, snapshot, installer and rollback.

### Rollout

One action is one stretch of code that no other process can come between as far
as the shared state is concerned: a Redis command, a read or a commit ends it.

| Code | Actions |
|---|---|
| `create_deployment` | `CreateCommit`, `CreateEnqueue` |
| `cancel_deployment` | `CancelLoad`, `CancelSelect` (flush and select: takes the lock), `CancelCommit` |
| `rollback_deployment` | `RollbackLoad`, `RollbackPush` per row, `RollbackCommit` |
| `_do_schedule` | `ScheduleIgnored`, `ScheduleDefer`, `ScheduleLoad`, `ScheduleStart`, `SchedulePush` per endpoint, `ScheduleCommit`; `ScheduleRetry` for an exception before the commit, `Redeliver` for one after it |
| `_do_finalize` | `FinalizeLoad`, `FinalizeCount`, `FinalizeCommit` |
| `update_task_status` | `Refuse` (`get_current_agent`), `Dequeue`, `LoadRow`, `CommitReport` |
| `process_tasks` | `Fetch`, `StartInstall`, `FinishDownload`, `RunInstaller`, `RunRollback` |
| `_request` | `Receive`, `AttemptFails`, `AttemptTimesOut` |
| quarantine, decommission | `Quarantine`, `Decommission` |
| the environment | `ApiFails`, `WorkerLost`, `Redeliver`, `Expire`, `AgentDies`, `AgentDiesLate` |

State: `dep`, `row` and `snap` are the columns of PostgreSQL that matter; `queue`
and `ttl` are the Redis lists and whether they expire; `sched` and `final` count
the jobs in the broker; `worker`, `ops`, `agent` and `reqs` are the local states
of jobs, API handlers, agents and status reports. `installs`, `restarts` and
`mishap` are history variables; no action reads them. A task is a triple of
deployment, execution of the schedule job and endpoint, because every execution
creates rows with fresh ids.

Abstractions: payloads, times and texts are left out; the outcome of a download,
a signature check, a snapshot or an installation is a choice; the target set is
a choice among `TargetChoices`; the install window is open or closed at will for
a deployment with a policy. `total` is 0 where `total_targets` is NULL, which it is
until the schedule job sets it and stays for an empty target set. Tasks of type `inventory_now` and `agent_upgrade`
are not in this model. `StartInstall` does not take the branch for a missing URL
or hash: the server never builds such a payload.

### Enrollment

`enroll` is `EnrollCheck` (GET), `EnrollSpend` (DELETE), `EnrollCommit`, and
`EnrollAnswer` (online key and answer); `heartbeat` is `BeatAuth`, `BeatMark`
and `BeatCommit`. The agent's `run` is `Start`, `Beat` and `Receive`; its exits
are in `AfterFailure` and `AgentDies`, the latter also in the middle of
`config.save`, which leaves a file that cannot be loaded. An administrator
issues tokens, writes them into configurations (`Provision`, not restricted to
one agent per token) and changes the status of endpoints.

### Broadcast

`broadcast` is `Begin` (line 18, up to the first send), `Tell` for one
connection, `EndLoop` and `Purge`, which removes one dead connection at a time
with `held` keeping everybody else out, as there is no await in that loop.
`Accept`, `Join` and `Ping` are `connect` and the WebSocket endpoint; `Close` is
the dashboard. A heartbeat broadcasts after its commit and starts again for
ever; the handler of a report that raises is called again by the agent, up to
`MaxAttempts` times (`Failed`). A Python list iterator is its index: `Remove`
shifts what comes behind, and `shifts` counts who was shifted past whom.

One module is one server process. There are four behind gunicorn
(`pms-server/Dockerfile`), each with its own list, so a broadcast reaches the
dashboards of its own process only, although `routers/agent.py:168` says all.

### Sessions

`BootCheck`, `BootPrivate`, `BootPublic` are `generate_rsa_keys`; a process is
named like the key it makes. `LoginStore` and `LoginAnswer` are `login`;
`RenewCheck` (signature and GET), `RenewDelete` (SELECT and DELETE) and
`RenewStore` (SETEX) are `refresh`; `Logout` is the route, which the dashboard
never calls: its own logout (`Leave`) forgets the tokens and leaves the key.
A request goes `Send`, `Serve`, and if refused `Intercept`, refresh, `Renewed`
or `Refused`. Tabs have their own memory and share `store`, the localStorage.

### Policy

Time is the minutes of a week, `Days` of `DayLen`. The routes are `Create`,
`Update` (`exclude_none`: null leaves a window as it is, `{}` clears it), `Delete`,
`AddException`, `RemoveException`; `Move` and `Decommission` change endpoints.
`Expand`, `Matches`, `Resolved`, `DryRun` and `Within` are the functions of the
engine, with `DryRunFails` and `ResolveFails` where `scalar_one_or_none` finds
two exceptions. `Enqueue`, `Run` and `Tick` are a deployment that looks at its
window at every `PollPeriod` and runs at most `MaxLate` late.

### Catalog, Host, Supply

`create_patch_with_file` is `UploadFile` (MinIO), `Reject` (a date that does not
parse, after the file is stored) or `SavePatch` (commit), `SelectWatchers`, and
per watcher `SkipWatcher` or `SaveDeployment` and `QueueJob`, then `EndUpload`;
`UploadFails` between any two. `Schedule` is what the job of module `Rollout`
does with a deployment of this one host: a task with a link, `LinkExpires`.
`TakeTask`, `Download`, `TakeSnapshot` (dpkg), `NoSnapshot` (rpm), `ShadowCopy`
(Windows), `InstallSucceeds`, `InstallFails` and `Undo` are one task on the
host; `SendInventory`, `SubmitInventory`, `ResendInventory` the inventory, whose
first attempt may be committed after the second. A file is identified with its
hash. `Verdict` and `AffectedRows` are the two queries of compliance.

## 3. Properties and runs

`Budgets` (`World` in `supply`) says how often each
fault or operator action may occur in one behaviour, and every interleaving of
them is explored.

| Run | Instance | Checked |
|---|---|---|
| `faults` | 1 deployment with a policy, 1 endpoint, 2 workers, any two faults or operator actions together (not a redelivery with a late report) | `TypeOK`, `RollbackHasSnapshot`, `NoTaskVanishes`, `InstallsBounded`, `ResultStays` |
| `live` | 1 deployment to 2 endpoints or to none, 2 workers, agent faults | `DoneMeansDone`, `CountsAreTrue`, `ImplementsLifecycle`, `RolloutEnds` |
| `life` | 2 agents, 1 token, two of error, timeout, crash, administration, or one expiry | `TypeOK`, `TokenSpentOnce`, `NoGhosts`, `DecommissionSticks`, `DecommissionedGoesOffline`, `AgentKeepsReporting` |
| `broadcast` | 2 connections, a heartbeat that repeats, a report with 3 attempts | `TypeOK`, `AtMostOnce`, `MissedOnlyByShift`, `FailuresBounded`, `ReportTaken`, `ClosedLeaves` |
| `sessions` | 2 tabs, 3 requests, 1 login, 4 pairs of tokens, an expiry and one other event, a deactivation, or a first start of 2 processes | `TypeOK`, `KeysBelongTogether`, `OneLiveKey`, `LogoutEnds`, `InnocentStays`, `RequestsEnd` |
| `policy` | 2 policies, 2 endpoints, a week of 2 days of 6 units, a poll of 2 and a delay of 1, 7 windows and the window `{}` | `TypeOK`, `WindowMeaning`, `NotPastTheWindow`, `ReachMatches`, `DryRunAgrees`, `WaitEnds` |
| `supply` | 2 uploads of one object name with a watcher that comes or goes, is retired or fails, or 1 upload with 2 deployments on a host of each platform, one mishap and a tick of the clock or a failing installer | `TypeOK`, `InstalledAsUploaded`, `WatchersServed`, `SnapshotsApart`, `ComplianceTruth`, `DeploymentShows` |
| `early` | no fault | `EveryRolloutEnds` is violated |
| `cancel` | one cancellation | `SkippedStaysSkipped` is violated |
| `redelivery` | one redelivery | `DoneMeansDone` is violated |
| `race` | no fault | `OneEndpointPerToken` is violated |
| `affected` | a host with a product and an older package of a similar name, one update by hand | `ListedIsMissing` is violated |

**What holds.**
* `NoTaskVanishes`: a row that can still change has its task on the agent's list
  or its end under way, unless the task met one of five mishaps, which are the
  exact holes of the protocol: the list expired; the report came before the
  row; a report that had been given up took effect late; the agent was refused;
  the agent died between removal and commit.
* `InstallsBounded`: the installer runs once per task and once more at most for
  every restart and every refusal of the agent, whatever is retried.
* `ResultStays`: a reported result stays, unless a report that was given up comes
  late, or a cancellation skips the row because it was pending when it was chosen.
* `RollbackHasSnapshot`: a queued rollback has something to restore.
* `DoneMeansDone`, `CountsAreTrue`: a finished deployment has no running row and
  true counters. They hold under agent faults and rollbacks. They do not hold with redelivery,
  with late reports and with cancellation, where a skipped row starts again.
* `ImplementsLifecycle`: projected to status, outstanding and failed endpoints,
  the rollout only creates, starts, settles endpoints and finishes. Late reports,
  cancellation and rollback step outside of that promise.
* `RolloutEnds`: a deployment ends, unless one of its tasks meets a mishap.
* `TokenSpentOnce`: overlapping look-ups are the only way to use a token twice.
* `NoGhosts`, `DecommissionSticks`, `DecommissionedGoesOffline`,
  `AgentKeepsReporting`: credentials and online marks name committed endpoints; a
  heartbeat under way does not undo a decommission; a decommissioned endpoint
  goes offline for good; an agent that stays up keeps coming back online.
* `AtMostOnce`, `MissedOnlyByShift`: nobody gets a message twice; at the end of a
  broadcast no more of those who stay were passed over than others were removed
  from before its place in the list. The model has this loss, as the code does:
  a dashboard that stays can miss a message when another one leaves.
* `FailuresBounded`, `ReportTaken`: `remove` at `ws.py:27` raises when the
  connection has left meanwhile, the handler answers 500 and the agent repeats.
  Every such failure needs another closed connection, so a report gets through
  if fewer connections close than the agent has attempts; with five attempts and
  a dashboard that reconnects five times at the wrong moments it does not.
* `ClosedLeaves`: a connection whose handler ended without `disconnect` is
  dropped by the next broadcasts.
* `KeysBelongTogether`: processes that start together leave one pair of keys,
  unless one writes its private key between the two files of another, which
  nothing prevents; then no token is accepted until the files are deleted.
* `OneLiveKey`, `LogoutEnds`: a login has one live refresh key, and one more for
  every refresh that overlapped another with the same token; a logout with no
  refresh under way leaves none. Both name their exceptions in the history
  variables `overlap` and `closed`; the code has the race they count.
* `InnocentStays`: refresh refuses a token that was presented once only if it
  lapsed, was logged out, or the account or the key changed. Two tabs present
  one token twice, and the loser forgets the session of both.
* `RequestsEnd`: refused, refreshed and repeated requests do not circle.
* `WindowMeaning`: `is_within_install_window` is what a window says, except in
  the hours after midnight of a window over midnight when one of the two days
  is in `days` and the other is not. The tests of the repository expect that.
* `NotPastTheWindow`, `WaitEnds`: a deployment waits through an open window for a
  poll and its delay at most; it starts if its window lasts that long every
  week. A shorter window can be missed for ever, and a policy that is changed
  or deleted while a deployment waits restricts it still.
* `ReachMatches`, `DryRunAgrees`: a deployment reaches whom the policy matches,
  except that the target "organization" reaches nobody; and the exact places where
  dry run and `resolve_policy` disagree. Both `simulate_policy`
  (`policy_engine.py:197`) and its route (`policies.py:156`) promise the endpoints
  that are affected. But `simulate_policy` does not look at whether the policy is
  active, includes the type of the patch or excludes the patch: `Overlooked`
  policies count every endpoint of their target, and `resolve_policy` gives these
  endpoints nothing. What is counted besides is governed by the policy or one of
  at least its priority, unless such a policy has two exceptions for the endpoint,
  at which `resolve_policy` raises; and two exceptions that make the dry run raise
  make `resolve_policy` raise too, unless another policy comes first. Exceptions
  restrict the dry run and nothing else: `_do_schedule` does not read them, and
  nothing calls `resolve_policy`.
* `InstalledAsUploaded`: the check of the hash keeps two files under one object
  name apart; the older patch fails from then on.
* `WatchersServed`: an upload deploys for the watchers it found that want the type
  and for nobody else. When it has ended without a failure all their jobs have
  been queued; a failure leaves one deployment without its job at most, and the
  rest is not resumed.
* `SnapshotsApart`: a snapshot that is found is the one that was taken, unless two
  were taken in the same local second (a clock set back, the end of summer time).
* `ComplianceTruth`, `DeploymentShows`: the verdict of a host is true of its last
  inventory, for a product with one source: it is the one of the version that
  inventory has, the version of the patch itself is "compliant", and where a
  number is the first difference it decides, whatever `compare_versions` does
  (`Tells`, which does not use it). A deployment ends as failed or with a verdict
  that is not "missing". Rows of removed software stay, an older inventory may
  overwrite a newer one, and the second source of a package wins over the first:
  these are the conditions in the two properties.

**What does not hold**, each a behaviour of a violation run that contradicts a
sentence of the repository:
* `early`: a task that ends before the schedule job commits (a download that
  fails at once while the job still queues for other endpoints) finds no row,
  is removed from the list and queues no finalize job. The row is inserted later
  as pending and the deployment is in progress for ever.
* `cancel`: a skipped row is taken up again, since its task is still on the list.
* `redelivery`: a schedule job that runs twice creates a second set of rows; the
  deployment is closed while they are pending.
* `race`: two overlapping calls enrol two endpoints with one token.
* `affected`: `get_affected_endpoints` is said to list the endpoints that miss a
  patch (`compliance.py:137`), and lists those that have an older row of any name
  with the name of the product in it. A host with the current `app` and an older
  `app-addon` is listed although its verdict is "compliant". The other way round,
  a host without any row is "missing" and not listed.

**Bounds.** `MaxRuns` bounds the executions of the schedule job of a deployment;
two are needed to see redelivery and retries, a third adds nothing that two do
not have, as executions only meet in the deployment's row and on the lists.
`MaxRetries` is 1 for 3, `MaxAttempts` is 2 for 5 and `FetchLimit` 1 or 2 for 5:
each is a limit that is reached and a step before it. One deployment is enough
for what is checked: deployments share only the agents' lists, on which the
tasks of another deployment act as the tasks of another run do. Two endpoints
give `finalize` one row that is over and one that is not. `MaxId` is 3: two
agents and a call given up can each get an id. Two connections give every
position of the iterator relative to a removal, and three attempts are one more
than the two connections can spoil. Three requests are two of one tab that
refresh with one token and one of another tab that comes between; four pairs
are the login and a refresh of each. The days and windows of `policy` are small,
but each form is there: within a day, shorter than a poll, over midnight on one
day and on two, in another zone, empty. Two uploads are enough for a shared
object, two watchers for a loop with an end, two seconds of clock for a
collision and for its absence.

**Two assumptions about time** are constants, since time itself is not modelled.
`FetchAfterCommit` says that an agent does not fetch a task before the schedule
job that pushed it commits; it is FALSE in `faults` and `early`, TRUE
where the question lies elsewhere. `FinalizeAfterCommit` says that the countdown
of five seconds (`routers/agent.py:266`) outlasts the rest of the handler; it is
FALSE in `faults`. `live` needs both: `early` shows what happens without
the first, and without the second the only finalize job may find the last row
still running and nothing queues another.

**Fairness.** Handlers, jobs and agents that can go on do (weak fairness): they are
coroutines and loops that nothing else blocks for ever. Jobs in the broker are
taken (strong fairness, as workers are busy now and then): the broker is first
in, first out. The install window is not closed at every look, so a job is
loaded at last. The agent runs `Fetch` at every heartbeat as long as its list is
not empty. Nothing is assumed of operators or faults, and nothing makes an
agent that has exited in `Enrollment` start again. In `Rollout` an agent that
died is started again by its host; the repository has no service definition, so
this is an assumption about the installation.

In `Broadcast` the loops of an event loop get their turn (strong fairness: the
loop runs callbacks first in, first out, and `held` gives way at once). In
`Sessions` a request that was sent is handled and answered or lost; nothing makes
a user log in. In `Policy` time passes and jobs that are due run within
`MaxLate`. In `Supply` handlers and the agent go on, and the loop of the agent
comes to tasks and to the inventory again and again (strong fairness, as each
waits for the other).

`CHECK_DEADLOCK FALSE` is set everywhere: when all deployments are over and all
jobs done, nothing is left to do.

## 4. Proofs

For every finite set of deployments and endpoints, every set of workers, all
budgets and bounds (`RolloutAssumption`), TLAPS checks:

* `RolloutProofs!TypeCorrect`: `Spec => []TypeOK`.
* `RolloutTaskProofs!TasksTracked`: `Spec => []TaskInv`.
* `RolloutTaskProofs!NothingVanishes`: `Spec => []NoTaskVanishes`.
* `RolloutOutcomeProofs!RollbackRestores`: `Spec => []RollbackHasSnapshot`.
* `RolloutOutcomeProofs!InstalledOnce`: `Spec => []InstallsBounded`.
* `RolloutOutcomeProofs!ResultsStay`: `Spec => ResultStays`.
* `RolloutOutcomeProofs!DoneForGood`: `Steady` implies `Spec => []DoneMeansDone`.
* `RolloutOutcomeProofs!CountsTrue`: `Steady` implies `Spec => []CountsAreTrue`.
* `RolloutOutcomeProofs!KeepsThePromise`: `Steady` and `Kept` imply
  `Spec => ImplementsLifecycle`, the refinement.

The argument for the tasks. `NoTaskVanishes` speaks of rows and is not inductive: nothing in it
says why the task of a new row is on the list, nor why a report that removes a
task will find its row. `IInv == TypeOK /\ TaskInv` adds this:
* `QueueInv`: a list holds tasks of its own endpoint, at most once each, so that
  LREM removes exactly the task of the report; a run that has not begun has no
  task, so a push does not duplicate one.
* `RowInv`, `OpInv`: rows exist only for runs that have begun, and API handlers
  hold rows that exist.
* `ScheduleInv`: a schedule job has a run of its own without rows; what it has
  pushed is on the list or reported (`Safe`), so committing the rows is safe.
* `AgentInv`: what an agent fetched is still on its list, except for the task it
  is closing.
* `RequestInv`: an agent waits for one report at a time, on its current task,
  and when a final report is answered the row is over (`Effective`).

The proof has one step per action. `RolloutProofs` has the lemmas about lists:
what removal, append and prefix do to elements, order and uniqueness.
No run checks `TaskInv`; `NoTaskVanishes`, which follows from it, is checked by `faults`.

The argument for rollbacks needs `SnapInv`: between the moment the API selects its
rows and the push, the rows are in the hands of the handler, and no report clears
a snapshot id that another one recorded.

The argument for installations and results is one invariant, `OnceInv`. A task
that can still be installed, because it is on a list or with an agent that has
not begun to close it, has been installed at most as often as its agent was
restarted or refused (`FreshInv`): each such event is what puts a task that was
installed before an agent again. A task with a result in the table is off the
list, and its agent is done with it (`ResultInv`), since the server removes the
task before it writes the row and an agent has one report under way (`ClosedInv`).

`Steady` says that no operator cancels, the broker delivers a job once and no
report takes effect after its agent has given it up; agents, workers and API
processes may die, jobs be retried, lists expire and agents be refused as often
as the budgets say, and an operator may roll back. The hypothesis is needed: TLC
violates `CountsAreTrue` with one cancellation, and all three properties with one
redelivery or one late report; with a cancellation, two endpoints and another
fault it violates `DoneMeansDone` too. `Kept`, that nobody rolls back, is needed
for the refinement alone, as a rollback closes a deployment from any status. The
budgets of `live` satisfy both. `LifeInv` is the inductive invariant:
* `OneJob`: the schedule job of a deployment is with the API, in the broker, or
  with one worker, and the deployment waits for it as long as it exists.
* `Unstarted`: until then there are no rows, no finalize job and no counters.
* `Planned`, `Finishing`: what a job has read is the deployment as it is, up to a
  rollback, or another finalize job has finished it since and says the same. So
  a flush that writes changed columns only writes the whole outcome.
* `OneRun`, `Counted`, `Done`: the rows are those of one run, `total` is their
  number, and a finished deployment says what its rows say.
For the refinement, the commit of the schedule job is `Start`, a report that ends
an active row is `Settle`, the first commit of a finalize job is `Finish`, and
every other step leaves the view of `Lifecycle` unchanged.

For the other modules, each under the assumptions of its `ASSUME`:

* `BroadcastProofs`: `BroadcastTypeCorrect`, `ToldOnce` (`AtMostOnce`),
  `FailuresPaidFor` (`FailuresBounded`). `AtMostOnce` is not inductive: that the
  next connection was not told needs that the list has no duplicates and that
  nothing at or after the iterator was told, which a removal anywhere keeps
  (`ListInv`, `CallInv`). The failures are counted against `Released`, closed
  connections that are out of the list and not among the dead at hand: none of
  them can make the call fail again. `LeftOutForALeaver` (`MissedOnlyByShift`):
  in the loop, those that the iterator has passed over are no more than those
  removed from before it, and at its end they are all that were missed (`ShiftInv`).
* `SessionsProofs`: `SessionsTypeCorrect`; `KeyFilesMatch` (`KeysBelongTogether`),
  with at most one process between its two files (`KeyInv`); `KeysAreCounted`
  (`OneLiveKey`) and `LogoutIsFinal` (`LogoutEnds`). The invariant `LoginInv`
  counts, for a login, the calls that know a token, those that have spent one,
  and the keys that no call knows: each step of `refresh` moves one unit between
  the three, and a second call that finds the same token is paid for by
  `overlap`. The keys that are known are no more than the calls that know them,
  by the surjection from calls to tokens. `InnocentIsKept` (`InnocentStays`): a token
  whose key is gone without a cause was presented, and once more for every call
  that is about to look for the key (`PresentedInv`).
* `PolicyProofs`: `PolicyTypeCorrect`; `OpenWindowTaken` (`NotPastTheWindow`), from
  `Waited`, which relates how long the window was open to how long ago the job
  looked; `ReachIsMatch` (`ReachMatches`); `DryRunIsTrue` (`DryRunAgrees`): a policy that
  counts an endpoint and is not overlooked applies to it, of the policies that
  apply one comes first, as priorities are natural numbers, and before that one
  only two exceptions stop the search; `WindowsAreMeant`
  (`WindowMeaning`), from the arithmetic of days: a time of the week and the day
  before it, whole days and remainders. `WindowAssumption` says what a window is:
  days of the week, a start within the day, an end up to "24:00". The server takes
  any JSON for a window, and others than these are not meant by anybody.
* `EnrollmentProofs`: `EnrollmentTypeCorrect`; `EndpointsAreCommitted` (`NoGhosts`),
  from what a call carries at each stage (`CallOK`); `SpentOnce`
  (`TokenSpentOnce`), by counting endpoints made with a token and calls that know
  it (`OneToken`); `StaysDecommissioned` (`DecommissionSticks`): an
  enrolment makes a row under an id that has none and that no other call holds
  (`FreshInv`), and a heartbeat writes no status.
* `SupplyProofs`: `SupplyTypeCorrect`; `WatchersAreServed` (`WatchersServed`), from the
  state of the loop (`LoopInv`) and from whose deployment waits for its job
  (`ServedInv`); `InstallsWhatWasUploaded` (`InstalledAsUploaded`):
  every task carries the hash of its own upload (`QueueInv`), and the agent keeps
  no file with another; `SnapshotsKeptApart` (`SnapshotsApart`): the
  first snapshot of a second is what its job found, until a restart removes it
  (`SnapshotInv`); `ComplianceIsTrue` (`ComplianceTruth`): a
  table that is fresh has what the last inventory says, the second source first
  (`TruthInv`), and what a verdict tells of it follows from the first two theorems on
  `compare_versions` that come next (`VerdictTells`); `FirstDifferenceDecides`: the first
  difference decides `compare_versions` when it lies between numbers, for versions of
  any length; `NotOlderBothWays`: of two versions at most one is older, letters
  or not; `OlderThanOlder`: the order is transitive on versions that are numbers
  (with letters it is not).

TLC checked every property before its proof was tried, and the assumptions are
checked by the run of each module.

**Only model-checked** is what is liveness: `RolloutEnds`, `DecommissionedGoesOffline`,
`AgentKeepsReporting`, `ReportTaken`, `ClosedLeaves`, `RequestsEnd`, `WaitEnds` and
`DeploymentShows`. The prover does not handle fairness. Every other property of
a passing run is stated by a theorem.

## 5. Not modelled

* `agent_upgrade` tasks: `TaskPayload` has no `version`, so `payload["version"]`
  (`agent/main.py:203`) raises and the task is reported as failed before
  `run_upgrade` starts. There is no state to follow.
* Delta patches, the signature of a file, the upload and the list of reports:
  `delta_patch.py:65`, `report_tasks.py:126` and `admin.py:65`, `:88`, `:215` import
  `_get_minio_client`, which `file_distribution.py` does not define, and no task
  carries a delta or a signature.
* LDAP: `User` has no `sso_provider` (`ldap_sync.py:79`) and `Organization` no
  `description`, so a synchronisation that has anything to create raises and is
  rolled back; one that has not renames rows.
* OpenVAS, mail, audit, the views of the dashboard: requests, messages and
  records that no other part reads back into a decision.
* Groups, organizations, users, vendors and products: one insert or update each.
  No API writes members of a group or deactivates a user; both are choices of the
  environment in `Policy` and `Sessions`.
* The sums over an organization in compliance, over at most 100 endpoints.
* `max_concurrent` computes a time that nothing reads (`deployment_tasks.py:127`),
  so there is no limit to check.
* The limits on requests per minute, which a library keeps.
* Eviction of keys by Redis (`docker-compose.prod.yml:16`) beyond the lapse of a
  refresh key in `Sessions` and the expiry of a list in `Rollout`.

## 6. What could follow

* Several server processes in `Broadcast`, if the broadcasts are ever sent through
  Redis.
