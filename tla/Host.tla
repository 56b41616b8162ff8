-------------------------------- MODULE Host --------------------------------
(***************************************************************************)
(* The agent on its host: process_tasks with the download, the snapshot,   *)
(* the installer and the rollback of agent/executor, and the inventory of  *)
(* agent/inventory on its way to the table endpoint_software.  The         *)
(* protocol of the task list itself (lost reports, retries, restarts of    *)
(* the agent) is module Rollout; here a task is taken, carried out and     *)
(* reported.                                                               *)
(***************************************************************************)
EXTENDS Catalog

CONSTANTS
  Package,    \* names of packages
  Brings,     \* the package and the version that a file installs
  Repo,       \* the version of a package that apt can install, or Null
  MaxTime     \* bound: seconds of the local clock

ASSUME HostAssumption ==
  /\ MaxTime \in Nat
  /\ Brings \in [Content -> [package : Package, version : Seq(Nat \cup Letter)]]
  /\ Repo \in [Package -> Seq(Nat \cup Letter) \cup {Null}]

\* Packages come from the system (dpkg, rpm; the registry) and from a second
\* source (snap; WMI), which is collected after it.
Source == {"system", "extra"}

\* What the sources have of each package
Items == [Source -> [Package -> Seq(Nat \cup Letter) \cup {Null}]]

ASSUME WorldAssumption ==
  \A world \in World : world.platform \in {"debian", "rpm", "windows"} /\ world.software \in Items

VARIABLES
  platform,   \* "debian", "rpm" or "windows"
  installed,  \* what each source has installed
  file,       \* the snapshot files in the directory for temporary files
  clock,      \* local time in seconds
  agent,      \* what the agent is doing
  result,     \* deployment_results: status
  snapshotId, \* deployment_results: rollback_snapshot_id
  sent,       \* inventories that are on their way or at the server
  table,      \* endpoint_software: the version of each raw_name
  ran,        \* history: the file that was taken for a job to be installed
  before,     \* history: the packages at the snapshot of a job, and when that was
  taken,      \* history: how many snapshots were taken in a second, two for more
  last,       \* history: what was installed when the last inventory was collected
  fresh       \* history: the table has the last inventory, and none older after it

hostVars == <<platform, installed, file, clock, agent, result, snapshotId, sent, table>>
histVars == <<ran, before, taken, last, fresh>>

Idle == [phase |-> "idle", snapshot |-> Null]
Present(s) == {n \in Package : s[n] # Null}

Report(status) == result' = [result EXCEPT ![Head(task).job] = status]

\* Defect: the agent does not leave a task that has ended.
EndTaskOnly == task' = Tail(task) /\ UNCHANGED agent

EndTask == task' = Tail(task) /\ agent' = Idle

-----------------------------------------------------------------------------
(* patch_install *)

\* get_tasks, and the branches on the type of the task
TakeTask ==
  /\ agent.phase = "idle" /\ task # <<>>
  /\ agent' = [agent EXCEPT !.phase = IF Head(task).kind = "install" THEN "download" ELSE "undo"]
  /\ UNCHANGED <<platform, installed, file, clock, result, snapshotId, sent, table, task, budget, histVars, catalogVars>>

\* Defect: the hash is not compared.
AnyFile(content, t) == t.live /\ content # Null

\* download_file: the link leads to what the object is by now, and the hash is
\* compared.  No signature comes with a task, so the next check passes.
Verified(content, t) == t.live /\ content = t.hash

Download ==
  LET content == object[Head(task).name] IN
  /\ agent.phase = "download" /\ Verified(content, Head(task))
  /\ agent' = [agent EXCEPT !.phase = "snapshot"]
  /\ ran' = [ran EXCEPT ![Head(task).job] = content]
  /\ UNCHANGED <<platform, installed, file, clock, result, snapshotId, sent, table, task, budget,
                 before, taken, last, fresh, catalogVars>>

DownloadFails ==
  /\ agent.phase = "download"
  /\ \/ ~Verified(object[Head(task).name], Head(task)) /\ UNCHANGED budget
     \/ Spend("host")
  /\ Report("failed") /\ EndTask
  /\ UNCHANGED <<platform, installed, file, clock, snapshotId, sent, table, histVars, catalogVars>>

\* Defect: one file for all snapshots.
PathAlways == 0

\* The file is named for the second, in local time.
Path == clock

\* A snapshot lists the names that are installed, without their versions.  On a
\* host without dpkg the command is not found and there is no snapshot; on
\* Windows it is a shadow copy.  "installing" is reported with the snapshot.
TakeSnapshot ==
  /\ agent.phase = "snapshot" /\ platform = "debian"
  /\ file' = [file EXCEPT ![Path] = Present(installed["system"])]
  /\ agent' = [agent EXCEPT !.phase = "install", !.snapshot = Path]
  /\ Report("installing") /\ snapshotId' = [snapshotId EXCEPT ![Head(task).job] = Path]
  /\ before' = [before EXCEPT ![Head(task).job] = [names |-> Present(installed["system"]), at |-> clock]]
  /\ taken' = [taken EXCEPT ![clock] = IF @ = 0 THEN 1 ELSE 2]
  /\ UNCHANGED <<platform, installed, clock, sent, table, task, budget, ran, last, fresh, catalogVars>>

NoSnapshot ==
  /\ agent.phase = "snapshot"
  /\ \/ platform = "rpm" /\ UNCHANGED budget
     \/ platform # "rpm" /\ Spend("host")
  /\ agent' = [agent EXCEPT !.phase = "install", !.snapshot = Null]
  /\ Report("installing")
  /\ UNCHANGED <<platform, installed, file, clock, snapshotId, sent, table, task, histVars, catalogVars>>

ShadowCopy ==
  /\ agent.phase = "snapshot" /\ platform = "windows"
  /\ agent' = [agent EXCEPT !.phase = "install", !.snapshot = -1]
  /\ Report("installing") /\ snapshotId' = [snapshotId EXCEPT ![Head(task).job] = -1]
  /\ UNCHANGED <<platform, installed, file, clock, sent, table, task, budget, histVars, catalogVars>>

\* The downloaded file has no suffix: Linux runs it, Windows refuses it.
Effect(content) ==
  [installed EXCEPT !["system"][Brings[content].package] = Brings[content].version]

InstallSucceeds ==
  /\ agent.phase = "install" /\ platform # "windows"
  /\ installed' = Effect(ran[Head(task).job])
  /\ Report("success") /\ EndTask
  /\ UNCHANGED <<platform, file, clock, snapshotId, sent, table, budget, histVars, catalogVars>>

\* restore_snapshot(path) goes on, and whether it can: the selections are set,
\* and apt brings the packages that are selected, if it has them.  What apt
\* answers is not looked at.  On Windows only a note for nobody is written.
CanRestore(path) == path # Null /\ (platform = "windows" \/ (path >= 0 /\ file[path] # Null))

Restored(system, path) ==
  IF platform = "windows" \/ ~CanRestore(path) THEN {system}
  ELSE {system, [n \in Package |-> IF n \in file[path] /\ Repo[n] # Null THEN Repo[n] ELSE system[n]]}

\* The exit code is not 0 or 3010, or ten minutes are over; the installer may
\* have done its work all the same.
InstallFails ==
  /\ agent.phase = "install"
  /\ \/ platform = "windows" /\ UNCHANGED budget
     \/ platform # "windows" /\ Spend("installer")
  /\ \E half \in {installed, Effect(ran[Head(task).job])} :
       /\ platform = "windows" => half = installed
       /\ \E system \in Restored(half["system"], agent.snapshot) :
            installed' = [half EXCEPT !["system"] = system]
  /\ Report("failed") /\ EndTask
  /\ UNCHANGED <<platform, file, clock, snapshotId, sent, table, histVars, catalogVars>>

-----------------------------------------------------------------------------
(* patch_rollback *)

\* rollback_deployment, for a result that failed with a snapshot
RequestRollback(j) ==
  /\ result[j] = "failed" /\ snapshotId[j] # Null /\ Spend("rollback")
  /\ task' = Append(task, [kind |-> "rollback", job |-> j, name |-> Null, hash |-> Null,
                           live |-> TRUE, snapshot |-> snapshotId[j]])
  /\ UNCHANGED <<hostVars, histVars, catalogVars>>

Undo ==
  /\ agent.phase = "undo"
  /\ \E system \in Restored(installed["system"], Head(task).snapshot) :
       installed' = [installed EXCEPT !["system"] = system]
  /\ EndTask
  /\ UNCHANGED <<platform, file, clock, result, snapshotId, sent, table, budget, histVars, catalogVars>>

-----------------------------------------------------------------------------
(* Inventory *)

\* collect_all: what each source that answers has installed, source by source
Collected(answering) ==
  [s \in Source |-> IF s \in answering THEN installed[s] ELSE [n \in Package |-> Null]]

Inventory(s) == [items |-> s, late |-> FALSE, old |-> FALSE]

\* send_inventory; a command that fails or takes half a minute yields nothing.
SendInventory ==
  /\ agent.phase = "idle"
  /\ \E answering \in SUBSET Source :
       /\ \/ answering = Source /\ UNCHANGED budget
          \/ answering # Source /\ Spend("host")
       /\ sent' = {[p EXCEPT !.old = TRUE] : p \in sent} \cup {Inventory(Collected(answering))}
       /\ last' = Collected(answering)
  /\ fresh' = FALSE
  /\ agent' = [agent EXCEPT !.phase = "inventory"]
  /\ UNCHANGED <<platform, installed, file, clock, result, snapshotId, table, task, ran, before, taken, catalogVars>>

\* submit_inventory updates a row for each item in their order, so that the
\* second source wins; rows of packages that are gone stay.
Upserted(items) ==
  [n \in Package |-> IF items["extra"][n] # Null THEN items["extra"][n]
                     ELSE IF items["system"][n] # Null THEN items["system"][n] ELSE table[n]]

SubmitInventory(p) ==
  /\ table' = Upserted(p.items)
  /\ sent' = sent \ {p}
  /\ agent' = IF p.late THEN agent ELSE Idle
  /\ fresh' = ~p.old
  /\ UNCHANGED <<platform, installed, file, clock, result, snapshotId, task, budget, ran, before, taken, last, catalogVars>>

\* _request sends once more what has not been answered for half a minute; the
\* server may handle the first call whenever it likes.
ResendInventory(p) ==
  /\ ~p.late /\ Spend("host")
  /\ sent' = sent \cup {[p EXCEPT !.late = TRUE]}
  /\ UNCHANGED <<platform, installed, file, clock, agent, result, snapshotId, table, task, histVars, catalogVars>>

\* The last attempt is lost; send_inventory swallows the error.
GiveUpInventory(p) ==
  /\ ~p.late /\ Spend("host")
  /\ sent' = sent \ {p} /\ agent' = Idle
  /\ UNCHANGED <<platform, installed, file, clock, result, snapshotId, table, task, histVars, catalogVars>>

-----------------------------------------------------------------------------
(* The host *)

\* The directory for temporary files is empty after a start; the agent begins
\* with the list of tasks.
Reboot ==
  /\ Spend("reboot")
  /\ file' = [t \in 0..MaxTime |-> Null]
  /\ agent' = Idle
  /\ sent' = {[p EXCEPT !.late = TRUE] : p \in sent}
  /\ UNCHANGED <<platform, installed, clock, result, snapshotId, table, task, histVars, catalogVars>>

\* Somebody else installs, updates or removes a package.
ByHand(n) ==
  /\ Spend("hand")
  /\ \E v \in {Null} \cup {Brings[c].version : c \in Content} :
       installed' = [installed EXCEPT !["system"][n] = v]
  /\ UNCHANGED <<platform, file, clock, agent, result, snapshotId, sent, table, task, histVars, catalogVars>>

Tick ==
  /\ clock < MaxTime /\ Spend("tick") /\ clock' = clock + 1
  /\ UNCHANGED <<platform, installed, file, agent, result, snapshotId, sent, table, task, histVars, catalogVars>>

\* The local time goes back: by an hour in autumn, or when the clock is set.
ClockBack ==
  /\ clock > 0 /\ Spend("clock") /\ clock' = clock - 1
  /\ UNCHANGED <<platform, installed, file, agent, result, snapshotId, sent, table, task, histVars, catalogVars>>

-----------------------------------------------------------------------------
HostInit(world) ==
  /\ platform = world.platform /\ installed = world.software
  /\ file = [t \in 0..MaxTime |-> Null] /\ clock = 0 /\ agent = Idle
  /\ result = [j \in Job |-> "none"] /\ snapshotId = [j \in Job |-> Null]
  /\ sent = {} /\ table = [n \in Package |-> Null]
  /\ ran = [j \in Job |-> Null] /\ before = [j \in Job |-> Null] /\ taken = [t \in 0..MaxTime |-> 0]
  /\ last = Null /\ fresh = FALSE

Execute ==
  \/ TakeTask \/ Download \/ DownloadFails
  \/ TakeSnapshot \/ NoSnapshot \/ ShadowCopy \/ InstallSucceeds \/ InstallFails \/ Undo

HostNext ==
  \/ Execute \/ SendInventory
  \/ \E p \in sent : SubmitInventory(p) \/ ResendInventory(p) \/ GiveUpInventory(p)
  \/ \E j \in Job : RequestRollback(j)
  \/ \E n \in Package : ByHand(n)
  \/ Reboot \/ Tick \/ ClockBack
=============================================================================
