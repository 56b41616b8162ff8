------------------------------ MODULE Catalog ------------------------------
(***************************************************************************)
(* The patch catalog: uploads (app/routers/patches.py, the object store of *)
(* app/services/file_distribution.py), the deployments they start for      *)
(* watched products (app/routers/admin.py), retirement, and the schedule   *)
(* job as far as it turns a patch into a task for the host of this model.  *)
(* The database, the object store and the broker fail one at a time; the   *)
(* handlers run in several processes.                                      *)
(***************************************************************************)
EXTENDS Versions, FiniteSets

CONSTANTS
  Upload,    \* calls of POST /patches in the order they begin, and the rows they make
  Watcher,   \* rows of watched_products
  Product, PatchType, FileName,
  Content,   \* contents of files
  Body,      \* bound: bodies of each POST /patches
  Watch,     \* bound: bodies of POST /admin/watched-products
  Fault,     \* what goes wrong, or is done by hand
  World      \* bound: how often, what is watched, and the host to look at

\* The form of an upload; valid says that its date and its product are.
Form == [product : Product, version : Seq(Nat \cup Letter), file : FileName, content : Content,
         type : PatchType, valid : BOOLEAN]

WatchRow == [product : Product \cup {Null}, types : SUBSET PatchType, active : BOOLEAN]

Job == Upload \X Watcher

\* The name of an object tells products, versions and files apart, not uploads.
ObjectName(body) == <<body.product, body.version, body.file>>
Stored == {ObjectName(body) : body \in UNION {Body[u] : u \in Upload}}

\* A row of patches
PatchRow == [product : Product, version : Seq(Nat \cup Letter), type : PatchType,
             name : Stored, hash : Content, active : BOOLEAN]

ASSUME CatalogAssumption ==
  /\ Upload \subseteq Nat /\ IsFiniteSet(Watcher)
  /\ Null \notin Product \cup Content \cup PatchRow
  /\ \A u \in Upload : Body[u] \subseteq Form
  /\ Watch \subseteq [product : Product, types : SUBSET PatchType]
  /\ \A world \in World : world.budget \in [Fault -> Nat] /\ world.watched \in [Watcher -> WatchRow]

VARIABLES
  object,      \* the bucket of the patches
  patch,       \* patches
  watched,     \* watched_products
  upload,      \* the handlers of POST /patches
  deployment,  \* deployments that an upload made, and whether the job is queued
  task,        \* pms:tasks of the host
  budget

catalogVars == <<object, patch, watched, upload, deployment>>

Spend(f) == budget[f] > 0 /\ budget' = [budget EXCEPT ![f] = @ - 1]

NoUpload == [phase |-> "none", body |-> Null, todo |-> {}, at |-> Null, seen |-> {}]
NoWatch  == [product |-> Null, types |-> {}, active |-> FALSE]
AtPhase(u, p) == upload[u].phase = p

-----------------------------------------------------------------------------
(* create_patch_with_file *)

\* The file goes to the store before anything of the form is looked at.
UploadFile(u) ==
  /\ AtPhase(u, "none") /\ \A v \in Upload : v < u => ~AtPhase(v, "none")
  /\ Spend("upload")
  /\ \E body \in Body[u] :
       /\ object' = [object EXCEPT ![ObjectName(body)] = body.content]
       /\ upload' = [upload EXCEPT ![u].phase = "put", ![u].body = body]
  /\ UNCHANGED <<patch, watched, deployment, task>>

\* A date that is none, or a product that is not in the catalog
Reject(u) ==
  /\ AtPhase(u, "put") /\ ~upload[u].body.valid
  /\ upload' = [upload EXCEPT ![u].phase = "failed"]
  /\ UNCHANGED <<object, patch, watched, deployment, task, budget>>

\* Defect: the hash is read back from the store.
RowFromStore(body) ==
  [product |-> body.product, version |-> body.version, type |-> body.type,
   name |-> ObjectName(body), hash |-> object[ObjectName(body)], active |-> TRUE]

\* The hash is that of the bytes of the request.
RowOf(body) ==
  [product |-> body.product, version |-> body.version, type |-> body.type,
   name |-> ObjectName(body), hash |-> body.content, active |-> TRUE]

SavePatch(u) ==
  /\ AtPhase(u, "put") /\ upload[u].body.valid
  /\ patch' = [patch EXCEPT ![u] = RowOf(upload[u].body)]
  /\ upload' = [upload EXCEPT ![u].phase = "saved"]
  /\ UNCHANGED <<object, watched, deployment, task, budget>>

-----------------------------------------------------------------------------
(* _trigger_auto_deployments *)

WatchersOf(product) == {w \in Watcher : watched[w].active /\ watched[w].product = product}

Wants(w, type) == type \in watched[w].types

SelectWatchers(u) ==
  /\ AtPhase(u, "saved")
  /\ LET found == WatchersOf(patch[u].product) IN
     upload' = [upload EXCEPT ![u].phase = "each", ![u].todo = found,
                              ![u].seen = {w \in found : Wants(w, patch[u].type)}]
  /\ UNCHANGED <<object, patch, watched, deployment, task, budget>>

\* Defect: a watcher of other types ends the loop.
AfterSkipEnds(u, w) == {}

AfterSkip(u, w) == upload[u].todo \ {w}

SkipWatcher(u, w) ==
  /\ AtPhase(u, "each") /\ w \in upload[u].todo /\ ~Wants(w, patch[u].type)
  /\ upload' = [upload EXCEPT ![u].todo = AfterSkip(u, w)]
  /\ UNCHANGED <<object, patch, watched, deployment, task, budget>>

SaveDeployment(u, w) ==
  /\ AtPhase(u, "each") /\ w \in upload[u].todo /\ Wants(w, patch[u].type)
  /\ deployment' = [deployment EXCEPT ![<<u, w>>] = "pending"]
  /\ upload' = [upload EXCEPT ![u].phase = "queue", ![u].at = w]
  /\ UNCHANGED <<object, patch, watched, task, budget>>

QueueJob(u) ==
  /\ AtPhase(u, "queue")
  /\ deployment' = [deployment EXCEPT ![<<u, upload[u].at>>] = "queued"]
  /\ upload' = [upload EXCEPT ![u].phase = "each", ![u].todo = @ \ {upload[u].at}]
  /\ UNCHANGED <<object, patch, watched, task, budget>>

EndUpload(u) ==
  /\ AtPhase(u, "each") /\ upload[u].todo = {}
  /\ upload' = [upload EXCEPT ![u].phase = "done"]
  /\ UNCHANGED <<object, patch, watched, deployment, task, budget>>

\* The database or the broker refuses, or the process dies: what is committed
\* stays, and nothing takes up the rest.
UploadFails(u) ==
  /\ ~AtPhase(u, "none") /\ ~AtPhase(u, "done") /\ ~AtPhase(u, "failed") /\ Spend("server")
  /\ upload' = [upload EXCEPT ![u].phase = "failed"]
  /\ UNCHANGED <<object, patch, watched, deployment, task>>

-----------------------------------------------------------------------------
(* Administration and the schedule job *)

CreateWatched(w) ==
  /\ watched[w] = NoWatch /\ Spend("watch")
  /\ \E body \in Watch :
       watched' = [watched EXCEPT ![w] = [product |-> body.product, types |-> body.types, active |-> TRUE]]
  /\ UNCHANGED <<object, patch, upload, deployment, task>>

DeleteWatched(w) ==
  /\ watched[w].active /\ Spend("unwatch")
  /\ watched' = [watched EXCEPT ![w].active = FALSE]
  /\ UNCHANGED <<object, patch, upload, deployment, task>>

\* retire_patch: the deployments of the patch go on.
RetirePatch(u) ==
  /\ patch[u] # Null /\ patch[u].active /\ Spend("retire")
  /\ patch' = [patch EXCEPT ![u].active = FALSE]
  /\ UNCHANGED <<object, watched, upload, deployment, task>>

\* The task carries a link that lasts an hour, and the hash of the row.
InstallTask(u, w) ==
  [kind |-> "install", job |-> <<u, w>>, name |-> patch[u].name, hash |-> patch[u].hash,
   live |-> TRUE, snapshot |-> Null]

\* Defect: the task goes to a list that no agent reads.
ScheduleElsewhere(u, w) ==
  /\ deployment[<<u, w>>] = "queued"
  /\ deployment' = [deployment EXCEPT ![<<u, w>>] = "scheduled"]
  /\ UNCHANGED <<object, patch, watched, upload, task, budget>>

Schedule(u, w) ==
  /\ deployment[<<u, w>>] = "queued"
  /\ deployment' = [deployment EXCEPT ![<<u, w>>] = "scheduled"]
  /\ task' = Append(task, InstallTask(u, w))
  /\ UNCHANGED <<object, patch, watched, upload, budget>>

LinkExpires(i) ==
  /\ task[i].live /\ Spend("expire")
  /\ task' = [task EXCEPT ![i].live = FALSE]
  /\ UNCHANGED catalogVars

-----------------------------------------------------------------------------
CatalogInit(world) ==
  /\ object = [n \in Stored |-> Null] /\ patch = [u \in Upload |-> Null]
  /\ watched = world.watched
  /\ upload = [u \in Upload |-> NoUpload] /\ deployment = [j \in Job |-> "none"]
  /\ task = <<>> /\ budget = world.budget

\* What goes on by itself
CatalogStep ==
  \/ \E u \in Upload :
       \/ Reject(u) \/ SavePatch(u) \/ SelectWatchers(u) \/ QueueJob(u) \/ EndUpload(u)
       \/ \E w \in Watcher : SkipWatcher(u, w) \/ SaveDeployment(u, w) \/ Schedule(u, w)

CatalogNext ==
  \/ CatalogStep
  \/ \E u \in Upload : UploadFile(u) \/ UploadFails(u) \/ RetirePatch(u)
  \/ \E w \in Watcher : CreateWatched(w) \/ DeleteWatched(w)
  \/ \E i \in DOMAIN task : LinkExpires(i)
=============================================================================
