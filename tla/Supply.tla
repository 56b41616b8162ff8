------------------------------- MODULE Supply -------------------------------
(***************************************************************************)
(* From an upload to the compliance of a host: the catalog (Catalog), the  *)
(* host and its inventory (Host), and what app/services/compliance.py      *)
(* makes of the two.                                                       *)
(***************************************************************************)
EXTENDS Host

CONSTANTS
  NameOf,     \* the name of a product
  SlugOf,     \* its slug
  Containing  \* names of packages that have the name of a product in them

\* The pattern %name% finds the name itself, if there is no backslash in it.
ASSUME SupplyAssumption == \A p \in Product : NameOf[p] \in Package \cap Containing[p]

vars == <<catalogVars, hostVars, histVars, task, budget>>

-----------------------------------------------------------------------------
(* Compliance *)

\* The row with the name of the product, or else with its slug
VersionOf(product) ==
  IF table[NameOf[product]] # Null THEN table[NameOf[product]] ELSE table[SlugOf[product]]

Judged(v, required) ==
  CASE CompareVersions(v, required) = -1 -> "missing"
    [] CompareVersions(v, required) = 0  -> "compliant"
    [] CompareVersions(v, required) = 1  -> "newer"

\* get_endpoint_compliance, for the active patches
Verdict(u) == Judged(VersionOf(patch[u].product), patch[u].version)

\* get_affected_endpoints, as far as this host goes: the rows it finds
AffectedRows(u) ==
  {n \in Containing[patch[u].product] :
     table[n] # Null /\ patch[u].active /\ CompareVersions(table[n], patch[u].version) < 0}

-----------------------------------------------------------------------------
Init == \E world \in World : CatalogInit(world) /\ HostInit(world)

Next ==
  \/ CatalogNext /\ UNCHANGED <<hostVars, histVars>>
  \/ HostNext

Spec == Init /\ [][Next]_vars

(***************************************************************************)
(* Handlers, the scheduler, the server and the agent go on.  The loop of   *)
(* the agent comes to the inventory and to the tasks again and again,      *)
(* whichever it does in between.                                           *)
(***************************************************************************)
FairSpec ==
  /\ Spec
  /\ WF_vars(CatalogStep /\ UNCHANGED <<hostVars, histVars>>)
  /\ WF_vars(Execute)
  /\ WF_vars(\E p \in sent : SubmitInventory(p))
  /\ SF_vars(TakeTask)
  /\ SF_vars(SendInventory)

-----------------------------------------------------------------------------
(* Properties *)

TypeOK ==
  /\ object \in [Stored -> Content \cup {Null}]
  /\ \A u \in Upload :
       /\ patch[u] # Null => patch[u].hash \in Content /\ patch[u].name \in Stored
       /\ upload[u].phase \in {"none", "put", "saved", "each", "queue", "done", "failed"}
       /\ upload[u].todo \subseteq Watcher /\ upload[u].seen \subseteq Watcher
       /\ upload[u].phase \in {"saved", "each", "queue", "done"} => patch[u] # Null
  /\ deployment \in [Job -> {"none", "pending", "queued", "scheduled"}]
  /\ \A i \in DOMAIN task : task[i].kind \in {"install", "rollback"} /\ task[i].job \in Job
  /\ budget \in [Fault -> Nat]
  /\ installed \in Items /\ table \in [Package -> Seq(Nat \cup Letter) \cup {Null}]
  /\ file \in [0..MaxTime -> (SUBSET Package) \cup {Null}] /\ clock \in 0..MaxTime
  /\ agent.phase \in {"idle", "download", "snapshot", "install", "undo", "inventory"}
  /\ agent.phase \notin {"idle", "inventory"} => task # <<>>
  /\ result \in [Job -> {"none", "installing", "success", "failed"}]
  /\ snapshotId \in [Job -> (-1)..MaxTime \cup {Null}]
  /\ \A p \in sent : p.items \in Items
  /\ agent.phase = "inventory" <=> \E p \in sent : ~p.late

\* What the installer runs for a deployment is the file that was uploaded for
\* its patch, although uploads share the names of their objects and one may
\* come between a row, its link and the download.
InstalledAsUploaded ==
  \A j \in Job : ran[j] # Null => ran[j] = upload[j[1]].body.content

\* An upload deploys for the watchers it found that want the type and for nobody
\* else.  When it has ended without a failure the job of each deployment is in the
\* broker; a failure leaves one deployment without a job at most.
WatchersServed ==
  \A u \in Upload :
    LET at(s) == {w \in Watcher : deployment[<<u, w>>] \in s} IN
    /\ at({"pending", "queued", "scheduled"}) \subseteq upload[u].seen
    /\ AtPhase(u, "done") => upload[u].seen \subseteq at({"queued", "scheduled"})
    /\ \A v, w \in at({"pending"}) : v = w

\* The snapshot that a result names is gone, or has the packages of the moment
\* it was taken for, unless another was taken in the same second of local time.
SnapshotsApart ==
  \A j \in Job :
    before[j] # Null /\ snapshotId[j] # Null /\ taken[before[j].at] = 1
      => file[snapshotId[j]] \in {Null, before[j].names}

\* What a verdict says of a version, whatever compares them: the same version is
\* compliant, and if a number is the first difference it decides.
Tells(verdict, v, required) ==
  /\ v = required => verdict = "compliant"
  /\ \A i \in DOMAIN v : Decides(v, required, i) =>
       verdict = IF v[i] < required[i] THEN "missing" ELSE "newer"

\* The verdict of an endpoint is the truth about its last inventory, for a product
\* that one source has installed, once that inventory is in the table and nothing
\* older came after it.  (Of a package that is gone, the last version stays.)
ComplianceTruth ==
  \A u \in Upload : fresh /\ patch[u] # Null /\ patch[u].active =>
    LET n == NameOf[patch[u].product]
        has(s) == last[s][n] # Null IN
    \A s \in Source : has(s) /\ (\A r \in Source : has(r) => r = s) =>
      /\ Verdict(u) = Judged(last[s][n], patch[u].version)
      /\ Tells(Verdict(u), last[s][n], patch[u].version)

\* An endpoint that get_affected_endpoints lists for a patch is missing it, as the
\* comment of that function says.
ListedIsMissing ==
  \A u \in Upload : patch[u] # Null /\ AffectedRows(u) # {} => Verdict(u) = "missing"

\* From the broker to the dashboard: a deployment whose job is queued ends in a
\* failure, or with a host that the compliance of the patch counts as served,
\* unless the product has been changed again or has a second source.
Delivers(u) ==
  Brings[upload[u].body.content] =
    [package |-> NameOf[patch[u].product], version |-> patch[u].version]

Changed(u) ==
  \/ installed["system"][NameOf[patch[u].product]] # patch[u].version
  \/ installed["extra"][NameOf[patch[u].product]] # Null

DeploymentShows ==
  \A u \in Upload, w \in Watcher :
    deployment[<<u, w>>] = "queued" /\ Delivers(u)
      ~> \/ result[<<u, w>>] = "failed"
         \/ result[<<u, w>>] = "success" /\ (Changed(u) \/ Verdict(u) # "missing")
=============================================================================
