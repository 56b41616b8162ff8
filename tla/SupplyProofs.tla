----------------------------- MODULE SupplyProofs -----------------------------
(***************************************************************************)
(* What holds of compare_versions for versions of any length, and of the   *)
(* way from an upload to the hosts for any number of uploads, watchers,    *)
(* packages and faults.                                                    *)
(***************************************************************************)
EXTENDS Supply, TLAPS

-----------------------------------------------------------------------------
(* compare_versions *)

\* The length and the segments of a version, and what _version_tuple makes of them.
LEMMA VersionFacts ==
  ASSUME NEW v, IsVersion(v)
  PROVE  /\ Len(v) \in Nat /\ DOMAIN v = 1..Len(v)
         /\ \A i \in DOMAIN v : v[i] \notin Letter => v[i] \in Nat
         /\ DOMAIN VersionTuple(v) = DOMAIN v /\ Len(VersionTuple(v)) = Len(v)
         /\ \A i \in DOMAIN v : VersionTuple(v)[i] \in Nat
         /\ \A i \in DOMAIN v : v[i] \notin Letter => VersionTuple(v)[i] = v[i]
<1>1. Len(v) \in Nat /\ DOMAIN v = 1..Len(v) /\ \A i \in DOMAIN v : v[i] \in Nat \cup Letter
  BY DEF IsVersion
<1>2. VersionTuple(v) \in Seq(Nat)
  <2>1. \A i \in 1..Len(v) : (IF v[i] \in Letter THEN 0 ELSE v[i]) \in Nat
    BY <1>1
  <2>2. VersionTuple(v) \in [1..Len(v) -> Nat]
    BY <1>1, <2>1 DEF VersionTuple
  <2> QED
    BY <1>1, <2>2
<1>3. Len(VersionTuple(v)) = Len(v)
  BY <1>1, <1>2 DEF VersionTuple
<1> QED
  BY <1>1, <1>2, <1>3 DEF VersionTuple

\* The first segment that differs decides the comparison, if it and all before
\* it are numbers: whatever follows, in versions of whatever lengths, with or
\* without letters (compare_versions).
THEOREM FirstDifferenceDecides ==
  ASSUME NEW v, NEW w, IsVersion(v), IsVersion(w), NEW i, Decides(v, w, i)
  PROVE  VersionLess(v, w) <=> v[i] < w[i]
<1> DEFINE a == VersionTuple(v)
           b == VersionTuple(w)
<1>1. /\ i \in DOMAIN v /\ i \in DOMAIN w /\ i \in Nat \ {0} /\ v[i] # w[i]
      /\ \A j \in 1..i : j \in DOMAIN v /\ j \in DOMAIN w /\ v[j] \notin Letter /\ w[j] \notin Letter
      /\ \A j \in 1..i : v[j] \in Nat /\ w[j] \in Nat
      /\ \A j \in 1..(i - 1) : j \in 1..i /\ v[j] = w[j]
  BY VersionFacts DEF Decides
<1>2. CASE Numeric(v) /\ Numeric(w)
  <2>1. \A j \in 1..i : Segment(v, j) = v[j] /\ Segment(w, j) = w[j]
    BY <1>1 DEF Segment
  <2>2. ASSUME v[i] < w[i] PROVE ReleaseLess(v, w)
    BY <1>1, <2>1, <2>2 DEF ReleaseLess
  <2>3. ASSUME ReleaseLess(v, w) PROVE v[i] < w[i]
    <3>1. PICK k \in DOMAIN v \cup DOMAIN w :
            Segment(v, k) < Segment(w, k) /\ \A j \in 1..(k - 1) : Segment(v, j) = Segment(w, j)
      BY <2>3 DEF ReleaseLess
    <3>2. k \in Nat \ {0}
      BY VersionFacts
    <3>3. ~(k < i)
      <4> SUFFICES ASSUME k < i PROVE FALSE
        OBVIOUS
      <4>1. k \in 1..(i - 1) /\ k \in 1..i
        BY <1>1, <3>2
      <4>2. Segment(v, k) = v[k] /\ Segment(w, k) = w[k] /\ v[k] = w[k] /\ v[k] \in Nat
        BY <1>1, <2>1, <4>1
      <4> QED
        BY <3>1, <4>2
    <3>4. ~(k > i)
      <4> SUFFICES ASSUME k > i PROVE FALSE
        OBVIOUS
      <4>1. i \in 1..(k - 1) /\ i \in 1..i
        BY <1>1, <3>2
      <4>2. Segment(v, i) = Segment(w, i)
        BY <3>1, <4>1
      <4> QED
        BY <1>1, <2>1, <4>1, <4>2
    <3>5. k = i /\ i \in 1..i
      BY <1>1, <3>2, <3>3, <3>4
    <3> QED
      BY <2>1, <3>1, <3>5
  <2> QED
    BY <1>2, <2>2, <2>3 DEF VersionLess
<1>3. CASE ~(Numeric(v) /\ Numeric(w))
  <2>1. /\ DOMAIN a = DOMAIN v /\ DOMAIN b = DOMAIN w
        /\ \A j \in 1..i : a[j] = v[j] /\ b[j] = w[j]
    BY <1>1, VersionFacts
  <2> HIDE DEF a, b
  <2>2. ASSUME v[i] < w[i] PROVE TupleLess(a, b)
    <3>1. i \in 1..i /\ i \in DOMAIN a \cap DOMAIN b
      BY <1>1, <2>1
    <3>2. a[i] < b[i] /\ \A j \in 1..(i - 1) : a[j] = b[j]
      BY <1>1, <2>1, <2>2, <3>1
    <3> QED
      BY <3>1, <3>2 DEF TupleLess
  <2>3. ASSUME TupleLess(a, b) PROVE v[i] < w[i]
    <3>1. ~(\A j \in DOMAIN a : a[j] = b[j])
      <4>1. i \in 1..i /\ i \in DOMAIN a
        BY <1>1, <2>1
      <4> QED
        BY <1>1, <2>1, <4>1
    <3>2. PICK k \in DOMAIN a \cap DOMAIN b : a[k] < b[k] /\ \A j \in 1..(k - 1) : a[j] = b[j]
      BY <2>3, <3>1 DEF TupleLess
    <3>3. k \in Nat \ {0}
      BY <2>1, VersionFacts
    <3>4. ~(k < i)
      <4> SUFFICES ASSUME k < i PROVE FALSE
        OBVIOUS
      <4>1. k \in 1..(i - 1) /\ k \in 1..i
        BY <1>1, <3>3
      <4> QED
        BY <1>1, <2>1, <3>2, <4>1
    <3>5. ~(k > i)
      <4> SUFFICES ASSUME k > i PROVE FALSE
        OBVIOUS
      <4>1. i \in 1..(k - 1) /\ i \in 1..i
        BY <1>1, <3>3
      <4> QED
        BY <1>1, <2>1, <3>2, <4>1
    <3>6. k = i /\ i \in 1..i
      BY <1>1, <3>3, <3>4, <3>5
    <3> QED
      BY <2>1, <3>2, <3>6
  <2>4. VersionLess(v, w) <=> TupleLess(a, b)
    BY <1>3 DEF VersionLess, a, b
  <2> QED
    BY <2>2, <2>3, <2>4
<1> QED
  BY <1>2, <1>3

\* Lists of numbers: not each before the other.
LEMMA TuplesOneWay ==
  ASSUME NEW a, NEW b, Len(a) \in Nat, Len(b) \in Nat,
         DOMAIN a = 1..Len(a), DOMAIN b = 1..Len(b),
         \A i \in DOMAIN a : a[i] \in Nat, \A i \in DOMAIN b : b[i] \in Nat,
         TupleLess(a, b)
  PROVE  ~TupleLess(b, a)
<1>1. CASE \E i \in DOMAIN a \cap DOMAIN b : a[i] < b[i] /\ \A j \in 1..(i - 1) : a[j] = b[j]
  <2>1. PICK i \in DOMAIN a \cap DOMAIN b : a[i] < b[i] /\ \A j \in 1..(i - 1) : a[j] = b[j]
    BY <1>1
  <2>2. ~(\A j \in DOMAIN b : b[j] = a[j])
    BY <2>1
  <2>3. ASSUME NEW k \in DOMAIN b \cap DOMAIN a, b[k] < a[k], \A j \in 1..(k - 1) : b[j] = a[j]
        PROVE  FALSE
    <3>1. i \in Nat \ {0} /\ k \in Nat \ {0}
      OBVIOUS
    <3>2. a[i] \in Nat /\ b[i] \in Nat /\ a[k] \in Nat /\ b[k] \in Nat
      OBVIOUS
    <3>3. ~(i < k)
      BY <2>1, <2>3, <3>1, <3>2
    <3>4. ~(k < i)
      BY <2>1, <2>3, <3>1, <3>2
    <3>5. k = i
      BY <3>1, <3>3, <3>4
    <3> QED
      BY <2>1, <2>3, <3>2, <3>5
  <2> QED
    BY <2>2, <2>3 DEF TupleLess
<1>2. CASE Len(a) < Len(b) /\ \A j \in DOMAIN a : a[j] = b[j]
  <2>1. ~(Len(b) < Len(a))
    BY <1>2
  <2>2. \A k \in DOMAIN b \cap DOMAIN a : ~(b[k] < a[k])
    BY <1>2
  <2> QED
    BY <2>1, <2>2 DEF TupleLess
<1> QED
  BY <1>1, <1>2 DEF TupleLess

\* Of two versions, not each is older than the other: an endpoint cannot be
\* missing a patch and have a newer version of it, whatever the versions look
\* like (compare_versions).
THEOREM NotOlderBothWays ==
  ASSUME NEW v, NEW w, IsVersion(v), IsVersion(w), VersionLess(v, w)
  PROVE  ~VersionLess(w, v)
<1>1. CASE Numeric(v) /\ Numeric(w)
  <2>1. PICK i \in DOMAIN v \cup DOMAIN w :
          Segment(v, i) < Segment(w, i) /\ \A j \in 1..(i - 1) : Segment(v, j) = Segment(w, j)
    BY <1>1 DEF VersionLess, ReleaseLess
  <2>2. \A j : Segment(v, j) \in Nat /\ Segment(w, j) \in Nat
    BY <1>1, VersionFacts DEF Numeric, Segment
  <2>3. ASSUME NEW k \in DOMAIN w \cup DOMAIN v, Segment(w, k) < Segment(v, k),
               \A j \in 1..(k - 1) : Segment(w, j) = Segment(v, j)
        PROVE  FALSE
    <3>1. i \in Nat \ {0} /\ k \in Nat \ {0}
      BY VersionFacts
    <3>2. /\ Segment(v, i) \in Nat /\ Segment(w, i) \in Nat
          /\ Segment(v, k) \in Nat /\ Segment(w, k) \in Nat
      BY <2>2
    <3>3. ~(i < k)
      <4> SUFFICES ASSUME i < k PROVE FALSE
        OBVIOUS
      <4>1. i \in 1..(k - 1)
        BY <3>1
      <4> QED
        BY <2>1, <2>3, <3>2, <4>1
    <3>4. ~(k < i)
      <4> SUFFICES ASSUME k < i PROVE FALSE
        OBVIOUS
      <4>1. k \in 1..(i - 1)
        BY <3>1
      <4> QED
        BY <2>1, <2>3, <3>2, <4>1
    <3>5. k = i
      BY <3>1, <3>3, <3>4
    <3> QED
      BY <2>1, <2>3, <3>2, <3>5
  <2> QED
    BY <1>1, <2>3 DEF VersionLess, ReleaseLess
<1>2. CASE ~(Numeric(v) /\ Numeric(w))
  <2>1. TupleLess(VersionTuple(v), VersionTuple(w))
    BY <1>2 DEF VersionLess
  <2>2. ~TupleLess(VersionTuple(w), VersionTuple(v))
    BY <2>1, VersionFacts, TuplesOneWay
  <2> QED
    BY <1>2, <2>2 DEF VersionLess
<1> QED
  BY <1>1, <1>2

\* Versions of numbers are ordered: what is older than an older version is
\* older.  (Of versions with letters this is not so, see the README.)
THEOREM OlderThanOlder ==
  ASSUME NEW u, NEW v, NEW w, IsVersion(u), IsVersion(v), IsVersion(w),
         Numeric(u), Numeric(v), Numeric(w), VersionLess(u, v), VersionLess(v, w)
  PROVE  VersionLess(u, w)
<1>1. \A j : Segment(u, j) \in Nat /\ Segment(v, j) \in Nat /\ Segment(w, j) \in Nat
  BY VersionFacts DEF Numeric, Segment
<1>2. PICK i \in DOMAIN u \cup DOMAIN v :
        Segment(u, i) < Segment(v, i) /\ \A j \in 1..(i - 1) : Segment(u, j) = Segment(v, j)
  BY DEF VersionLess, ReleaseLess
<1>3. PICK k \in DOMAIN v \cup DOMAIN w :
        Segment(v, k) < Segment(w, k) /\ \A j \in 1..(k - 1) : Segment(v, j) = Segment(w, j)
  BY DEF VersionLess, ReleaseLess
<1>4. i \in Nat \ {0} /\ k \in Nat \ {0}
  BY VersionFacts
<1> DEFINE least == IF i < k THEN i ELSE k
<1>5. /\ least \in Nat \ {0}
      /\ \A j \in 1..(least - 1) : j \in 1..(i - 1) /\ j \in 1..(k - 1)
      /\ least = i \/ least \in 1..(i - 1)
      /\ least = k \/ least \in 1..(k - 1)
      /\ least = i \/ least = k
  BY <1>4
<1> HIDE DEF least
<1>6. \A j \in 1..(least - 1) : Segment(u, j) = Segment(w, j)
  BY <1>2, <1>3, <1>5
<1>7. Segment(u, least) <= Segment(v, least) /\ Segment(v, least) <= Segment(w, least)
  BY <1>1, <1>2, <1>3, <1>5
<1>8. Segment(u, least) < Segment(v, least) \/ Segment(v, least) < Segment(w, least)
  BY <1>2, <1>3, <1>5
<1>9. Segment(u, least) < Segment(w, least)
  <2>1. Segment(u, least) \in Nat /\ Segment(v, least) \in Nat /\ Segment(w, least) \in Nat
    BY <1>1
  <2> QED
    BY <1>7, <1>8, <2>1
<1>10. least \in DOMAIN u \cup DOMAIN w
  <2>1. Segment(w, least) # 0
    <3>1. Segment(u, least) \in Nat /\ Segment(w, least) \in Nat
      BY <1>1
    <3> QED
      BY <1>9, <3>1
  <2> QED
    BY <2>1 DEF Segment
<1>11. ReleaseLess(u, w)
  BY <1>6, <1>9, <1>10 DEF ReleaseLess
<1> QED
  BY <1>11 DEF VersionLess

-----------------------------------------------------------------------------
(* From an upload to the tasks of the host *)

Phase == {"none", "put", "saved", "each", "queue", "done", "failed"}

Handler == [phase : Phase, body : Form \cup {Null}, todo : SUBSET Watcher,
            at : Watcher \cup {Null}, seen : SUBSET Watcher]

\* The shape of the catalog's variables
CatalogTyped ==
  /\ watched \in [Watcher -> WatchRow]
  /\ upload \in [Upload -> Handler]
  /\ DOMAIN patch = Upload
  /\ deployment \in [Job -> {"none", "pending", "queued", "scheduled"}]

\* A row has what its form had, and is there before any deployment of it.
RowAsFilled(u) ==
  /\ upload[u].phase # "none" => upload[u].body \in Body[u]
  /\ upload[u].phase \in {"none", "put"} => patch[u] = Null
  /\ upload[u].phase \in {"saved", "each", "queue", "done"} => patch[u] # Null
  /\ patch[u] # Null => \E x \in BOOLEAN : patch[u] = [RowOf(upload[u].body) EXCEPT !.active = x]
  /\ \A w \in Watcher : deployment[<<u, w>>] # "none" => patch[u] # Null

\* The watchers that are to come are still as they were found; those that want
\* the patch and are done have a deployment, and the one in hand has.
LoopInv(u) ==
  /\ upload[u].phase \in {"each", "queue", "done"} =>
       /\ \A w \in upload[u].todo :
            /\ watched[w].product = patch[u].product
            /\ w \in upload[u].seen <=> Wants(w, patch[u].type)
       /\ \A w \in Watcher :
            deployment[<<u, w>>] # "none" <=>
              \/ w \in upload[u].seen \ upload[u].todo
              \/ upload[u].phase = "queue" /\ w = upload[u].at
  /\ upload[u].phase = "queue" => upload[u].at \in upload[u].todo \cap upload[u].seen
  /\ upload[u].phase = "done" => upload[u].todo = {}
  /\ upload[u].phase \in {"none", "put", "saved"} =>
       \A w \in Watcher : deployment[<<u, w>>] = "none"

CatalogInv == CatalogTyped /\ \A u \in Upload : RowAsFilled(u) /\ LoopInv(u)

\* A row has the product, the type and the hash of the form.
LEMMA RowFields ==
  ASSUME CatalogTyped, NEW u \in Upload, RowAsFilled(u), patch[u] # Null
  PROVE  /\ patch[u].product = upload[u].body.product /\ patch[u].product \in Product
         /\ patch[u].type = upload[u].body.type
         /\ patch[u].hash = upload[u].body.content
         /\ patch[u].active \in BOOLEAN
         /\ patch[u] = [RowOf(upload[u].body) EXCEPT !.active = patch[u].active]
         /\ upload[u].phase # "none"
<1>1. upload[u].phase # "none" /\ upload[u].body \in Form
  BY CatalogAssumption DEF RowAsFilled, CatalogTyped, Handler, Phase
<1>2. PICK x \in BOOLEAN : patch[u] = [RowOf(upload[u].body) EXCEPT !.active = x]
  BY DEF RowAsFilled
<1> QED
  BY <1>1, <1>2 DEF RowOf, Form

LEMMA CatalogInvInit ==
  ASSUME Init
  PROVE  CatalogInv
<1>1. PICK world \in World : CatalogInit(world)
  BY DEF Init
<1>2. /\ watched \in [Watcher -> WatchRow] /\ upload = [u \in Upload |-> NoUpload]
      /\ patch = [u \in Upload |-> Null] /\ deployment = [j \in Job |-> "none"]
  BY <1>1, CatalogAssumption DEF CatalogInit
<1>3. NoUpload \in Handler /\ NoUpload.phase = "none"
  BY DEF NoUpload, Handler, Phase
<1>4. CatalogTyped
  BY <1>2, <1>3 DEF CatalogTyped
<1>5. ASSUME NEW u \in Upload PROVE RowAsFilled(u) /\ LoopInv(u)
  <2>1. upload[u].phase = "none" /\ patch[u] = Null /\ \A w \in Watcher : deployment[<<u, w>>] = "none"
    BY <1>2, <1>3 DEF Job
  <2> QED
    BY <2>1 DEF RowAsFilled, LoopInv
<1> QED
  BY <1>4, <1>5 DEF CatalogInv

\* The steps of the host leave the catalog alone.
LEMMA HostLeavesCatalog ==
  ASSUME HostNext
  PROVE  UNCHANGED catalogVars
BY DEF HostNext, Execute, TakeTask, Download, DownloadFails, TakeSnapshot, NoSnapshot, ShadowCopy,
       InstallSucceeds, InstallFails, Undo, SendInventory, SubmitInventory, ResendInventory,
       GiveUpInventory, RequestRollback, ByHand, Reboot, Tick, ClockBack

\* What concerns one upload is undisturbed by what happens to the others.
LEMMA OtherUpload ==
  ASSUME NEW v \in Upload, RowAsFilled(v), LoopInv(v), UNCHANGED watched,
         upload'[v] = upload[v], patch'[v] = patch[v],
         \A w \in Watcher : deployment'[<<v, w>>] = deployment[<<v, w>>]
  PROVE  RowAsFilled(v)' /\ LoopInv(v)'
BY DEF RowAsFilled, LoopInv, Wants, RowOf, ObjectName

\* A handler may end in a failure wherever it is.
LEMMA UploadFileKeeps ==
  ASSUME CatalogInv, NEW u \in Upload, UploadFile(u)
  PROVE  CatalogInv'
<1>1. PICK body \in Body[u] : upload' = [upload EXCEPT ![u].phase = "put", ![u].body = body]
  BY DEF UploadFile
<1>2. body \in Form /\ upload[u] \in Handler /\ upload[u].phase = "none" /\ UNCHANGED <<patch, watched, deployment>>
  BY CatalogAssumption DEF UploadFile, AtPhase, CatalogInv, CatalogTyped
<1>3. /\ upload'[u].phase = "put" /\ upload'[u].body = body /\ upload'[u] \in Handler
      /\ \A v \in Upload \ {u} : upload'[v] = upload[v]
      /\ upload' \in [Upload -> Handler]
  <2>1. upload \in [Upload -> Handler]
    BY DEF CatalogInv, CatalogTyped
  <2>2. [upload[u] EXCEPT !.phase = "put", !.body = body] \in Handler
    BY <1>2 DEF Handler, Phase
  <2> QED
    BY <1>1, <1>2, <2>1, <2>2 DEF Handler
<1>4. CatalogTyped'
  BY <1>2, <1>3 DEF CatalogInv, CatalogTyped
<1>5. ASSUME NEW v \in Upload \ {u} PROVE RowAsFilled(v)' /\ LoopInv(v)'
  BY <1>2, <1>3, OtherUpload DEF CatalogInv
<1>6. RowAsFilled(u)' /\ LoopInv(u)'
  <2>1. patch[u] = Null /\ \A w \in Watcher : deployment[<<u, w>>] = "none"
    BY <1>2 DEF CatalogInv, RowAsFilled, LoopInv
  <2> QED
    BY <1>2, <1>3, <2>1 DEF RowAsFilled, LoopInv
<1> QED
  BY <1>4, <1>5, <1>6 DEF CatalogInv

\* The steps of a handler that touch nothing but its own state
LEMMA HandlerStep ==
  ASSUME CatalogInv, NEW u \in Upload, UNCHANGED <<patch, watched, deployment>>,
         NEW h \in Handler, upload' = [upload EXCEPT ![u] = h], h.body = upload[u].body,
         upload[u].phase # "none", h.phase \notin {"none", "put", "saved", "queue"},
         h.phase # "failed" =>
           /\ patch[u] # Null
           /\ \A w \in h.todo : watched[w].product = patch[u].product
                                /\ (w \in h.seen <=> Wants(w, patch[u].type))
           /\ \A w \in Watcher : deployment[<<u, w>>] # "none" <=> w \in h.seen \ h.todo,
         h.phase = "done" => h.todo = {}
  PROVE  CatalogInv'
<1>1. /\ upload'[u] = h /\ \A v \in Upload \ {u} : upload'[v] = upload[v]
      /\ upload' \in [Upload -> Handler]
  BY DEF CatalogInv, CatalogTyped
<1>2. CatalogTyped'
  BY <1>1 DEF CatalogInv, CatalogTyped
<1>3. ASSUME NEW v \in Upload \ {u} PROVE RowAsFilled(v)' /\ LoopInv(v)'
  BY <1>1, OtherUpload DEF CatalogInv
<1>4. RowAsFilled(u)'
  BY <1>1 DEF CatalogInv, RowAsFilled, RowOf, ObjectName
<1>5. LoopInv(u)'
  <2>1. h.phase \in {"failed", "done", "each"}
    BY DEF Handler, Phase
  <2>2. UNCHANGED <<patch, watched, deployment>>
    OBVIOUS
  <2>3. CASE h.phase = "failed"
    BY <1>1, <2>3 DEF LoopInv
  <2>4. CASE h.phase # "failed"
    BY <1>1, <2>1, <2>2, <2>4 DEF LoopInv, Wants
  <2> QED
    BY <2>3, <2>4
<1> QED
  BY <1>2, <1>3, <1>4, <1>5 DEF CatalogInv

LEMMA RejectKeeps ==
  ASSUME CatalogInv, NEW u \in Upload, Reject(u) \/ UploadFails(u)
  PROVE  CatalogInv'
<1> DEFINE h == [upload[u] EXCEPT !.phase = "failed"]
<1>1. /\ upload[u] \in Handler /\ upload' = [upload EXCEPT ![u] = h]
      /\ upload[u].phase # "none" /\ UNCHANGED <<patch, watched, deployment>>
  BY DEF CatalogInv, CatalogTyped, Reject, UploadFails, AtPhase
<1>2. h \in Handler /\ h.body = upload[u].body /\ h.phase = "failed"
  BY <1>1 DEF Handler, Phase
<1> HIDE DEF h
<1> QED
  BY <1>1, <1>2, HandlerStep

LEMMA SavePatchKeeps ==
  ASSUME CatalogInv, NEW u \in Upload, SavePatch(u)
  PROVE  CatalogInv'
<1> DEFINE h == [upload[u] EXCEPT !.phase = "saved"]
           body == upload[u].body
<1>1. /\ upload[u] \in Handler /\ upload[u].phase = "put"
      /\ upload' = [upload EXCEPT ![u] = h] /\ patch' = [patch EXCEPT ![u] = RowOf(body)]
      /\ UNCHANGED <<watched, deployment>>
  BY DEF CatalogInv, CatalogTyped, SavePatch, AtPhase
<1>2. h \in Handler /\ h.body = body /\ h.phase = "saved"
  BY <1>1 DEF Handler, Phase
<1> HIDE DEF h
<1>3. /\ upload'[u] = h /\ \A v \in Upload \ {u} : upload'[v] = upload[v] /\ patch'[v] = patch[v]
      /\ patch'[u] = RowOf(body) /\ CatalogTyped'
  BY <1>1, <1>2 DEF CatalogInv, CatalogTyped
<1>4. ASSUME NEW v \in Upload \ {u} PROVE RowAsFilled(v)' /\ LoopInv(v)'
  BY <1>1, <1>3, OtherUpload DEF CatalogInv
<1>5. /\ RowOf(body) # Null
      /\ RowOf(body) = [RowOf(body) EXCEPT !.active = TRUE]
  <2>1. body \in Body[u] /\ body \in Form
    BY <1>1, CatalogAssumption DEF CatalogInv, RowAsFilled
  <2>2. ObjectName(body) \in Stored
    BY <2>1 DEF Stored
  <2>3. RowOf(body) \in PatchRow
    BY <2>1, <2>2 DEF RowOf, PatchRow, Form
  <2>4. RowOf(body) # Null
    BY <2>3, CatalogAssumption
  <2>5. /\ RowOf(body).active = TRUE
        /\ RowOf(body) = [f \in {"product", "version", "type", "name", "hash", "active"} |-> RowOf(body)[f]]
    BY DEF RowOf
  <2> QED
    BY <2>4, <2>5
<1>6. RowAsFilled(u)'
  <2>1. body \in Body[u]
    BY <1>1 DEF CatalogInv, RowAsFilled
  <2>2. RowOf(h.body) = [RowOf(h.body) EXCEPT !.active = TRUE]
    BY <1>2, <1>5
  <2> QED
    BY <1>1, <1>2, <1>3, <1>5, <2>1, <2>2 DEF RowAsFilled, RowOf, ObjectName
<1>7. LoopInv(u)'
  BY <1>1, <1>2, <1>3 DEF CatalogInv, LoopInv
<1> QED
  BY <1>3, <1>4, <1>6, <1>7 DEF CatalogInv

LEMMA SelectWatchersKeeps ==
  ASSUME CatalogInv, NEW u \in Upload, SelectWatchers(u)
  PROVE  CatalogInv'
<1> DEFINE found == WatchersOf(patch[u].product)
           wanted == {w \in found : Wants(w, patch[u].type)}
           h == [upload[u] EXCEPT !.phase = "each", !.todo = found, !.seen = wanted]
<1>1. /\ upload[u] \in Handler /\ upload[u].phase = "saved"
      /\ upload' = [upload EXCEPT ![u] = h] /\ UNCHANGED <<patch, watched, deployment>>
  BY DEF CatalogInv, CatalogTyped, SelectWatchers, AtPhase
<1>2. found \subseteq Watcher /\ \A w \in found : watched[w].product = patch[u].product
  BY DEF WatchersOf
<1>3. /\ h \in Handler /\ h.body = upload[u].body /\ h.phase = "each"
      /\ h.todo = found /\ h.seen = wanted
  BY <1>1, <1>2 DEF Handler, Phase
<1> HIDE DEF h
<1>4. patch[u] # Null /\ \A w \in Watcher : deployment[<<u, w>>] = "none"
  BY <1>1 DEF CatalogInv, RowAsFilled, LoopInv
<1>5. /\ \A w \in h.todo : watched[w].product = patch[u].product
                           /\ (w \in h.seen <=> Wants(w, patch[u].type))
      /\ \A w \in Watcher : deployment[<<u, w>>] # "none" <=> w \in h.seen \ h.todo
  BY <1>2, <1>3, <1>4
<1> QED
  BY <1>1, <1>3, <1>4, <1>5, HandlerStep

LEMMA SkipWatcherKeeps ==
  ASSUME CatalogInv, NEW u \in Upload, NEW w \in Watcher, SkipWatcher(u, w)
  PROVE  CatalogInv'
<1> DEFINE h == [upload[u] EXCEPT !.todo = upload[u].todo \ {w}]
<1>1. /\ upload[u] \in Handler /\ upload[u].phase = "each" /\ w \in upload[u].todo
      /\ ~Wants(w, patch[u].type)
      /\ upload' = [upload EXCEPT ![u] = h] /\ UNCHANGED <<patch, watched, deployment>>
  BY DEF CatalogInv, CatalogTyped, SkipWatcher, AfterSkip, AtPhase
<1>2. /\ h \in Handler /\ h.body = upload[u].body /\ h.phase = "each"
      /\ h.todo = upload[u].todo \ {w} /\ h.seen = upload[u].seen
  BY <1>1 DEF Handler, Phase
<1> HIDE DEF h
<1>3. patch[u] # Null /\ w \notin upload[u].seen
  BY <1>1 DEF CatalogInv, RowAsFilled, LoopInv
<1>4. /\ \A x \in h.todo : watched[x].product = patch[u].product
                           /\ (x \in h.seen <=> Wants(x, patch[u].type))
      /\ \A x \in Watcher : deployment[<<u, x>>] # "none" <=> x \in h.seen \ h.todo
  BY <1>1, <1>2, <1>3 DEF CatalogInv, LoopInv
<1> QED
  BY <1>1, <1>2, <1>3, <1>4, HandlerStep

LEMMA EndUploadKeeps ==
  ASSUME CatalogInv, NEW u \in Upload, EndUpload(u)
  PROVE  CatalogInv'
<1> DEFINE h == [upload[u] EXCEPT !.phase = "done"]
<1>1. /\ upload[u] \in Handler /\ upload[u].phase = "each" /\ upload[u].todo = {}
      /\ upload' = [upload EXCEPT ![u] = h] /\ UNCHANGED <<patch, watched, deployment>>
  BY DEF CatalogInv, CatalogTyped, EndUpload, AtPhase
<1>2. /\ h \in Handler /\ h.body = upload[u].body /\ h.phase = "done"
      /\ h.todo = {} /\ h.seen = upload[u].seen
  BY <1>1 DEF Handler, Phase
<1> HIDE DEF h
<1>3. patch[u] # Null
  BY <1>1 DEF CatalogInv, RowAsFilled
<1>4. \A x \in Watcher : deployment[<<u, x>>] # "none" <=> x \in h.seen \ h.todo
  BY <1>1, <1>2 DEF CatalogInv, LoopInv
<1> QED
  BY <1>1, <1>2, <1>3, <1>4, HandlerStep

\* The deployment is committed, and its job queued after that.
LEMMA SaveDeploymentKeeps ==
  ASSUME CatalogInv, NEW u \in Upload, NEW w \in Watcher, SaveDeployment(u, w)
  PROVE  CatalogInv'
<1> DEFINE h == [upload[u] EXCEPT !.phase = "queue", !.at = w]
<1>1. /\ upload[u] \in Handler /\ upload[u].phase = "each" /\ w \in upload[u].todo
      /\ Wants(w, patch[u].type) /\ upload' = [upload EXCEPT ![u] = h]
      /\ deployment' = [deployment EXCEPT ![<<u, w>>] = "pending"] /\ UNCHANGED <<patch, watched>>
  BY DEF CatalogInv, CatalogTyped, SaveDeployment, AtPhase
<1>2. /\ h \in Handler /\ h.body = upload[u].body /\ h.phase = "queue" /\ h.at = w
      /\ h.todo = upload[u].todo /\ h.seen = upload[u].seen
  BY <1>1 DEF Handler, Phase
<1> HIDE DEF h
<1>3. /\ upload'[u] = h /\ \A v \in Upload \ {u} : upload'[v] = upload[v]
      /\ deployment'[<<u, w>>] = "pending"
      /\ \A v \in Upload, x \in Watcher : <<v, x>> # <<u, w>> => deployment'[<<v, x>>] = deployment[<<v, x>>]
      /\ CatalogTyped'
  BY <1>1, <1>2 DEF CatalogInv, CatalogTyped, Job
<1>4. ASSUME NEW v \in Upload \ {u} PROVE RowAsFilled(v)' /\ LoopInv(v)'
  <2>1. \A x \in Watcher : deployment'[<<v, x>>] = deployment[<<v, x>>]
    BY <1>3
  <2> QED
    BY <1>1, <1>3, <2>1, OtherUpload DEF CatalogInv
<1>5. patch[u] # Null /\ w \in upload[u].seen
  BY <1>1 DEF CatalogInv, RowAsFilled, LoopInv
<1>6. RowAsFilled(u)'
  BY <1>1, <1>2, <1>3, <1>5 DEF CatalogInv, RowAsFilled, RowOf, ObjectName
<1>7. LoopInv(u)'
  <2>1. \A x \in h.todo : watched'[x].product = patch'[u].product
                          /\ (x \in h.seen <=> Wants(x, patch[u].type)')
    BY <1>1, <1>2 DEF CatalogInv, LoopInv, Wants
  <2>2. \A x \in Watcher :
          deployment'[<<u, x>>] # "none" <=> (x \in h.seen \ h.todo \/ x = w)
    BY <1>1, <1>2, <1>3 DEF CatalogInv, LoopInv
  <2> QED
    BY <1>1, <1>2, <1>3, <1>5, <2>1, <2>2 DEF LoopInv
<1> QED
  BY <1>3, <1>4, <1>6, <1>7 DEF CatalogInv

LEMMA QueueJobKeeps ==
  ASSUME CatalogInv, NEW u \in Upload, QueueJob(u)
  PROVE  CatalogInv'
<1> DEFINE w == upload[u].at
           h == [upload[u] EXCEPT !.phase = "each", !.todo = upload[u].todo \ {w}]
<1>1. /\ upload[u] \in Handler /\ upload[u].phase = "queue" /\ upload' = [upload EXCEPT ![u] = h]
      /\ deployment' = [deployment EXCEPT ![<<u, w>>] = "queued"] /\ UNCHANGED <<patch, watched>>
  BY DEF CatalogInv, CatalogTyped, QueueJob, AtPhase
<1>2. /\ h \in Handler /\ h.body = upload[u].body /\ h.phase = "each"
      /\ h.todo = upload[u].todo \ {w} /\ h.seen = upload[u].seen
  BY <1>1 DEF Handler, Phase
<1> HIDE DEF h
<1>3. w \in upload[u].todo /\ w \in upload[u].seen /\ w \in Watcher /\ patch[u] # Null
  BY <1>1 DEF CatalogInv, LoopInv, RowAsFilled, Handler
<1>4. /\ upload'[u] = h /\ \A v \in Upload \ {u} : upload'[v] = upload[v]
      /\ deployment'[<<u, w>>] = "queued"
      /\ \A v \in Upload, x \in Watcher : <<v, x>> # <<u, w>> => deployment'[<<v, x>>] = deployment[<<v, x>>]
      /\ CatalogTyped'
  BY <1>1, <1>2, <1>3 DEF CatalogInv, CatalogTyped, Job
<1> HIDE DEF w
<1>5. ASSUME NEW v \in Upload \ {u} PROVE RowAsFilled(v)' /\ LoopInv(v)'
  <2>1. \A x \in Watcher : deployment'[<<v, x>>] = deployment[<<v, x>>]
    BY <1>4
  <2> QED
    BY <1>1, <1>4, <2>1, OtherUpload DEF CatalogInv
<1>6. RowAsFilled(u)'
  BY <1>1, <1>2, <1>3, <1>4 DEF CatalogInv, RowAsFilled, RowOf, ObjectName
<1>7. LoopInv(u)'
  <2>1. \A x \in h.todo : watched'[x].product = patch'[u].product
                          /\ (x \in h.seen <=> Wants(x, patch[u].type)')
    BY <1>1, <1>2 DEF CatalogInv, LoopInv, Wants
  <2>2. \A x \in Watcher : deployment[<<u, x>>] # "none" <=> (x \in upload[u].seen \ upload[u].todo \/ x = w)
    BY <1>1 DEF CatalogInv, LoopInv, w
  <2>3. \A x \in Watcher : deployment'[<<u, x>>] # "none" <=> x \in h.seen \ h.todo
    BY <1>2, <1>3, <1>4, <2>2
  <2> QED
    BY <1>2, <1>4, <2>1, <2>3 DEF LoopInv
<1> QED
  BY <1>4, <1>5, <1>6, <1>7 DEF CatalogInv

\* A watched product that a loop is to come to is not a new one, and keeps its types.
LEMMA CreateWatchedKeeps ==
  ASSUME CatalogInv, NEW w \in Watcher, CreateWatched(w)
  PROVE  CatalogInv'
<1>1. PICK body \in Watch :
        watched' = [watched EXCEPT ![w] = [product |-> body.product, types |-> body.types, active |-> TRUE]]
  BY DEF CreateWatched
<1>2. watched[w].product = Null /\ UNCHANGED <<patch, upload, deployment>>
  BY DEF CreateWatched, NoWatch
<1>3. /\ CatalogTyped' /\ \A x \in Watcher \ {w} : watched'[x] = watched[x]
  <2>1. [product |-> body.product, types |-> body.types, active |-> TRUE] \in WatchRow
    BY CatalogAssumption DEF WatchRow
  <2> QED
    BY <1>1, <1>2, <2>1 DEF CatalogInv, CatalogTyped
<1>4. ASSUME NEW u \in Upload PROVE RowAsFilled(u)' /\ LoopInv(u)'
  <2>1. RowAsFilled(u)'
    BY <1>2 DEF CatalogInv, RowAsFilled, RowOf, ObjectName
  <2>2. upload[u].phase \in {"each", "queue", "done"} => w \notin upload[u].todo
    <3> SUFFICES ASSUME upload[u].phase \in {"each", "queue", "done"}, w \in upload[u].todo PROVE FALSE
      OBVIOUS
    <3>1. patch[u] # Null /\ watched[w].product = patch[u].product
      BY DEF CatalogInv, RowAsFilled, LoopInv
    <3>2. patch[u].product \in Product
      BY <3>1, RowFields DEF CatalogInv
    <3> QED
      BY <1>2, <3>1, <3>2, CatalogAssumption
  <2>3. upload[u].phase \in {"each", "queue", "done"} => upload[u].todo \subseteq Watcher \ {w}
    BY <2>2 DEF CatalogInv, CatalogTyped, Handler
  <2>4. LoopInv(u)'
    BY <1>2, <1>3, <2>3 DEF CatalogInv, LoopInv, Wants
  <2> QED
    BY <2>1, <2>4
<1> QED
  BY <1>3, <1>4 DEF CatalogInv

LEMMA DeleteWatchedKeeps ==
  ASSUME CatalogInv, NEW w \in Watcher, DeleteWatched(w)
  PROVE  CatalogInv'
<1>1. /\ watched' = [watched EXCEPT ![w].active = FALSE] /\ UNCHANGED <<patch, upload, deployment>>
      /\ watched \in [Watcher -> WatchRow]
  BY DEF DeleteWatched, CatalogInv, CatalogTyped
<1>2. /\ [watched[w] EXCEPT !.active = FALSE] \in WatchRow
      /\ [watched[w] EXCEPT !.active = FALSE].product = watched[w].product
      /\ [watched[w] EXCEPT !.active = FALSE].types = watched[w].types
  BY <1>1 DEF WatchRow
<1>3. /\ CatalogTyped'
      /\ \A x \in Watcher : watched'[x].product = watched[x].product /\ watched'[x].types = watched[x].types
  BY <1>1, <1>2 DEF CatalogInv, CatalogTyped
<1>4. ASSUME NEW u \in Upload PROVE RowAsFilled(u)' /\ LoopInv(u)'
  <2>1. RowAsFilled(u)'
    BY <1>1 DEF CatalogInv, RowAsFilled, RowOf, ObjectName
  <2>2. upload[u].todo \subseteq Watcher
    BY DEF CatalogInv, CatalogTyped, Handler
  <2>3. LoopInv(u)'
    BY <1>1, <1>3, <2>2 DEF CatalogInv, LoopInv, Wants
  <2> QED
    BY <2>1, <2>3
<1> QED
  BY <1>3, <1>4 DEF CatalogInv

LEMMA RetirePatchKeeps ==
  ASSUME CatalogInv, NEW u \in Upload, RetirePatch(u)
  PROVE  CatalogInv'
<1> DEFINE row == [patch[u] EXCEPT !.active = FALSE]
           body == upload[u].body
<1>1. patch[u] # Null /\ patch' = [patch EXCEPT ![u] = row] /\ UNCHANGED <<watched, upload, deployment>>
  BY DEF RetirePatch
<1>2. /\ patch[u] = [RowOf(body) EXCEPT !.active = patch[u].active]
      /\ upload[u].phase # "none" /\ body \in Body[u]
  BY <1>1, RowFields DEF CatalogInv, RowAsFilled
<1>3. /\ row = [RowOf(body) EXCEPT !.active = FALSE]
      /\ row.product = patch[u].product /\ row.type = patch[u].type
  BY <1>2 DEF RowOf
<1>4. row # Null
  <2>1. body \in Form /\ ObjectName(body) \in Stored
    BY <1>2, CatalogAssumption DEF Stored
  <2>2. row \in PatchRow
    BY <1>3, <2>1 DEF RowOf, PatchRow, Form
  <2> QED
    BY <2>2, CatalogAssumption
<1> HIDE DEF row
<1>5. /\ CatalogTyped' /\ patch'[u] = row /\ \A v \in Upload \ {u} : patch'[v] = patch[v]
  BY <1>1 DEF CatalogInv, CatalogTyped
<1>6. ASSUME NEW v \in Upload \ {u} PROVE RowAsFilled(v)' /\ LoopInv(v)'
  BY <1>1, <1>5, OtherUpload DEF CatalogInv
<1>7. RowAsFilled(u)'
  <2>1. RowOf(body)' = RowOf(body)
    BY <1>1 DEF RowOf, ObjectName
  <2>2. patch[u] # Null => upload[u].phase \notin {"none", "put"}
    BY DEF CatalogInv, RowAsFilled
  <2> QED
    BY <1>1, <1>2, <1>3, <1>4, <1>5, <2>1, <2>2 DEF RowAsFilled
<1>8. LoopInv(u)'
  BY <1>1, <1>3, <1>5 DEF CatalogInv, LoopInv, Wants
<1> QED
  BY <1>5, <1>6, <1>7, <1>8 DEF CatalogInv

LEMMA ScheduleKeeps ==
  ASSUME CatalogInv, NEW u \in Upload, NEW w \in Watcher, Schedule(u, w)
  PROVE  CatalogInv'
<1>1. /\ deployment[<<u, w>>] = "queued" /\ deployment' = [deployment EXCEPT ![<<u, w>>] = "scheduled"]
      /\ UNCHANGED <<patch, watched, upload>> /\ <<u, w>> \in Job
  BY DEF Schedule, Job
<1>2. CatalogTyped' /\ \A j \in Job : deployment'[j] # "none" <=> deployment[j] # "none"
  BY <1>1 DEF CatalogInv, CatalogTyped
<1>3. \A v \in Upload, x \in Watcher : deployment'[<<v, x>>] # "none" <=> deployment[<<v, x>>] # "none"
  BY <1>2 DEF Job
<1>4. ASSUME NEW v \in Upload PROVE RowAsFilled(v)' /\ LoopInv(v)'
  <2>1. RowAsFilled(v)'
    BY <1>1, <1>3 DEF CatalogInv, RowAsFilled, RowOf, ObjectName
  <2>2. LoopInv(v)'
    BY <1>1, <1>3 DEF CatalogInv, LoopInv, Wants
  <2> QED
    BY <2>1, <2>2
<1> QED
  BY <1>2, <1>4 DEF CatalogInv

LEMMA CatalogInvStep ==
  ASSUME CatalogInv, [Next]_vars
  PROVE  CatalogInv'
<1>1. CASE UNCHANGED catalogVars
  <2>1. UNCHANGED <<patch, watched, upload, deployment>>
    BY <1>1 DEF catalogVars
  <2>2. \A u \in Upload : RowAsFilled(u)' /\ LoopInv(u)'
    BY <2>1, OtherUpload DEF CatalogInv
  <2> QED
    BY <2>1, <2>2 DEF CatalogInv, CatalogTyped
<1>2. CASE CatalogNext
  <2>1. ASSUME NEW u \in Upload, Reject(u) \/ UploadFails(u) PROVE CatalogInv'
    BY <2>1, RejectKeeps
  <2>2. ASSUME NEW i \in DOMAIN task, LinkExpires(i) PROVE CatalogInv'
    BY <1>1, <2>2 DEF LinkExpires
  <2> QED
    BY <1>2, <2>1, <2>2, UploadFileKeeps, SavePatchKeeps, SelectWatchersKeeps, SkipWatcherKeeps,
       EndUploadKeeps, SaveDeploymentKeeps, QueueJobKeeps, CreateWatchedKeeps, DeleteWatchedKeeps,
       RetirePatchKeeps, ScheduleKeeps DEF CatalogNext, CatalogStep
<1> QED
  BY <1>1, <1>2, HostLeavesCatalog DEF Next, vars

THEOREM CatalogInvariant == Spec => []CatalogInv
<1>1. Init => CatalogInv
  BY CatalogInvInit
<1>2. CatalogInv /\ [Next]_vars => CatalogInv'
  BY CatalogInvStep
<1> QED
  BY <1>1, <1>2, PTL DEF Spec

\* A deployment is for a watcher that was found; the one without a job is that of
\* the watcher in hand, or of the watcher in hand at the failure.
Served(u) ==
  \A w \in Watcher :
    /\ deployment[<<u, w>>] # "none" => w \in upload[u].seen
    /\ deployment[<<u, w>>] = "pending" => upload[u].phase \in {"queue", "failed"} /\ upload[u].at = w

ServedInv == \A u \in Upload : Served(u)

LEMMA ServedInvStep ==
  ASSUME CatalogInv, ServedInv, [Next]_vars
  PROVE  ServedInv'
<1>0. ASSUME NEW u \in Upload, upload'[u] = upload[u],
             \A x \in Watcher : deployment'[<<u, x>>] = deployment[<<u, x>>]
      PROVE  Served(u)'
  BY <1>0 DEF ServedInv, Served
<1>1. upload \in [Upload -> Handler] /\ deployment \in [Job -> {"none", "pending", "queued", "scheduled"}]
  BY DEF CatalogInv, CatalogTyped
<1>2. CASE UNCHANGED <<upload, deployment>>
  BY <1>0, <1>2 DEF ServedInv
<1>3. ASSUME NEW u \in Upload, UploadFile(u) \/ SavePatch(u) \/ SelectWatchers(u)
      PROVE  ServedInv'
  <2>1. \A w \in Watcher : deployment[<<u, w>>] = "none"
    BY <1>3 DEF CatalogInv, LoopInv, UploadFile, SavePatch, SelectWatchers, AtPhase
  <2>2. UNCHANGED deployment /\ \A v \in Upload \ {u} : upload'[v] = upload[v]
    BY <1>1, <1>3 DEF UploadFile, SavePatch, SelectWatchers
  <2>3. ASSUME NEW v \in Upload \ {u} PROVE Served(v)'
    BY <1>0, <2>2
  <2>4. Served(u)'
    BY <2>1, <2>2 DEF ServedInv, Served
  <2> QED
    BY <2>3, <2>4 DEF ServedInv
<1>4. ASSUME NEW u \in Upload, Reject(u) \/ EndUpload(u) \/ UploadFails(u)
             \/ \E w \in Watcher : SkipWatcher(u, w)
      PROVE  ServedInv'
  <2>1. UNCHANGED deployment /\ \A v \in Upload \ {u} : upload'[v] = upload[v]
    BY <1>1, <1>4 DEF Reject, EndUpload, UploadFails, SkipWatcher
  <2>2. upload'[u].seen = upload[u].seen /\ upload'[u].at = upload[u].at
    BY <1>1, <1>4 DEF Reject, EndUpload, UploadFails, SkipWatcher, Handler
  <2>3. upload[u].phase \in {"queue", "failed"} => upload'[u].phase = "failed"
    BY <1>1, <1>4 DEF Reject, EndUpload, UploadFails, SkipWatcher, AtPhase, Handler
  <2>4. ASSUME NEW v \in Upload \ {u} PROVE Served(v)'
    BY <1>0, <2>1
  <2>5. Served(u)'
    BY <2>1, <2>2, <2>3 DEF ServedInv, Served
  <2> QED
    BY <2>4, <2>5 DEF ServedInv
<1>5. ASSUME NEW u \in Upload, NEW w \in Watcher, SaveDeployment(u, w) PROVE ServedInv'
  <2>1. /\ upload[u].phase = "each" /\ w \in upload[u].todo /\ Wants(w, patch[u].type)
        /\ deployment' = [deployment EXCEPT ![<<u, w>>] = "pending"]
        /\ upload' = [upload EXCEPT ![u].phase = "queue", ![u].at = w]
    BY <1>5 DEF SaveDeployment, AtPhase
  <2>2. /\ upload'[u].phase = "queue" /\ upload'[u].at = w /\ upload'[u].seen = upload[u].seen
        /\ \A v \in Upload \ {u} : upload'[v] = upload[v]
    BY <1>1, <2>1 DEF Handler
  <2>3. w \in upload[u].seen
    BY <2>1 DEF CatalogInv, LoopInv
  <2>4. \A v \in Upload, x \in Watcher : <<v, x>> # <<u, w>> => deployment'[<<v, x>>] = deployment[<<v, x>>]
    BY <1>1, <2>1 DEF Job
  <2>5. \A x \in Watcher : deployment[<<u, x>>] # "pending"
    BY <2>1 DEF ServedInv, Served
  <2>6. ASSUME NEW v \in Upload \ {u} PROVE Served(v)'
    BY <1>0, <2>2, <2>4
  <2>7. Served(u)'
    BY <2>2, <2>3, <2>4, <2>5 DEF ServedInv, Served
  <2> QED
    BY <2>6, <2>7 DEF ServedInv
<1>6. ASSUME NEW u \in Upload, QueueJob(u) PROVE ServedInv'
  <2>1. /\ upload[u].phase = "queue"
        /\ deployment' = [deployment EXCEPT ![<<u, upload[u].at>>] = "queued"]
        /\ upload' = [upload EXCEPT ![u].phase = "each", ![u].todo = @ \ {upload[u].at}]
    BY <1>6 DEF QueueJob, AtPhase
  <2>2. upload[u].at \in upload[u].seen /\ upload[u].at \in Watcher
    BY <1>1, <2>1 DEF CatalogInv, LoopInv, Handler
  <2>3. upload'[u].seen = upload[u].seen /\ \A v \in Upload \ {u} : upload'[v] = upload[v]
    BY <1>1, <2>1 DEF Handler
  <2>4. /\ deployment'[<<u, upload[u].at>>] = "queued"
        /\ \A v \in Upload, x \in Watcher :
             <<v, x>> # <<u, upload[u].at>> => deployment'[<<v, x>>] = deployment[<<v, x>>]
    BY <1>1, <2>1, <2>2 DEF Job
  <2>5. ASSUME NEW v \in Upload \ {u} PROVE Served(v)'
    BY <1>0, <2>3, <2>4
  <2>6. Served(u)'
    BY <2>1, <2>2, <2>3, <2>4 DEF ServedInv, Served
  <2> QED
    BY <2>5, <2>6 DEF ServedInv
<1>7. ASSUME NEW u \in Upload, NEW w \in Watcher, Schedule(u, w) PROVE ServedInv'
  <2>1. /\ deployment[<<u, w>>] = "queued" /\ UNCHANGED upload
        /\ deployment' = [deployment EXCEPT ![<<u, w>>] = "scheduled"]
    BY <1>7 DEF Schedule
  <2>2. \A v \in Upload, x \in Watcher :
          \/ deployment'[<<v, x>>] = deployment[<<v, x>>]
          \/ deployment'[<<v, x>>] = "scheduled" /\ deployment[<<v, x>>] # "none"
    BY <1>1, <2>1 DEF Job
  <2> QED
    BY <2>1, <2>2 DEF ServedInv, Served
<1>8. CASE HostNext
  BY <1>2, <1>8, HostLeavesCatalog DEF catalogVars
<1>9. CASE CatalogNext
  <2>1. ASSUME NEW u \in Upload, RetirePatch(u) PROVE ServedInv'
    BY <1>2, <2>1 DEF RetirePatch
  <2>2. ASSUME NEW w \in Watcher, CreateWatched(w) \/ DeleteWatched(w) PROVE ServedInv'
    BY <1>2, <2>2 DEF CreateWatched, DeleteWatched
  <2>3. ASSUME NEW i \in DOMAIN task, LinkExpires(i) PROVE ServedInv'
    BY <1>2, <2>3 DEF LinkExpires, catalogVars
  <2> QED
    BY <1>3, <1>4, <1>5, <1>6, <1>7, <1>9, <2>1, <2>2, <2>3 DEF CatalogNext, CatalogStep
<1>10. CASE UNCHANGED vars
  BY <1>2, <1>10 DEF vars, catalogVars
<1> QED
  BY <1>8, <1>9, <1>10 DEF Next

\* Whoever watches a product when the upload looks, and wants the type, gets a
\* deployment with its job, and nobody else does, however many uploads cross and
\* whatever is added to and taken from the watched products meanwhile; an upload
\* that fails leaves one deployment without its job at most
\* (_trigger_auto_deployments).
THEOREM WatchersAreServed == Spec => []WatchersServed
<1>1. ASSUME CatalogInv, ServedInv PROVE WatchersServed
  <2> SUFFICES ASSUME NEW u \in Upload
               PROVE  /\ \A w \in Watcher : deployment[<<u, w>>] \in {"pending", "queued", "scheduled"}
                                              => w \in upload[u].seen
                      /\ AtPhase(u, "done") => \A w \in upload[u].seen :
                           w \in Watcher /\ deployment[<<u, w>>] \in {"queued", "scheduled"}
                      /\ \A v, w \in Watcher : deployment[<<u, v>>] = "pending" /\ deployment[<<u, w>>] = "pending"
                                                 => v = w
    BY DEF WatchersServed
  <2>1. upload[u] \in Handler /\ LoopInv(u)
    BY <1>1 DEF CatalogInv, CatalogTyped
  <2>2. \A w \in Watcher : deployment[<<u, w>>] \in {"none", "pending", "queued", "scheduled"}
    BY <1>1 DEF CatalogInv, CatalogTyped, Job
  <2>3. ASSUME AtPhase(u, "done"), NEW w \in upload[u].seen
        PROVE  w \in Watcher /\ deployment[<<u, w>>] \in {"queued", "scheduled"}
    <3>1. w \in Watcher /\ upload[u].phase = "done"
      BY <2>1, <2>3 DEF AtPhase, Handler
    <3>2. deployment[<<u, w>>] # "none"
      BY <2>1, <2>3, <3>1 DEF LoopInv
    <3>3. deployment[<<u, w>>] # "pending"
      BY <1>1, <3>1 DEF ServedInv, Served
    <3> QED
      BY <2>2, <3>1, <3>2, <3>3
  <2> QED
    BY <1>1, <2>2, <2>3 DEF ServedInv, Served
<1>2. Init => ServedInv
  <2>1. ASSUME Init PROVE \A u \in Upload, w \in Watcher : deployment[<<u, w>>] = "none"
    BY <2>1 DEF Init, CatalogInit, Job
  <2> QED
    BY <2>1 DEF ServedInv, Served
<1>3. CatalogInv /\ ServedInv /\ [Next]_vars => ServedInv'
  BY ServedInvStep
<1> QED
  BY <1>1, <1>2, <1>3, CatalogInvariant, PTL DEF Spec

-----------------------------------------------------------------------------
(* The host *)

Version  == Seq(Nat \cup Letter)
Snapshot == (-1)..MaxTime \cup {Null}

TaskRow == [kind : {"install", "rollback"}, job : Job, name : Stored \cup {Null},
            hash : Content \cup {Null}, live : BOOLEAN, snapshot : Snapshot]

\* A task to install carries the hash of what was uploaded for its patch.
Right(t) ==
  t.kind = "install" => patch[t.job[1]] # Null /\ t.hash = upload[t.job[1]].body.content

QueueInv == task \in Seq(TaskRow) /\ \A i \in DOMAIN task : Right(task[i])

\* The agent is in the middle of its first task, and installs what it has taken.
AgentInv ==
  /\ agent \in [phase : {"idle", "download", "snapshot", "install", "undo", "inventory"}, snapshot : Snapshot]
  /\ agent.phase \notin {"idle", "inventory"} => task # <<>>
  /\ agent.phase \in {"download", "snapshot", "install"} => Head(task).kind = "install"
  /\ agent.phase \in {"snapshot", "install"} => ran[Head(task).job] # Null

RanInv ==
  /\ DOMAIN ran = Job
  /\ \A j \in Job : ran[j] # Null => patch[j[1]] # Null /\ ran[j] = upload[j[1]].body.content

\* One inventory at most is waited for, and then by the agent.
InventoryInv ==
  /\ sent \subseteq [items : Items, late : BOOLEAN, old : BOOLEAN]
  /\ \A p, q \in sent : ~p.late /\ ~q.late => p = q
  /\ agent.phase = "inventory" <=> \E p \in sent : ~p.late

SoftwareInv ==
  /\ platform \in {"debian", "rpm", "windows"}
  /\ installed \in Items /\ table \in [Package -> Version \cup {Null}]

FileInv ==
  /\ file \in [0..MaxTime -> (SUBSET Package) \cup {Null}] /\ clock \in 0..MaxTime
  /\ result \in [Job -> {"none", "installing", "success", "failed"}]
  /\ snapshotId \in [Job -> Snapshot]

StoreInv == object \in [Stored -> Content \cup {Null}] /\ budget \in [Fault -> Nat]

HostInv ==
  QueueInv /\ AgentInv /\ RanInv /\ InventoryInv /\ SoftwareInv /\ FileInv /\ StoreInv

LEMMA HostInvInit ==
  ASSUME Init
  PROVE  HostInv
<1>1. PICK world \in World : CatalogInit(world) /\ HostInit(world)
  BY DEF Init
<1>2. QueueInv
  BY <1>1 DEF CatalogInit, QueueInv
<1>3. AgentInv
  BY <1>1 DEF HostInit, AgentInv, Idle, Snapshot
<1>4. RanInv
  BY <1>1 DEF HostInit, RanInv
<1>5. InventoryInv
  BY <1>1 DEF HostInit, InventoryInv, Idle
<1>6. SoftwareInv
  BY <1>1, WorldAssumption DEF HostInit, SoftwareInv
<1>7. FileInv
  <2>1. file = [t \in 0..MaxTime |-> Null] /\ clock = 0
    BY <1>1 DEF HostInit
  <2>2. result = [j \in Job |-> "none"] /\ snapshotId = [j \in Job |-> Null]
    BY <1>1 DEF HostInit
  <2>3. file \in [0..MaxTime -> (SUBSET Package) \cup {Null}] /\ clock \in 0..MaxTime
    BY <2>1, HostAssumption
  <2>4. /\ result \in [Job -> {"none", "installing", "success", "failed"}]
        /\ snapshotId \in [Job -> Snapshot]
    BY <2>2 DEF Snapshot
  <2> QED
    BY <2>3, <2>4 DEF FileInv
<1>8. StoreInv
  BY <1>1, CatalogAssumption DEF CatalogInit, StoreInv
<1> QED
  BY <1>2, <1>3, <1>4, <1>5, <1>6, <1>7, <1>8 DEF HostInv

\* Once a patch has its row, row and form stay.
LEMMA RowStays ==
  ASSUME CatalogInv, [Next]_vars, NEW u \in Upload, patch[u] # Null
  PROVE  patch'[u] # Null /\ upload'[u].body = upload[u].body
<1>1. /\ upload[u].phase \notin {"none", "put"} /\ upload \in [Upload -> Handler]
      /\ DOMAIN patch = Upload
  BY DEF CatalogInv, RowAsFilled, CatalogTyped
<1>2. CatalogInv'
  BY CatalogInvStep
<1>3. ASSUME NEW v \in Upload, UploadFile(v) PROVE UNCHANGED patch /\ upload'[u].body = upload[u].body
  BY <1>1, <1>3 DEF UploadFile, AtPhase
<1>4. ASSUME NEW v \in Upload, Reject(v) \/ UploadFails(v) \/ EndUpload(v) \/ QueueJob(v) \/ SelectWatchers(v)
      PROVE  UNCHANGED patch /\ upload'[u].body = upload[u].body
  BY <1>1, <1>4 DEF Reject, UploadFails, EndUpload, QueueJob, SelectWatchers, Handler
<1>5. ASSUME NEW v \in Upload, NEW w \in Watcher, SkipWatcher(v, w) \/ SaveDeployment(v, w)
      PROVE  UNCHANGED patch /\ upload'[u].body = upload[u].body
  BY <1>1, <1>5 DEF SkipWatcher, SaveDeployment, Handler
<1>6. ASSUME NEW v \in Upload, SavePatch(v) PROVE patch'[u] = patch[u] /\ upload'[u].body = upload[u].body
  BY <1>1, <1>6 DEF SavePatch, AtPhase, Handler
<1>7. ASSUME NEW v \in Upload, RetirePatch(v) PROVE patch'[u] # Null /\ UNCHANGED upload
  <2>1. UNCHANGED upload
    BY <1>7 DEF RetirePatch
  <2>2. upload'[u].phase \notin {"none", "put"}
    BY <1>1, <2>1
  <2>3. CASE u # v
    BY <1>1, <1>7, <2>3 DEF RetirePatch
  <2>4. CASE u = v
    <3>1. PICK x \in BOOLEAN : patch[u] = [RowOf(upload[u].body) EXCEPT !.active = x]
      BY DEF CatalogInv, RowAsFilled
    <3>2. patch'[u] = [RowOf(upload[u].body) EXCEPT !.active = FALSE]
      BY <1>1, <1>7, <2>4, <3>1 DEF RetirePatch, RowOf
    <3>3. upload[u].body \in Form /\ ObjectName(upload[u].body) \in Stored
      BY <1>1, CatalogAssumption DEF CatalogInv, RowAsFilled, Stored, Handler, Phase
    <3>4. patch'[u] \in PatchRow
      BY <3>2, <3>3 DEF RowOf, PatchRow, Form
    <3> QED
      BY <2>1, <3>4, CatalogAssumption
  <2> QED
    BY <2>1, <2>3, <2>4
<1>8. ASSUME NEW v \in Upload, NEW w \in Watcher, Schedule(v, w) \/ CreateWatched(w) \/ DeleteWatched(w)
      PROVE  UNCHANGED <<patch, upload>>
  BY <1>8 DEF Schedule, CreateWatched, DeleteWatched
<1>9. ASSUME NEW i \in DOMAIN task, LinkExpires(i) PROVE UNCHANGED <<patch, upload>>
  BY <1>9 DEF LinkExpires, catalogVars
<1>10. CASE CatalogNext
  BY <1>3, <1>4, <1>5, <1>6, <1>7, <1>8, <1>9, <1>10 DEF CatalogNext, CatalogStep
<1>11. CASE UNCHANGED catalogVars
  BY <1>11 DEF catalogVars
<1> QED
  BY <1>10, <1>11, HostLeavesCatalog DEF Next, vars

LEMMA RightStays ==
  ASSUME CatalogInv, [Next]_vars
  PROVE  \A t \in TaskRow : Right(t) => Right(t)'
<1> SUFFICES ASSUME NEW t \in TaskRow, Right(t), t.kind = "install"
             PROVE  patch'[t.job[1]] # Null /\ t.hash = upload'[t.job[1]].body.content
  BY DEF Right
<1>1. t.job[1] \in Upload
  BY DEF TaskRow, Job
<1>2. patch[t.job[1]] # Null /\ t.hash = upload[t.job[1]].body.content
  BY DEF Right
<1> QED
  BY <1>1, <1>2, RowStays

\* What the steps do to the list of tasks
LEMMA QueueInvStep ==
  ASSUME CatalogInv, HostInv, [Next]_vars
  PROVE  QueueInv'
<1>1. /\ task \in Seq(TaskRow) /\ \A i \in DOMAIN task : task[i] \in TaskRow /\ Right(task[i])
      /\ agent.phase \notin {"idle", "inventory"} => task # <<>>
  BY DEF HostInv, QueueInv, AgentInv
<1>2. \A t \in TaskRow : Right(t) => Right(t)'
  BY RightStays
<1>3. CASE UNCHANGED task
  BY <1>1, <1>2, <1>3 DEF QueueInv, Right
<1>4. ASSUME NEW t \in TaskRow, Right(t)', task' = Append(task, t) PROVE QueueInv'
  <2>1. task' \in Seq(TaskRow) /\ \A i \in DOMAIN task' : (i \in DOMAIN task /\ task'[i] = task[i]) \/ task'[i] = t
    BY <1>1, <1>4
  <2> QED
    BY <1>1, <1>2, <1>4, <2>1 DEF QueueInv, Right
<1>5. ASSUME task # <<>>, task' = Tail(task) PROVE QueueInv'
  <2>1. task' \in Seq(TaskRow) /\ \A i \in DOMAIN task' : i + 1 \in DOMAIN task /\ task'[i] = task[i + 1]
    BY <1>1, <1>5
  <2> QED
    BY <1>1, <1>2, <2>1 DEF QueueInv, Right
<1>6. ASSUME NEW u \in Upload, NEW w \in Watcher, Schedule(u, w) PROVE QueueInv'
  <2>1. /\ task' = Append(task, InstallTask(u, w)) /\ UNCHANGED <<patch, upload>>
        /\ patch[u] # Null /\ RowAsFilled(u) /\ CatalogTyped
    BY <1>6 DEF Schedule, CatalogInv, RowAsFilled
  <2>2. patch[u].hash = upload[u].body.content /\ upload[u].body \in Form /\ patch[u].name \in Stored
    <3>1. upload[u].phase # "none" /\ patch[u].hash = upload[u].body.content
      BY <2>1, RowFields
    <3>2. upload[u].body \in Body[u] /\ upload[u].body \in Form
      BY <2>1, <3>1, CatalogAssumption DEF RowAsFilled
    <3>3. patch[u].name = ObjectName(upload[u].body)
      BY <2>1, RowFields DEF RowOf
    <3> QED
      BY <3>1, <3>2, <3>3 DEF Stored
  <2>3. InstallTask(u, w) \in TaskRow
    BY <2>2 DEF InstallTask, TaskRow, Job, Snapshot, Form
  <2>4. PICK x \in TaskRow : x = InstallTask(u, w)
    BY <2>3
  <2>5. Right(x)'
    BY <2>1, <2>2, <2>4 DEF Right, InstallTask
  <2> QED
    BY <1>4, <2>1, <2>4, <2>5
<1>7. ASSUME NEW i \in DOMAIN task, LinkExpires(i) PROVE QueueInv'
  <2>1. task' = [task EXCEPT ![i].live = FALSE] /\ UNCHANGED <<patch, upload>>
    BY <1>7 DEF LinkExpires, catalogVars
  <2>2. /\ [task[i] EXCEPT !.live = FALSE] \in TaskRow
        /\ [task[i] EXCEPT !.live = FALSE].kind = task[i].kind
        /\ [task[i] EXCEPT !.live = FALSE].job = task[i].job
        /\ [task[i] EXCEPT !.live = FALSE].hash = task[i].hash
    BY <1>1 DEF TaskRow
  <2>3. /\ task' \in Seq(TaskRow) /\ DOMAIN task' = DOMAIN task
        /\ \A k \in DOMAIN task : task'[k].kind = task[k].kind /\ task'[k].job = task[k].job
                                  /\ task'[k].hash = task[k].hash
    BY <1>1, <2>1, <2>2
  <2> QED
    BY <1>1, <2>1, <2>3 DEF QueueInv, Right
<1>8. ASSUME NEW j \in Job, RequestRollback(j) PROVE QueueInv'
  <2>1. snapshotId[j] \in Snapshot
    BY DEF HostInv, FileInv
  <2> DEFINE r == [kind |-> "rollback", job |-> j, name |-> Null, hash |-> Null, live |-> TRUE,
                   snapshot |-> snapshotId[j]]
  <2>2. r \in TaskRow /\ r.kind = "rollback"
    BY <2>1 DEF TaskRow
  <2>3. task' = Append(task, r)
    BY <1>8 DEF RequestRollback
  <2> HIDE DEF r
  <2>4. PICK x \in TaskRow : x = r
    BY <2>2
  <2> QED
    BY <1>4, <2>2, <2>3, <2>4 DEF Right
<1>9. CASE CatalogNext
  <2>1. ASSUME NEW u \in Upload,
               UploadFile(u) \/ Reject(u) \/ SavePatch(u) \/ SelectWatchers(u) \/ QueueJob(u)
                 \/ EndUpload(u) \/ UploadFails(u) \/ RetirePatch(u)
        PROVE  UNCHANGED task
    BY <2>1 DEF UploadFile, Reject, SavePatch, SelectWatchers, QueueJob, EndUpload, UploadFails, RetirePatch
  <2>2. ASSUME NEW u \in Upload, NEW w \in Watcher, SkipWatcher(u, w) \/ SaveDeployment(u, w)
        PROVE  UNCHANGED task
    BY <2>2 DEF SkipWatcher, SaveDeployment
  <2>3. ASSUME NEW w \in Watcher, CreateWatched(w) \/ DeleteWatched(w)
        PROVE  UNCHANGED task
    BY <2>3 DEF CreateWatched, DeleteWatched
  <2> QED
    BY <1>3, <1>6, <1>7, <1>9, <2>1, <2>2, <2>3 DEF CatalogNext, CatalogStep
<1>10. CASE HostNext
  <2>1. ASSUME DownloadFails \/ InstallSucceeds \/ InstallFails \/ Undo PROVE QueueInv'
    BY <1>1, <1>5, <2>1 DEF DownloadFails, InstallSucceeds, InstallFails, Undo, EndTask
  <2>2. ASSUME TakeTask \/ Download \/ TakeSnapshot \/ NoSnapshot \/ ShadowCopy \/ SendInventory
                 \/ Reboot \/ Tick \/ ClockBack \/ \E n \in Package : ByHand(n)
        PROVE  UNCHANGED task
    BY <2>2 DEF TakeTask, Download, TakeSnapshot, NoSnapshot, ShadowCopy, SendInventory,
                Reboot, Tick, ClockBack, ByHand
  <2>3. ASSUME NEW p \in sent, SubmitInventory(p) \/ ResendInventory(p) \/ GiveUpInventory(p)
        PROVE  UNCHANGED task
    BY <2>3 DEF SubmitInventory, ResendInventory, GiveUpInventory
  <2> QED
    BY <1>3, <1>8, <1>10, <2>1, <2>2, <2>3 DEF HostNext, Execute
<1> QED
  BY <1>3, <1>9, <1>10 DEF Next, vars

\* What the agent does with the first of them
LEMMA AgentInvStep ==
  ASSUME CatalogInv, HostInv, [Next]_vars
  PROVE  AgentInv'
<1> USE DEF Snapshot
<1>1. /\ agent \in [phase : {"idle", "download", "snapshot", "install", "undo", "inventory"}, snapshot : Snapshot]
      /\ task \in Seq(TaskRow) /\ DOMAIN ran = Job /\ clock \in 0..MaxTime
      /\ AgentInv
  BY DEF HostInv, AgentInv, QueueInv, RanInv, FileInv
<1>2. Idle \in [phase : {"idle", "download", "snapshot", "install", "undo", "inventory"}, snapshot : Snapshot]
      /\ Idle.phase = "idle"
  BY DEF Idle
<1>3. ASSUME UNCHANGED <<agent, ran>>,
             task # <<>> => task' # <<>> /\ Head(task').kind = Head(task).kind /\ Head(task').job = Head(task).job
      PROVE  AgentInv'
  BY <1>1, <1>3 DEF AgentInv
<1>4. CASE UNCHANGED <<agent, ran, task>>
  BY <1>3, <1>4
<1>5. CASE agent' = Idle
  BY <1>2, <1>5 DEF AgentInv
<1>6. CASE TakeTask
  BY <1>1, <1>6 DEF TakeTask, AgentInv
<1>7. CASE Download
  <2>1. /\ agent.phase = "download" /\ agent' = [agent EXCEPT !.phase = "snapshot"] /\ UNCHANGED task
        /\ ran' = [ran EXCEPT ![Head(task).job] = object[Head(task).name]]
        /\ object[Head(task).name] = Head(task).hash
    BY <1>7 DEF Download, Verified
  <2>2. task # <<>> /\ Head(task).kind = "install" /\ Head(task) \in TaskRow /\ Right(Head(task))
    BY <1>1, <2>1 DEF AgentInv, HostInv, QueueInv
  <2>3. Head(task).hash # Null /\ Head(task).job \in Job
    <3>1. Head(task).job \in Job /\ Head(task).job[1] \in Upload
      BY <2>2 DEF TaskRow, Job
    <3>2. /\ patch[Head(task).job[1]] # Null
          /\ Head(task).hash = upload[Head(task).job[1]].body.content
      BY <2>2 DEF Right
    <3>3. upload[Head(task).job[1]].body \in Form
      BY <3>1, <3>2, CatalogAssumption DEF CatalogInv, RowAsFilled
    <3> QED
      BY <3>1, <3>2, <3>3, CatalogAssumption DEF Form
  <2> QED
    BY <1>1, <2>1, <2>2, <2>3 DEF AgentInv
<1>8. CASE TakeSnapshot \/ NoSnapshot \/ ShadowCopy
  <2>1. agent.phase = "snapshot" /\ UNCHANGED <<task, ran>>
    BY <1>8 DEF TakeSnapshot, NoSnapshot, ShadowCopy, histVars
  <2>2. PICK s \in Snapshot : agent' = [agent EXCEPT !.phase = "install", !.snapshot = s]
    <3>1. clock \in Snapshot /\ -1 \in Snapshot /\ Null \in Snapshot
      BY <1>1, HostAssumption
    <3> QED
      BY <1>8, <3>1 DEF TakeSnapshot, NoSnapshot, ShadowCopy, Path
  <2> QED
    BY <1>1, <2>1, <2>2 DEF AgentInv
<1>9. CASE SendInventory
  BY <1>1, <1>9 DEF SendInventory, AgentInv
<1>10. ASSUME NEW p \in sent, SubmitInventory(p) PROVE AgentInv'
  BY <1>4, <1>5, <1>10 DEF SubmitInventory
<1>11. ASSUME NEW p \in sent, ResendInventory(p) \/ GiveUpInventory(p) PROVE AgentInv'
  BY <1>4, <1>5, <1>11 DEF ResendInventory, GiveUpInventory, histVars
<1>12. ASSUME NEW j \in Job, RequestRollback(j) PROVE AgentInv'
  <2>1. UNCHANGED <<agent, ran>> /\ \E r : task' = Append(task, r)
    BY <1>12 DEF RequestRollback, hostVars, histVars
  <2> QED
    BY <1>1, <1>3, <2>1
<1>13. CASE DownloadFails \/ InstallSucceeds \/ InstallFails \/ Undo \/ Reboot
  BY <1>5, <1>13 DEF DownloadFails, InstallSucceeds, InstallFails, Undo, EndTask, Reboot
<1>14. CASE Tick \/ ClockBack \/ \E n \in Package : ByHand(n)
  BY <1>4, <1>14 DEF Tick, ClockBack, ByHand, histVars
<1>15. CASE CatalogNext /\ UNCHANGED <<hostVars, histVars>>
  <2>1. UNCHANGED <<agent, ran>>
    BY <1>15 DEF hostVars, histVars
  <2>2. ASSUME NEW u \in Upload, NEW w \in Watcher, Schedule(u, w) PROVE AgentInv'
    <3>1. task' = Append(task, InstallTask(u, w))
      BY <2>2 DEF Schedule
    <3> QED
      BY <1>1, <1>3, <2>1, <3>1
  <2>3. ASSUME NEW i \in DOMAIN task, LinkExpires(i) PROVE AgentInv'
    <3>1. task' = [task EXCEPT ![i].live = FALSE]
      BY <2>3 DEF LinkExpires
    <3>2. /\ task \in [1..Len(task) -> TaskRow] /\ Len(task) \in Nat /\ DOMAIN task = 1..Len(task)
          /\ task # <<>> => Head(task) = task[1] /\ 1 \in DOMAIN task
      BY <1>1
    <3>3. /\ task' \in Seq(TaskRow) /\ Len(task') = Len(task)
          /\ \A k \in DOMAIN task : task'[k].kind = task[k].kind /\ task'[k].job = task[k].job
      <4>1. /\ [task[i] EXCEPT !.live = FALSE] \in TaskRow
            /\ [task[i] EXCEPT !.live = FALSE].kind = task[i].kind
            /\ [task[i] EXCEPT !.live = FALSE].job = task[i].job
        <5>1. task[i] \in TaskRow
          BY <1>1
        <5> QED
          BY <5>1 DEF TaskRow
      <4> QED
        BY <1>1, <3>1, <4>1
    <3>4. task # <<>> => task' # <<>> /\ Head(task') = task'[1]
      BY <3>2, <3>3
    <3> QED
      BY <1>3, <2>1, <3>2, <3>3, <3>4
  <2>4. ASSUME NEW u \in Upload,
               UploadFile(u) \/ Reject(u) \/ SavePatch(u) \/ SelectWatchers(u) \/ QueueJob(u)
                 \/ EndUpload(u) \/ UploadFails(u) \/ RetirePatch(u)
        PROVE  UNCHANGED task
    BY <2>4 DEF UploadFile, Reject, SavePatch, SelectWatchers, QueueJob, EndUpload, UploadFails, RetirePatch
  <2>5. ASSUME NEW u \in Upload, NEW w \in Watcher, SkipWatcher(u, w) \/ SaveDeployment(u, w)
        PROVE  UNCHANGED task
    BY <2>5 DEF SkipWatcher, SaveDeployment
  <2>6. ASSUME NEW w \in Watcher, CreateWatched(w) \/ DeleteWatched(w)
        PROVE  UNCHANGED task
    BY <2>6 DEF CreateWatched, DeleteWatched
  <2> QED
    BY <1>4, <1>15, <2>1, <2>2, <2>3, <2>4, <2>5, <2>6 DEF CatalogNext, CatalogStep
<1>16. CASE UNCHANGED vars
  BY <1>4, <1>16 DEF vars, hostVars, histVars
<1> QED
  BY <1>6, <1>7, <1>8, <1>9, <1>10, <1>11, <1>12, <1>13, <1>14, <1>15, <1>16
  DEF Next, HostNext, Execute

\* What was taken to be installed
LEMMA RanInvStep ==
  ASSUME CatalogInv, HostInv, [Next]_vars
  PROVE  RanInv'
<1>1. /\ DOMAIN ran = Job
      /\ \A j \in Job : ran[j] # Null => patch[j[1]] # Null /\ ran[j] = upload[j[1]].body.content
  BY DEF HostInv, RanInv
<1>2. \A j \in Job : patch[j[1]] # Null =>
        patch'[j[1]] # Null /\ upload'[j[1]].body = upload[j[1]].body
  BY RowStays DEF Job
<1>3. CASE UNCHANGED ran
  BY <1>1, <1>2, <1>3 DEF RanInv
<1>4. CASE Download
  <2>1. /\ agent.phase = "download" /\ UNCHANGED <<patch, upload>>
        /\ ran' = [ran EXCEPT ![Head(task).job] = Head(task).hash]
    BY <1>4 DEF Download, Verified, catalogVars
  <2>2. task # <<>> /\ Head(task).kind = "install" /\ Head(task) \in TaskRow /\ Right(Head(task))
    BY <2>1 DEF HostInv, AgentInv, QueueInv
  <2>3. /\ Head(task).job \in Job /\ patch[Head(task).job[1]] # Null
        /\ Head(task).hash = upload[Head(task).job[1]].body.content
    BY <2>2 DEF TaskRow, Right
  <2> QED
    BY <1>1, <2>1, <2>3 DEF RanInv
<1>5. CASE Execute /\ ~Download
  BY <1>3, <1>5 DEF Execute, TakeTask, DownloadFails, TakeSnapshot, NoSnapshot, ShadowCopy,
                    InstallSucceeds, InstallFails, Undo, histVars
<1>6. CASE HostNext /\ ~Execute
  BY <1>3, <1>6 DEF HostNext, SendInventory, SubmitInventory, ResendInventory, GiveUpInventory,
                    RequestRollback, ByHand, Reboot, Tick, ClockBack, histVars
<1>7. CASE UNCHANGED histVars
  BY <1>3, <1>7 DEF histVars
<1> QED
  BY <1>4, <1>5, <1>6, <1>7 DEF Next, HostNext, vars

\* Inventories on their way
LEMMA InventoryInvStep ==
  ASSUME CatalogInv, HostInv, [Next]_vars
  PROVE  InventoryInv'
<1>1. /\ sent \subseteq [items : Items, late : BOOLEAN, old : BOOLEAN]
      /\ \A p, q \in sent : ~p.late /\ ~q.late => p = q
      /\ agent.phase = "inventory" <=> \E p \in sent : ~p.late
      /\ agent \in [phase : {"idle", "download", "snapshot", "install", "undo", "inventory"}, snapshot : Snapshot]
      /\ installed \in Items
  BY DEF HostInv, InventoryInv, AgentInv, SoftwareInv
<1>2. CASE UNCHANGED sent /\ (agent'.phase = "inventory" <=> agent.phase = "inventory")
  BY <1>1, <1>2 DEF InventoryInv
<1>3. CASE Execute
  <2>1. UNCHANGED sent
    BY <1>3 DEF Execute, TakeTask, Download, DownloadFails, TakeSnapshot, NoSnapshot, ShadowCopy,
                InstallSucceeds, InstallFails, Undo
  <2>2. agent.phase # "inventory"
    BY <1>3 DEF Execute, TakeTask, Download, DownloadFails, TakeSnapshot, NoSnapshot, ShadowCopy,
                InstallSucceeds, InstallFails, Undo
  <2>3. agent'.phase # "inventory"
    <3>1. CASE DownloadFails \/ InstallSucceeds \/ InstallFails \/ Undo
      BY <3>1 DEF DownloadFails, InstallSucceeds, InstallFails, Undo, EndTask, Idle
    <3>2. CASE TakeTask \/ Download
      BY <1>1, <3>2 DEF TakeTask, Download
    <3>3. CASE TakeSnapshot \/ NoSnapshot \/ ShadowCopy
      BY <1>1, <3>3 DEF TakeSnapshot, NoSnapshot, ShadowCopy
    <3> QED
      BY <1>3, <3>1, <3>2, <3>3 DEF Execute
  <2> QED
    BY <1>2, <2>1, <2>2, <2>3
<1>4. CASE SendInventory
  <2>1. PICK answering \in SUBSET Source :
          /\ sent' = {[p EXCEPT !.old = TRUE] : p \in sent} \cup {Inventory(Collected(answering))}
          /\ agent.phase = "idle" /\ agent' = [agent EXCEPT !.phase = "inventory"]
    BY <1>4 DEF SendInventory, Source
  <2>2. Collected(answering) \in Items
    BY <1>1 DEF Collected, Items
  <2>3. \A p \in sent : p.late /\ [p EXCEPT !.old = TRUE] \in [items : Items, late : BOOLEAN, old : BOOLEAN]
                        /\ [p EXCEPT !.old = TRUE].late
    BY <1>1, <2>1
  <2>4. Inventory(Collected(answering)) \in [items : Items, late : BOOLEAN, old : BOOLEAN]
        /\ ~Inventory(Collected(answering)).late
    BY <2>2 DEF Inventory
  <2> QED
    BY <1>1, <2>1, <2>3, <2>4 DEF InventoryInv
<1>5. ASSUME NEW p \in sent, SubmitInventory(p) PROVE InventoryInv'
  <2>1. sent' = sent \ {p} /\ agent' = IF p.late THEN agent ELSE Idle
    BY <1>5 DEF SubmitInventory
  <2> QED
    BY <1>1, <2>1 DEF InventoryInv, Idle
<1>6. ASSUME NEW p \in sent, ResendInventory(p) PROVE InventoryInv'
  <2>1. sent' = sent \cup {[p EXCEPT !.late = TRUE]} /\ UNCHANGED agent
    BY <1>6 DEF ResendInventory
  <2>2. [p EXCEPT !.late = TRUE] \in [items : Items, late : BOOLEAN, old : BOOLEAN] /\ [p EXCEPT !.late = TRUE].late
    BY <1>1
  <2> QED
    BY <1>1, <2>1, <2>2 DEF InventoryInv
<1>7. ASSUME NEW p \in sent, GiveUpInventory(p) PROVE InventoryInv'
  <2>1. sent' = sent \ {p} /\ agent' = Idle /\ ~p.late
    BY <1>7 DEF GiveUpInventory
  <2> QED
    BY <1>1, <2>1 DEF InventoryInv, Idle
<1>8. CASE Reboot
  <2>1. sent' = {[p EXCEPT !.late = TRUE] : p \in sent} /\ agent' = Idle
    BY <1>8 DEF Reboot
  <2>2. \A p \in sent : [p EXCEPT !.late = TRUE] \in [items : Items, late : BOOLEAN, old : BOOLEAN]
                        /\ [p EXCEPT !.late = TRUE].late
    BY <1>1
  <2> QED
    BY <2>1, <2>2 DEF InventoryInv, Idle
<1>9. CASE Tick \/ ClockBack \/ (\E n \in Package : ByHand(n)) \/ (\E j \in Job : RequestRollback(j))
  BY <1>2, <1>9 DEF Tick, ClockBack, ByHand, RequestRollback, hostVars
<1>10. CASE UNCHANGED hostVars
  BY <1>2, <1>10 DEF hostVars
<1> QED
  BY <1>3, <1>4, <1>5, <1>6, <1>7, <1>8, <1>9, <1>10 DEF Next, HostNext, vars

\* What is installed, and what the server knows of it
LEMMA SoftwareInvStep ==
  ASSUME CatalogInv, HostInv, [Next]_vars
  PROVE  SoftwareInv'
<1> USE DEF Version
<1>1. /\ platform \in {"debian", "rpm", "windows"}
      /\ installed \in Items /\ table \in [Package -> Version \cup {Null}]
      /\ installed["system"] \in [Package -> Version \cup {Null}]
  BY DEF HostInv, SoftwareInv, Items, Source
<1>2. CASE UNCHANGED <<platform, installed, table>>
  BY <1>1, <1>2 DEF SoftwareInv
<1>3. \A c \in Content : Brings[c].package \in Package /\ Brings[c].version \in Version
  BY HostAssumption
<1>4. agent.phase = "install" => Effect(ran[Head(task).job]) \in Items
  <2> SUFFICES ASSUME agent.phase = "install" PROVE Effect(ran[Head(task).job]) \in Items
    OBVIOUS
  <2>1. /\ task # <<>> /\ Head(task) \in TaskRow /\ ran[Head(task).job] # Null
    BY DEF HostInv, AgentInv, QueueInv
  <2>2. Head(task).job \in Job /\ Head(task).job[1] \in Upload
    BY <2>1 DEF TaskRow, Job
  <2>3. /\ patch[Head(task).job[1]] # Null
        /\ ran[Head(task).job] = upload[Head(task).job[1]].body.content
    BY <2>1, <2>2 DEF HostInv, RanInv
  <2>4. upload[Head(task).job[1]].body \in Form
    BY <2>2, <2>3, CatalogAssumption DEF CatalogInv, RowAsFilled
  <2>5. ran[Head(task).job] \in Content
    BY <2>3, <2>4 DEF Form
  <2> QED
    BY <1>1, <1>3, <2>5 DEF Effect, Items, Source
<1>5. ASSUME NEW system \in [Package -> Version \cup {Null}], NEW path
      PROVE  Restored(system, path) \subseteq [Package -> Version \cup {Null}]
  <2>1. [n \in Package |-> IF n \in file[path] /\ Repo[n] # Null THEN Repo[n] ELSE system[n]]
          \in [Package -> Version \cup {Null}]
    BY HostAssumption
  <2> QED
    BY <2>1 DEF Restored
<1>6. ASSUME NEW half \in Items, NEW path,
             \E system \in Restored(half["system"], path) : installed' = [half EXCEPT !["system"] = system]
      PROVE  installed' \in Items
  <2>1. half["system"] \in [Package -> Version \cup {Null}]
    BY DEF Items, Source
  <2>2. PICK system \in Restored(half["system"], path) : installed' = [half EXCEPT !["system"] = system]
    BY <1>6
  <2>3. system \in [Package -> Version \cup {Null}]
    BY <1>5, <2>1, <2>2
  <2> QED
    BY <2>2, <2>3 DEF Items
<1>7. CASE InstallSucceeds
  BY <1>1, <1>4, <1>7 DEF InstallSucceeds, SoftwareInv
<1>8. CASE InstallFails
  <2>1. PICK half \in {installed, Effect(ran[Head(task).job])} :
          \E system \in Restored(half["system"], agent.snapshot) : installed' = [half EXCEPT !["system"] = system]
    BY <1>8 DEF InstallFails
  <2>2. half \in Items
    BY <1>1, <1>4, <1>8, <2>1 DEF InstallFails
  <2>3. installed' \in Items
    BY <1>6, <2>1, <2>2
  <2> QED
    BY <1>1, <1>8, <2>3 DEF InstallFails, SoftwareInv
<1>9. CASE Undo
  <2>1. \E system \in Restored(installed["system"], Head(task).snapshot) :
          installed' = [installed EXCEPT !["system"] = system]
    BY <1>9 DEF Undo
  <2>2. installed' \in Items
    BY <1>1, <1>6, <2>1
  <2> QED
    BY <1>1, <1>9, <2>2 DEF Undo, SoftwareInv
<1>10. ASSUME NEW n \in Package, ByHand(n) PROVE SoftwareInv'
  <2>1. PICK v \in Version \cup {Null} : installed' = [installed EXCEPT !["system"][n] = v]
    BY <1>3, <1>10 DEF ByHand
  <2> QED
    BY <1>1, <1>10, <2>1 DEF ByHand, SoftwareInv, Items, Source
<1>11. ASSUME NEW p \in sent, SubmitInventory(p) PROVE SoftwareInv'
  <2>1. p.items["extra"] \in [Package -> Version \cup {Null}] /\ p.items["system"] \in [Package -> Version \cup {Null}]
    BY DEF HostInv, InventoryInv, Items, Source
  <2>2. Upserted(p.items) \in [Package -> Version \cup {Null}]
    BY <1>1, <2>1 DEF Upserted
  <2> QED
    BY <1>1, <1>11, <2>2 DEF SubmitInventory, SoftwareInv
<1>12. CASE TakeTask \/ Download \/ DownloadFails \/ TakeSnapshot \/ NoSnapshot \/ ShadowCopy \/ SendInventory
            \/ Reboot \/ Tick \/ ClockBack \/ \E j \in Job : RequestRollback(j)
  BY <1>2, <1>12 DEF TakeTask, Download, DownloadFails, TakeSnapshot, NoSnapshot, ShadowCopy, SendInventory,
                     Reboot, Tick, ClockBack, RequestRollback, hostVars
<1>13. ASSUME NEW p \in sent, ResendInventory(p) \/ GiveUpInventory(p) PROVE SoftwareInv'
  BY <1>2, <1>13 DEF ResendInventory, GiveUpInventory
<1>14. CASE UNCHANGED hostVars
  BY <1>2, <1>14 DEF hostVars
<1> QED
  BY <1>7, <1>8, <1>9, <1>10, <1>11, <1>12, <1>13, <1>14 DEF Next, HostNext, Execute, vars

\* The files of the snapshots, the clock, and the results at the server
LEMMA FileInvStep ==
  ASSUME HostInv, [Next]_vars
  PROVE  FileInv'
<1>1. /\ file \in [0..MaxTime -> (SUBSET Package) \cup {Null}] /\ clock \in 0..MaxTime
      /\ result \in [Job -> {"none", "installing", "success", "failed"}]
      /\ snapshotId \in [Job -> Snapshot] /\ MaxTime \in Nat
  BY HostAssumption DEF HostInv, FileInv
<1>2. CASE UNCHANGED <<file, clock, result, snapshotId>>
  BY <1>1, <1>2 DEF FileInv
<1>3. ASSUME UNCHANGED <<file, clock, snapshotId>>, NEW status \in {"installing", "success", "failed"}, Report(status)
      PROVE  FileInv'
  BY <1>1, <1>3 DEF FileInv, Report
<1>4. CASE DownloadFails \/ NoSnapshot \/ InstallSucceeds \/ InstallFails
  BY <1>3, <1>4 DEF DownloadFails, NoSnapshot, InstallSucceeds, InstallFails
<1>5. CASE TakeSnapshot
  <2>1. Present(installed["system"]) \in SUBSET Package /\ clock \in Snapshot
    BY <1>1 DEF Present, Snapshot
  <2>2. file' \in [0..MaxTime -> (SUBSET Package) \cup {Null}] /\ clock' \in 0..MaxTime
    BY <1>1, <1>5, <2>1 DEF TakeSnapshot
  <2> QED
    BY <1>1, <1>5, <2>1, <2>2 DEF TakeSnapshot, FileInv, Report, Path
<1>6. CASE ShadowCopy
  <2>1. -1 \in Snapshot
    BY <1>1 DEF Snapshot
  <2> QED
    BY <1>1, <1>6, <2>1 DEF ShadowCopy, FileInv, Report
<1>7. CASE Reboot
  BY <1>1, <1>7 DEF Reboot, FileInv
<1>8. CASE Tick \/ ClockBack
  BY <1>1, <1>8 DEF Tick, ClockBack, FileInv
<1>9. CASE TakeTask \/ Download \/ Undo \/ SendInventory
  BY <1>2, <1>9 DEF TakeTask, Download, Undo, SendInventory
<1>10. ASSUME NEW p \in sent, SubmitInventory(p) \/ ResendInventory(p) \/ GiveUpInventory(p) PROVE FileInv'
  BY <1>2, <1>10 DEF SubmitInventory, ResendInventory, GiveUpInventory
<1>11. CASE (\E n \in Package : ByHand(n)) \/ (\E j \in Job : RequestRollback(j))
  BY <1>2, <1>11 DEF ByHand, RequestRollback, hostVars
<1>12. CASE UNCHANGED hostVars
  BY <1>2, <1>12 DEF hostVars
<1> QED
  BY <1>4, <1>5, <1>6, <1>7, <1>8, <1>9, <1>10, <1>11, <1>12 DEF Next, HostNext, Execute, vars

\* The object store and the bounds
LEMMA StoreInvStep ==
  ASSUME CatalogInv, HostInv, [Next]_vars
  PROVE  StoreInv'
<1>1. object \in [Stored -> Content \cup {Null}] /\ budget \in [Fault -> Nat]
  BY DEF HostInv, StoreInv
<1>2. \A f : Spend(f) => budget' \in [Fault -> Nat]
  <2> TAKE f
  <2> HAVE Spend(f)
  <2>1. budget' = [budget EXCEPT ![f] = budget[f] - 1] /\ budget[f] > 0
    BY DEF Spend
  <2>2. CASE f \in Fault
    <3>1. budget[f] - 1 \in Nat
      BY <1>1, <2>1, <2>2
    <3> QED
      BY <1>1, <2>1, <3>1
  <2>3. CASE f \notin Fault
    BY <1>1, <2>1, <2>3
  <2> QED
    BY <2>2, <2>3
<1>3. UNCHANGED object /\ (UNCHANGED budget \/ budget' \in [Fault -> Nat]) => StoreInv'
  BY <1>1 DEF StoreInv
<1>4. ASSUME NEW u \in Upload, UploadFile(u) PROVE StoreInv'
  <2>1. PICK body \in Body[u] : object' = [object EXCEPT ![ObjectName(body)] = body.content]
    BY <1>4 DEF UploadFile
  <2>2. body.content \in Content
    BY CatalogAssumption DEF Form
  <2>3. Spend("upload")
    BY <1>4 DEF UploadFile
  <2> QED
    BY <1>1, <1>2, <2>1, <2>2, <2>3 DEF StoreInv
<1>5. ASSUME NEW u \in Upload,
             Reject(u) \/ SavePatch(u) \/ SelectWatchers(u) \/ QueueJob(u) \/ EndUpload(u)
               \/ UploadFails(u) \/ RetirePatch(u)
      PROVE  StoreInv'
  BY <1>2, <1>3, <1>5 DEF Reject, SavePatch, SelectWatchers, QueueJob, EndUpload, UploadFails, RetirePatch
<1>6. ASSUME NEW u \in Upload, NEW w \in Watcher, SkipWatcher(u, w) \/ SaveDeployment(u, w) \/ Schedule(u, w)
      PROVE  StoreInv'
  BY <1>2, <1>3, <1>6 DEF SkipWatcher, SaveDeployment, Schedule
<1>7. ASSUME NEW w \in Watcher, CreateWatched(w) \/ DeleteWatched(w) PROVE StoreInv'
  BY <1>2, <1>3, <1>7 DEF CreateWatched, DeleteWatched
<1>8. ASSUME NEW i \in DOMAIN task, LinkExpires(i) PROVE StoreInv'
  BY <1>2, <1>3, <1>8 DEF LinkExpires, catalogVars
<1>9. CASE CatalogNext
  BY <1>4, <1>5, <1>6, <1>7, <1>8, <1>9 DEF CatalogNext, CatalogStep
<1>10. CASE HostNext
  <2>1. UNCHANGED object
    BY <1>10, HostLeavesCatalog DEF catalogVars
  <2>2. CASE Execute
    BY <1>2, <1>3, <2>1, <2>2 DEF Execute, TakeTask, Download, DownloadFails, TakeSnapshot, NoSnapshot,
                            ShadowCopy, InstallSucceeds, InstallFails, Undo
  <2>3. CASE SendInventory \/ Reboot \/ Tick \/ ClockBack \/ (\E n \in Package : ByHand(n))
             \/ (\E j \in Job : RequestRollback(j))
    BY <1>2, <1>3, <2>1, <2>3 DEF SendInventory, Reboot, Tick, ClockBack, ByHand, RequestRollback
  <2>4. ASSUME NEW p \in sent, SubmitInventory(p) \/ ResendInventory(p) \/ GiveUpInventory(p) PROVE StoreInv'
    BY <1>2, <1>3, <2>1, <2>4 DEF SubmitInventory, ResendInventory, GiveUpInventory
  <2> QED
    BY <1>10, <2>2, <2>3, <2>4 DEF HostNext
<1>11. CASE UNCHANGED vars
  BY <1>2, <1>3, <1>11 DEF vars, catalogVars
<1> QED
  BY <1>9, <1>10, <1>11 DEF Next

THEOREM HostInvariant == Spec => [](CatalogInv /\ HostInv)
<1>1. Init => CatalogInv /\ HostInv
  BY CatalogInvInit, HostInvInit
<1>2. CatalogInv /\ HostInv /\ [Next]_vars => (CatalogInv /\ HostInv)'
  BY CatalogInvStep, QueueInvStep, AgentInvStep, RanInvStep, InventoryInvStep, SoftwareInvStep,
     FileInvStep, StoreInvStep DEF HostInv
<1> QED
  BY <1>1, <1>2, PTL DEF Spec

\* What the installer runs for a deployment is the file that was uploaded for its
\* patch, whatever was uploaded under the same name meanwhile, and whenever the
\* task is taken up: the hash in the task is that of the request
\* (create_patch_with_file, PMSClient.download_file).
THEOREM InstallsWhatWasUploaded == Spec => []InstalledAsUploaded
<1>1. HostInv => InstalledAsUploaded
  BY DEF HostInv, RanInv, InstalledAsUploaded
<1> QED
  BY <1>1, HostInvariant, PTL

\* Every variable keeps its type, and the agent is in the middle of a task or of
\* an inventory only while there is one.
THEOREM SupplyTypeCorrect == Spec => []TypeOK
<1>1. ASSUME CatalogInv, HostInv PROVE TypeOK
  <2>1. object \in [Stored -> Content \cup {Null}] /\ budget \in [Fault -> Nat]
    BY <1>1 DEF HostInv, StoreInv
  <2>2. ASSUME NEW u \in Upload
        PROVE  /\ patch[u] # Null => patch[u].hash \in Content /\ patch[u].name \in Stored
               /\ upload[u].phase \in {"none", "put", "saved", "each", "queue", "done", "failed"}
               /\ upload[u].todo \subseteq Watcher /\ upload[u].seen \subseteq Watcher
               /\ upload[u].phase \in {"saved", "each", "queue", "done"} => patch[u] # Null
    <3>1. RowAsFilled(u) /\ upload[u] \in Handler /\ CatalogTyped
      BY <1>1 DEF CatalogInv, CatalogTyped
    <3>2. ASSUME patch[u] # Null PROVE patch[u].hash \in Content /\ patch[u].name \in Stored
      <4>1. /\ patch[u] = [RowOf(upload[u].body) EXCEPT !.active = patch[u].active]
            /\ upload[u].phase # "none" /\ patch[u].hash = upload[u].body.content
        BY <3>1, <3>2, RowFields
      <4>2. upload[u].body \in Body[u] /\ upload[u].body \in Form
        BY <3>1, <4>1, CatalogAssumption DEF RowAsFilled
      <4>3. patch[u].name = ObjectName(upload[u].body)
        BY <4>1 DEF RowOf
      <4> QED
        BY <4>1, <4>2, <4>3 DEF Stored, Form
    <3> QED
      BY <3>1, <3>2 DEF RowAsFilled, Handler, Phase
  <2>3. deployment \in [Job -> {"none", "pending", "queued", "scheduled"}]
    BY <1>1 DEF CatalogInv, CatalogTyped
  <2>4. \A i \in DOMAIN task : task[i].kind \in {"install", "rollback"} /\ task[i].job \in Job
    <3>1. task \in Seq(TaskRow)
      BY <1>1 DEF HostInv, QueueInv
    <3>2. \A i \in DOMAIN task : task[i] \in TaskRow
      BY <3>1
    <3> QED
      BY <3>2 DEF TaskRow
  <2>5. installed \in Items /\ table \in [Package -> Seq(Nat \cup Letter) \cup {Null}]
    BY <1>1 DEF HostInv, SoftwareInv, Version
  <2>6. /\ file \in [0..MaxTime -> (SUBSET Package) \cup {Null}] /\ clock \in 0..MaxTime
        /\ result \in [Job -> {"none", "installing", "success", "failed"}]
        /\ snapshotId \in [Job -> (-1)..MaxTime \cup {Null}]
    BY <1>1 DEF HostInv, FileInv, Snapshot
  <2>7. /\ agent.phase \in {"idle", "download", "snapshot", "install", "undo", "inventory"}
        /\ agent.phase \notin {"idle", "inventory"} => task # <<>>
    BY <1>1 DEF HostInv, AgentInv
  <2>8. /\ \A p \in sent : p.items \in Items
        /\ agent.phase = "inventory" <=> \E p \in sent : ~p.late
    BY <1>1 DEF HostInv, InventoryInv
  <2> QED
    BY <2>1, <2>2, <2>3, <2>4, <2>5, <2>6, <2>7, <2>8 DEF TypeOK
<1> QED
  BY <1>1, HostInvariant, PTL

-----------------------------------------------------------------------------
(* Snapshots *)

\* A snapshot that a job has is the file of its second; only the first snapshot
\* of a second is still what its job found, if a restart has not removed it.
SnapshotInv ==
  /\ DOMAIN before = Job /\ taken \in [0..MaxTime -> 0..2]
  /\ \A j \in Job : before[j] # Null =>
       /\ platform = "debian"
       /\ before[j].at \in 0..MaxTime /\ snapshotId[j] = before[j].at
       /\ taken[before[j].at] # 0
       /\ taken[before[j].at] = 1 => file[before[j].at] \in {Null, before[j].names}

LEMMA SnapshotInvInit ==
  ASSUME Init
  PROVE  SnapshotInv
<1>1. PICK world \in World : HostInit(world)
  BY DEF Init
<1>2. before = [j \in Job |-> Null] /\ taken = [t \in 0..MaxTime |-> 0]
  BY <1>1 DEF HostInit
<1>3. taken \in [0..MaxTime -> 0..2]
  BY <1>2
<1> QED
  BY <1>2, <1>3 DEF SnapshotInv

\* The new file is the only one of its second, or the second is not looked at.
LEMMA TakeSnapshotKeeps ==
  ASSUME HostInv, SnapshotInv, TakeSnapshot
  PROVE  SnapshotInv'
<1> DEFINE names == Present(installed["system"])
           mine  == Head(task).job
<1>1. /\ task \in Seq(TaskRow) /\ task # <<>> /\ clock \in 0..MaxTime
      /\ file \in [0..MaxTime -> (SUBSET Package) \cup {Null}] /\ snapshotId \in [Job -> Snapshot]
  BY DEF HostInv, QueueInv, AgentInv, FileInv, TakeSnapshot
<1>2. Head(task) \in TaskRow /\ mine \in Job
  <2>1. Head(task) \in TaskRow
    BY <1>1
  <2> QED
    BY <2>1 DEF TaskRow
<1>3. PICK n : n = names
  OBVIOUS
<1>4. PICK m \in Job : m = mine
  BY <1>2
<1>5. /\ platform = "debian" /\ platform' = platform /\ clock' = clock
      /\ file' = [file EXCEPT ![clock] = n] /\ snapshotId' = [snapshotId EXCEPT ![m] = clock]
      /\ before' = [before EXCEPT ![m] = [names |-> n, at |-> clock]]
      /\ taken' = [taken EXCEPT ![clock] = IF taken[clock] = 0 THEN 1 ELSE 2]
  BY <1>3, <1>4 DEF TakeSnapshot, Path
<1> HIDE DEF names, mine
<1>6. DOMAIN before' = Job /\ taken' \in [0..MaxTime -> 0..2]
  <2>1. PICK k \in {1, 2} : taken' = [taken EXCEPT ![clock] = k]
    BY <1>5
  <2>2. taken \in [0..MaxTime -> 0..2] /\ k \in 0..2
    BY DEF SnapshotInv
  <2>3. taken' \in [0..MaxTime -> 0..2]
    BY <2>1, <2>2
  <2>4. DOMAIN before' = Job
    BY <1>5 DEF SnapshotInv
  <2> QED
    BY <2>3, <2>4
<1>7. /\ before'[m].at = clock /\ before'[m].names = n /\ snapshotId'[m] = clock
      /\ file'[clock] = n /\ taken'[clock] \in {1, 2}
  BY <1>1, <1>5 DEF SnapshotInv
<1>8. ASSUME NEW j \in Job, j # m, before'[j] # Null
      PROVE  /\ before'[j].at \in 0..MaxTime /\ snapshotId'[j] = before'[j].at
             /\ taken'[before'[j].at] # 0
             /\ taken'[before'[j].at] = 1 => file'[before'[j].at] \in {Null, before'[j].names}
  <2>1. before'[j] = before[j] /\ snapshotId'[j] = snapshotId[j]
    BY <1>1, <1>5, <1>8 DEF SnapshotInv
  <2>2. /\ before[j].at \in 0..MaxTime /\ snapshotId[j] = before[j].at
        /\ taken[before[j].at] # 0
        /\ taken[before[j].at] = 1 => file[before[j].at] \in {Null, before[j].names}
    BY <1>8, <2>1 DEF SnapshotInv
  <2>3. CASE before[j].at = clock
    <3>1. taken'[clock] = 2
      BY <1>1, <1>5, <2>2, <2>3 DEF SnapshotInv
    <3> QED
      BY <2>1, <2>2, <2>3, <3>1
  <2>4. CASE before[j].at # clock
    <3>1. taken'[before[j].at] = taken[before[j].at] /\ file'[before[j].at] = file[before[j].at]
      BY <1>1, <1>5, <2>2, <2>4 DEF SnapshotInv
    <3> QED
      BY <2>1, <2>2, <3>1
  <2> QED
    BY <2>3, <2>4
<1> QED
  BY <1>1, <1>5, <1>6, <1>7, <1>8 DEF SnapshotInv

LEMMA SnapshotInvStep ==
  ASSUME HostInv, SnapshotInv, [Next]_vars
  PROVE  SnapshotInv'
<1>1. CASE UNCHANGED <<platform, before, taken, file, snapshotId>>
  BY <1>1 DEF SnapshotInv
<1>2. CASE TakeSnapshot
  BY <1>2, TakeSnapshotKeeps
<1>3. CASE ShadowCopy
  BY <1>3 DEF ShadowCopy, SnapshotInv, histVars
<1>4. CASE Reboot
  <2>1. UNCHANGED <<platform, before, taken, snapshotId>> /\ \A t \in 0..MaxTime : file'[t] = Null
    BY <1>4 DEF Reboot, histVars
  <2> QED
    BY <2>1 DEF SnapshotInv
<1>5. CASE TakeTask \/ Download \/ DownloadFails \/ NoSnapshot \/ InstallSucceeds \/ InstallFails \/ Undo
  BY <1>1, <1>5 DEF TakeTask, Download, DownloadFails, NoSnapshot, InstallSucceeds, InstallFails, Undo, histVars
<1>6. CASE SendInventory \/ Tick \/ ClockBack \/ (\E n \in Package : ByHand(n))
           \/ (\E j \in Job : RequestRollback(j))
  BY <1>1, <1>6 DEF SendInventory, Tick, ClockBack, ByHand, RequestRollback, hostVars, histVars
<1>7. ASSUME NEW p \in sent, SubmitInventory(p) \/ ResendInventory(p) \/ GiveUpInventory(p)
      PROVE  SnapshotInv'
  BY <1>1, <1>7 DEF SubmitInventory, ResendInventory, GiveUpInventory, histVars
<1>8. CASE UNCHANGED <<hostVars, histVars>>
  BY <1>1, <1>8 DEF hostVars, histVars
<1> QED
  BY <1>2, <1>3, <1>4, <1>5, <1>6, <1>7, <1>8 DEF Next, HostNext, Execute, vars

\* A file that a result names is gone, or lists the packages of the moment it was
\* taken for, unless there was another snapshot in the same second of local time:
\* neither the snapshots of other jobs nor a clock that goes back can put other
\* packages into it (create_snapshot, restore_snapshot).
THEOREM SnapshotsKeptApart == Spec => []SnapshotsApart
<1>1. SnapshotInv => SnapshotsApart
  BY DEF SnapshotInv, SnapshotsApart
<1>2. Init => SnapshotInv
  BY SnapshotInvInit
<1>3. HostInv /\ SnapshotInv /\ [Next]_vars => SnapshotInv'
  BY SnapshotInvStep
<1> QED
  BY <1>1, <1>2, <1>3, HostInvariant, PTL DEF Spec

-----------------------------------------------------------------------------
(* Compliance *)

\* An inventory that nothing newer has overtaken is the last one, and a table
\* that is fresh has what it says, the second source first.
TruthInv ==
  /\ \A p \in sent : ~p.old => p.items = last
  /\ fresh => /\ last \in Items
              /\ \A n \in Package :
                   /\ last["extra"][n] # Null => table[n] = last["extra"][n]
                   /\ last["extra"][n] = Null /\ last["system"][n] # Null => table[n] = last["system"][n]

\* The copies of an inventory that are made have its items.
LEMMA LateCopy ==
  ASSUME InventoryInv
  PROVE  /\ \A p \in sent : [p EXCEPT !.late = TRUE].items = p.items
         /\ \A p \in sent : [p EXCEPT !.late = TRUE].old = p.old
         /\ \A p \in sent : [p EXCEPT !.old = TRUE].old = TRUE
BY DEF InventoryInv

LEMMA TruthInvStep ==
  ASSUME HostInv, TruthInv, [Next]_vars
  PROVE  TruthInv'
<1>1. InventoryInv
  BY DEF HostInv
<1>2. CASE UNCHANGED <<sent, last, fresh, table>>
  BY <1>2 DEF TruthInv
<1>3. CASE SendInventory
  <2>1. /\ fresh' = FALSE
        /\ sent' = {[p EXCEPT !.old = TRUE] : p \in sent} \cup {Inventory(last')}
    BY <1>3 DEF SendInventory
  <2>2. ASSUME NEW q \in sent', ~q.old PROVE q.items = last'
    <3>1. \A p \in sent : q # [p EXCEPT !.old = TRUE]
      BY <1>1, <2>2, LateCopy
    <3>2. q = Inventory(last')
      BY <2>1, <3>1
    <3> QED
      BY <3>2 DEF Inventory
  <2> QED
    BY <2>1, <2>2 DEF TruthInv
<1>4. ASSUME NEW p \in sent, SubmitInventory(p) PROVE TruthInv'
  <2>1. /\ table' = Upserted(p.items) /\ sent' = sent \ {p} /\ fresh' = ~p.old /\ UNCHANGED last
    BY <1>4 DEF SubmitInventory
  <2>2. p.items \in Items
    BY <1>1 DEF InventoryInv
  <2>3. ASSUME ~p.old
        PROVE  /\ last \in Items
               /\ \A n \in Package :
                    /\ last["extra"][n] # Null => table'[n] = last["extra"][n]
                    /\ last["extra"][n] = Null /\ last["system"][n] # Null => table'[n] = last["system"][n]
    <3>1. p.items = last
      BY <2>3 DEF TruthInv
    <3> QED
      BY <2>1, <2>2, <3>1 DEF Upserted
  <2> QED
    BY <2>1, <2>3 DEF TruthInv
<1>5. ASSUME NEW p \in sent, ResendInventory(p) PROVE TruthInv'
  <2>1. PICK copy : copy = [p EXCEPT !.late = TRUE]
    OBVIOUS
  <2>2. sent' = sent \cup {copy} /\ UNCHANGED <<last, fresh, table>>
    BY <1>5, <2>1 DEF ResendInventory, histVars
  <2>3. copy.items = p.items /\ copy.old = p.old
    BY <1>1, <2>1, LateCopy
  <2> QED
    BY <2>2, <2>3 DEF TruthInv
<1>6. ASSUME NEW p \in sent, GiveUpInventory(p) PROVE TruthInv'
  BY <1>6 DEF GiveUpInventory, TruthInv, histVars
<1>7. CASE Reboot
  <2>1. sent' = {[p EXCEPT !.late = TRUE] : p \in sent} /\ UNCHANGED <<last, fresh, table>>
    BY <1>7 DEF Reboot, histVars
  <2>2. ASSUME NEW q \in sent', ~q.old PROVE q.items = last'
    <3>1. PICK p \in sent : q = [p EXCEPT !.late = TRUE]
      BY <2>1
    <3>2. q.items = p.items /\ q.old = p.old
      BY <1>1, <3>1, LateCopy
    <3> QED
      BY <2>1, <2>2, <3>2 DEF TruthInv
  <2> QED
    BY <2>1, <2>2 DEF TruthInv
<1>8. CASE Execute
  BY <1>2, <1>8 DEF Execute, TakeTask, Download, DownloadFails, TakeSnapshot, NoSnapshot, ShadowCopy,
                    InstallSucceeds, InstallFails, Undo, histVars
<1>9. CASE Tick \/ ClockBack \/ (\E n \in Package : ByHand(n)) \/ (\E j \in Job : RequestRollback(j))
  BY <1>2, <1>9 DEF Tick, ClockBack, ByHand, RequestRollback, hostVars, histVars
<1>10. CASE UNCHANGED <<hostVars, histVars>>
  BY <1>2, <1>10 DEF hostVars, histVars
<1> QED
  BY <1>3, <1>4, <1>5, <1>6, <1>7, <1>8, <1>9, <1>10 DEF Next, HostNext, vars

\* What a verdict tells of versions that the first number that differs decides.
LEMMA VerdictTells ==
  ASSUME NEW v, NEW required, IsVersion(v), IsVersion(required)
  PROVE  Tells(Judged(v, required), v, required)
<1>1. /\ VersionLess(v, required) => Judged(v, required) = "missing"
      /\ ~VersionLess(v, required) /\ VersionLess(required, v) => Judged(v, required) = "newer"
      /\ ~VersionLess(v, required) /\ ~VersionLess(required, v) => Judged(v, required) = "compliant"
  BY VersionsAssumption DEF Judged, CompareVersions, IsVersion
<1>2. v = required => ~VersionLess(v, required) /\ ~VersionLess(required, v)
  BY NotOlderBothWays
<1>3. ASSUME NEW i \in DOMAIN v, Decides(v, required, i)
      PROVE  Judged(v, required) = IF v[i] < required[i] THEN "missing" ELSE "newer"
  <2>1. /\ i \in DOMAIN v /\ i \in DOMAIN required /\ v[i] # required[i]
        /\ v[i] \notin Letter /\ required[i] \notin Letter
    <3>1. i \in 1..i
      BY VersionFacts
    <3> QED
      BY <1>3, <3>1 DEF Decides
  <2>2. v[i] \in Nat /\ required[i] \in Nat
    BY <2>1, VersionFacts
  <2>3. VersionLess(v, required) <=> v[i] < required[i]
    BY <1>3, FirstDifferenceDecides
  <2>4. Decides(required, v, i)
    BY <1>3 DEF Decides
  <2>5. VersionLess(required, v) <=> required[i] < v[i]
    BY <2>4, FirstDifferenceDecides
  <2> QED
    BY <1>1, <2>1, <2>2, <2>3, <2>5
<1> QED
  BY <1>1, <1>2, <1>3 DEF Tells

\* The verdict of an endpoint is the truth about its last inventory, once that is
\* in the table, whatever inventories are on their way, were sent twice, came late
\* or were given up: the same version is compliant, and if a number is the first
\* difference to the patch it decides, in versions of any length, with or without
\* letters (submit_inventory, get_endpoint_compliance, compare_versions).
THEOREM ComplianceIsTrue == Spec => []ComplianceTruth
<1>1. ASSUME CatalogInv, TruthInv PROVE ComplianceTruth
  <2> SUFFICES ASSUME NEW u \in Upload, fresh, patch[u] # Null, patch[u].active,
                      NEW n, n = NameOf[patch[u].product], NEW s \in Source, last[s][n] # Null,
                      \A r \in Source : last[r][n] # Null => r = s
               PROVE  /\ Verdict(u) = Judged(last[s][n], patch[u].version)
                      /\ Tells(Verdict(u), last[s][n], patch[u].version)
    BY DEF ComplianceTruth
  <2>1. n \in Package /\ IsVersion(patch[u].version)
    <3>1. /\ patch[u].product \in Product /\ upload[u].phase # "none"
          /\ patch[u] = [RowOf(upload[u].body) EXCEPT !.active = patch[u].active]
      BY <1>1, RowFields DEF CatalogInv
    <3>2. upload[u].body \in Form
      BY <1>1, <3>1, CatalogAssumption DEF CatalogInv, RowAsFilled
    <3>3. patch[u].version = upload[u].body.version
      BY <3>1 DEF RowOf
    <3> QED
      BY <3>1, <3>2, <3>3, SupplyAssumption DEF Form, IsVersion
  <2>2. table[n] = last[s][n] /\ IsVersion(last[s][n])
    BY <1>1, <2>1 DEF TruthInv, Source, Items, IsVersion
  <2>3. Verdict(u) = Judged(last[s][n], patch[u].version)
    BY <2>2 DEF Verdict, VersionOf
  <2>4. Tells(Judged(last[s][n], patch[u].version), last[s][n], patch[u].version)
    BY <2>1, <2>2, VerdictTells
  <2> QED
    BY <2>3, <2>4
<1>2. Init => TruthInv
  BY DEF Init, HostInit, TruthInv
<1>3. HostInv /\ TruthInv /\ [Next]_vars => TruthInv'
  BY TruthInvStep
<1> QED
  BY <1>1, <1>2, <1>3, HostInvariant, PTL DEF Spec
=============================================================================
