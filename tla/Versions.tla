------------------------------ MODULE Versions ------------------------------
(***************************************************************************)
(* compare_versions of app/services/compliance.py.  A version is the       *)
(* sequence of its segments; a segment is a number or, when it is not one, *)
(* a member of Letter.                                                     *)
(***************************************************************************)
EXTENDS Integers, Sequences

CONSTANTS Letter,  \* segments that int() does not take
          Null     \* no version

ASSUME VersionsAssumption == Letter \cap Int = {} /\ Null \notin Seq(Nat \cup Letter)

IsVersion(v) == v \in Seq(Nat \cup Letter)

Numeric(v) == \A i \in DOMAIN v : v[i] \notin Letter

\* Defect: segments are compared as text, by the first digit.
SegmentAsText(v, i) ==
  IF i \in DOMAIN v THEN (IF v[i] > 9 THEN v[i] \div 10 ELSE v[i]) ELSE 0

\* packaging.version: missing segments are zeros.  It takes numeric versions
\* only; the rest of PEP 440 is left out.
Segment(v, i) == IF i \in DOMAIN v THEN v[i] ELSE 0

ReleaseLess(v, w) ==
  \E i \in DOMAIN v \cup DOMAIN w :
    Segment(v, i) < Segment(w, i) /\ \A j \in 1..(i - 1) : Segment(v, j) = Segment(w, j)

\* _version_tuple
VersionTuple(v) == [i \in DOMAIN v |-> IF v[i] \in Letter THEN 0 ELSE v[i]]

\* Tuples are compared segment by segment, and a prefix is less.
TupleLess(v, w) ==
  \/ \E i \in DOMAIN v \cap DOMAIN w : v[i] < w[i] /\ \A j \in 1..(i - 1) : v[j] = w[j]
  \/ Len(v) < Len(w) /\ \A j \in DOMAIN v : v[j] = w[j]

VersionLess(v, w) ==
  IF Numeric(v) /\ Numeric(w) THEN ReleaseLess(v, w)
  ELSE TupleLess(VersionTuple(v), VersionTuple(w))

CompareVersions(installed, required) ==
  CASE installed = Null -> -1
    [] installed # Null /\ required = Null -> 0
    [] installed # Null /\ required # Null ->
         IF VersionLess(installed, required) THEN -1
         ELSE IF VersionLess(required, installed) THEN 1 ELSE 0

-----------------------------------------------------------------------------
\* What a comparison has to respect: the first segments that differ decide, if
\* they are numbers and everything before them is.
Decides(v, w, i) ==
  /\ i \in DOMAIN v \cap DOMAIN w
  /\ \A j \in 1..i : v[j] \notin Letter /\ w[j] \notin Letter
  /\ \A j \in 1..(i - 1) : v[j] = w[j]
  /\ v[i] # w[i]
=============================================================================
