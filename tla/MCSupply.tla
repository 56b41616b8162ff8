------------------------------ MODULE MCSupply ------------------------------
(* An instance of Supply for TLC. *)
EXTENDS Supply, TLC

CONSTANTS a, b, c1, c2, app, addon, sec, opt, x

\* Versions of different length, of which the numbers and the text differ in order
Old  == <<1, 9, 5>>
New  == <<1, 10>>
Rev  == <<1, x>>

\* The second upload crosses the first with another file under the same name, or
\* is of another version, not a number, or is refused.
Filled(content, version, type, valid) ==
  [product |-> a, version |-> version, file |-> "f", content |-> content, type |-> type, valid |-> valid]

Bodies == <<{Filled(c1, New, sec, TRUE)},
            {Filled(c2, New, sec, TRUE), Filled(c2, Rev, opt, TRUE), Filled(c2, New, sec, FALSE)}>>

Watches(product, types) == [product |-> product, types |-> types, active |-> TRUE]
Watch1 == {[product |-> a, types |-> {sec}]}

Carries == [c \in Content |-> IF c = c1 THEN [package |-> app, version |-> New]
                                        ELSE [package |-> app, version |-> Rev]]

\* The product is there in an old version, as a package of the second source as
\* well, or not at all; its add-on comes from the repository.
On(v, e) == ("system" :> (app :> v @@ addon :> Old)) @@ ("extra" :> (app :> e @@ addon :> Null))

Repository == app :> Null @@ addon :> New

Names == [p \in Product |-> IF p = a THEN app ELSE addon]
Slugs == [p \in Product |-> addon]
Holds == [p \in Product |-> IF p = a THEN {app, addon} ELSE {addon}]

None   == [f \in Fault |-> 0]
With(base, F) == {[base EXCEPT ![f] = @ + 1] : f \in F}

\* Uploads that cross, with watchers that come and go
Crossing(f, wa) ==
  [budget |-> [None EXCEPT !["upload"] = 2, ![f] = 1], watched |-> wa, platform |-> "debian",
   software |-> On(Old, Null)]

Uploads ==
  {Crossing(f, <<Watches(a, {sec}), Watches(a, {opt})>>) : f \in {"unwatch", "server", "retire"}}
  \cup {Crossing("watch", <<Watches(b, {sec}), NoWatch>>)}

\* One upload, two deployments, and what goes wrong on the host; on the other
\* platforms and with a second source only what is different there
Hosted(bu, pl, so) ==
  [budget |-> bu, watched |-> <<Watches(a, {sec}), Watches(a, {sec})>>, platform |-> pl,
   software |-> so]

One       == [None EXCEPT !["upload"] = 1]
Mishaps   == With([One EXCEPT !["tick"] = 1], {"expire", "host", "hand", "clock", "reboot"})
Rollbacks == With([One EXCEPT !["installer"] = 1], {"host", "rollback"})

Hosts ==
  {Hosted(bu, "debian", On(Old, Null)) : bu \in Mishaps \cup Rollbacks}
  \cup {Hosted(bu, "debian", On(Old, Rev)) : bu \in With(One, {"host", "hand"})}
  \cup {Hosted(bu, "rpm", On(Null, Null)) : bu \in With(One, {"host"}) \cup Rollbacks}
  \cup {Hosted(bu, "windows", On(Old, Null)) : bu \in With(One, {"hand"}) \cup Rollbacks}

Worlds == Uploads \cup Hosts

\* One upload, and somebody updates a package by hand
ByHandOnly == {Hosted(bu, "debian", On(Old, Null)) : bu \in With(One, {"hand"})}
=============================================================================
