---------------------------- MODULE SessionsProofs ----------------------------
(***************************************************************************)
(* Sessions, for any number of server processes, tabs, requests and logins.*)
(***************************************************************************)
EXTENDS Sessions, FiniteSetTheorems, FunctionTheorems, TLAPS

\* What tabs and requests hold was handed out, by a login that took place.
SInv ==
  /\ TypeOK
  /\ store \in 0..pairs /\ tab \in [Tab -> 0..pairs] /\ entry \in [Tab -> 0..pairs]
  /\ \A n \in 1..pairs : LoginOf(n) \in 1..logins

LEMMA Bounds ==
  ASSUME TypeOK
  PROVE  /\ pairs \in Nat /\ MaxPair \in Nat /\ pairs <= MaxPair /\ logins \in Nat
         /\ MaxLogins \in Nat /\ logins <= MaxLogins
         /\ 0..pairs \subseteq Pair \cup {NoPair} /\ 1..pairs \subseteq Pair /\ 1..logins \subseteq Login
         /\ \A n \in 0..pairs : n # NoPair => n \in 1..pairs
BY SessionsAssumption DEF TypeOK, Pair, NoPair, Login

LEMMA BudgetSpent ==
  ASSUME TypeOK, NEW f \in Fault, Spend(f)
  PROVE  budget' \in [Fault -> Nat]
BY DEF TypeOK, Spend

-----------------------------------------------------------------------------
(* Requests *)

LEMMA QuietFacts == Quiet \in Request /\ Carries(Quiet) /\ Quiet.at = "idle"
BY DEF Quiet, Request, Carries, Pair, NoPair

LEMMA SentFacts ==
  ASSUME TypeOK, NEW n \in 1..pairs
  PROVE  LET q == [Quiet EXCEPT !.at = "sent", !.access = n] IN
           q \in Request /\ Carries(q) /\ q.at = "sent"
<1>1. n \in Pair
  BY Bounds
<1> QED
  BY <1>1 DEF Quiet, Request, Carries, Pair, NoPair

At == {"idle", "sent", "denied", "renew", "known", "spent", "stored", "refused"}

LEMMA AtFacts ==
  ASSUME NEW q \in Request, NEW s \in At
  PROVE  LET p == [q EXCEPT !.at = s] IN
           p \in Request /\ p.at = s /\ p.access = q.access /\ p.token = q.token /\ p.new = q.new
BY DEF Request, At

LEMMA TokenFacts ==
  ASSUME NEW q \in Request, NEW n \in Pair
  PROVE  LET p == [q EXCEPT !.at = "renew", !.token = n] IN
           p \in Request /\ p.at = "renew" /\ p.access = q.access /\ p.token = n /\ p.new = q.new
BY DEF Request

LEMMA NewFacts ==
  ASSUME NEW q \in Request, NEW n \in Pair
  PROVE  LET p == [q EXCEPT !.at = "stored", !.new = n] IN
           p \in Request /\ p.at = "stored" /\ p.access = q.access /\ p.token = q.token /\ p.new = n
BY DEF Request

-----------------------------------------------------------------------------
(* Types *)

LEMMA SInvInit == Init => SInv
<1> SUFFICES ASSUME Init PROVE SInv
  OBVIOUS
<1>1. pairs = 0 /\ logins = 0 /\ 0 \in 0..0 /\ 0 \in Nat /\ MaxPair \in Nat /\ MaxLogins \in Nat
  BY SessionsAssumption DEF Init
<1>2. private \in Worker \cup {NoKey} /\ public \in Worker \cup {NoKey}
  BY SessionsAssumption DEF Init
<1>3. boot \in [Worker -> {"start", "make", "half", "up"}]
  BY DEF Init
<1>4. req \in [Req -> Request] /\ \A r \in Req : Carries(req[r])
  BY QuietFacts DEF Init
<1>5. minted \in [Pair -> Minted]
  <2>1. [login |-> 0, key |-> NoKey] \in Minted
    BY <1>1 DEF Minted
  <2> QED
    BY <2>1 DEF Init
<1>6. TypeOK
  <2>1. /\ active \in BOOLEAN /\ pairs \in 0..MaxPair /\ logins \in 0..MaxLogins
        /\ keys \subseteq 1..pairs /\ fresh \subseteq 1..pairs
    BY <1>1 DEF Init
  <2>2. /\ store \in Pair \cup {NoPair} /\ tab \in [Tab -> Pair \cup {NoPair}]
        /\ entry \in [Tab -> Pair \cup {NoPair}]
        /\ crossed \in BOOLEAN /\ ended \subseteq Pair /\ closed \subseteq Login
        /\ overlap \in [Login -> Nat] /\ presented \in [Pair -> Nat] /\ budget \in [Fault -> Nat]
    BY SessionsAssumption DEF Init
  <2> QED
    BY <1>2, <1>3, <1>4, <1>5, <2>1, <2>2 DEF TypeOK
<1> QED
  BY <1>1, <1>6 DEF Init, SInv, NoPair

\* The steps of the processes at their start
LEMMA BootKeepsSInv ==
  ASSUME SInv, NEW w \in Worker, Boot(w) \/ BootDies(w)
  PROVE  SInv'
<1>1. /\ UNCHANGED <<active, keys, fresh, minted, pairs, logins, store, tab, entry, req,
                     overlap, presented, ended, closed>>
      /\ private' \in {private, w} /\ public' \in {public, w}
  BY DEF Boot, BootCheck, BootPrivate, BootPublic, BootDies, dashVars, historyVars
<1>2. budget' \in [Fault -> Nat]
  <2>1. budget' = budget \/ Spend("die")
    BY DEF Boot, BootCheck, BootPrivate, BootPublic, BootDies
  <2> QED
    BY <2>1, BudgetSpent DEF SInv, TypeOK, Fault
<1>3. boot' \in [Worker -> {"start", "make", "half", "up"}]
  BY DEF SInv, TypeOK, Boot, BootCheck, BootPrivate, BootPublic, BootDies
<1>4. crossed' \in BOOLEAN
  BY DEF SInv, TypeOK, Boot, BootCheck, BootPrivate, BootPublic, BootDies
<1> QED
  BY <1>1, <1>2, <1>3, <1>4 DEF SInv, TypeOK, Carries, LoginOf

\* Steps that hand no pair out
LEMMA PlainKeepsSInv ==
  ASSUME SInv, UNCHANGED <<boot, private, public, crossed, minted, pairs, logins>>,
         budget' \in [Fault -> Nat], keys' \subseteq keys, fresh' \subseteq fresh, active' \in BOOLEAN,
         store' \in 0..pairs, tab' \in [Tab -> 0..pairs], entry' \in [Tab -> 0..pairs],
         req' \in [Req -> Request], \A r \in Req : Carries(req'[r]),
         ended' \subseteq Pair, closed' \subseteq Login,
         overlap' \in [Login -> Nat], presented' \in [Pair -> Nat]
  PROVE  SInv'
<1>1. 0..pairs \subseteq Pair \cup {NoPair}
  BY Bounds DEF SInv
<1>2. \A r \in Req : Carries(req[r])'
  BY DEF Carries
<1> QED
  BY <1>1, <1>2 DEF SInv, TypeOK, LoginOf

\* Steps that hand a pair out
LEMMA MintKeepsSInv ==
  ASSUME SInv, NEW l \in 1..logins', Mint(l), logins' \in {logins, logins + 1}, logins' <= MaxLogins,
         UNCHANGED <<boot, private, public, crossed, active, store, tab, ended, closed, overlap,
                     presented, budget>>,
         keys' = keys \cup {pairs + 1}, entry' \in [Tab -> 0..(pairs + 1)],
         req' \in [Req -> Request], \A r \in Req : Carries(req[r])'
  PROVE  SInv' /\ \A n \in 1..pairs : LoginOf(n)' = LoginOf(n)
<1>1. /\ pairs < MaxPair /\ pairs' = pairs + 1 /\ fresh' = fresh \cup {pairs + 1}
      /\ minted' = [minted EXCEPT ![pairs + 1] = [login |-> l, key |-> private]]
  BY DEF Mint
<1>2. /\ pairs \in Nat /\ MaxPair \in Nat /\ logins \in Nat /\ MaxLogins \in Nat /\ TypeOK
      /\ minted \in [Pair -> Minted] /\ keys \subseteq 1..pairs /\ fresh \subseteq 1..pairs
  BY Bounds DEF SInv, TypeOK
<1>3. pairs' \in 0..MaxPair /\ logins' \in 0..MaxLogins /\ pairs + 1 \in 1..pairs' /\ pairs + 1 \in Pair
  BY <1>1, <1>2 DEF Pair
<1>4. 1..pairs \subseteq 1..pairs' /\ 0..pairs \subseteq 0..pairs' /\ 0..pairs' \subseteq Pair \cup {NoPair}
  BY <1>1, <1>2 DEF Pair, NoPair
<1>5. minted' \in [Pair -> Minted] /\ minted'[pairs + 1].login = l
  <2>1. [login |-> l, key |-> private] \in Minted
    <3>1. l \in 0..MaxLogins
      BY <1>2, <1>3
    <3>2. private \in Worker \cup {NoKey}
      BY DEF SInv, TypeOK
    <3> QED
      BY <3>1, <3>2 DEF Minted
  <2> QED
    BY <1>1, <1>2, <1>3, <2>1
<1>6. \A n \in 1..pairs : minted'[n] = minted[n]
  <2>1. \A n \in 1..pairs : n \in Pair /\ n # pairs + 1
    BY <1>1, <1>2 DEF Pair
  <2> QED
    BY <1>1, <1>2, <2>1
<1>7. \A n \in 1..pairs' : n \in 1..pairs \/ n = pairs + 1
  BY <1>1, <1>2
<1>8. \A n \in 1..pairs' : LoginOf(n)' \in 1..logins'
  <2>1. 1..logins \subseteq 1..logins'
    BY <1>2
  <2> QED
    BY <1>5, <1>6, <1>7, <2>1 DEF LoginOf, SInv
<1>9. keys' \subseteq 1..pairs' /\ fresh' \subseteq 1..pairs'
  BY <1>1, <1>2, <1>3, <1>4
<1>10. store' \in 0..pairs' /\ tab' \in [Tab -> 0..pairs'] /\ entry' \in [Tab -> 0..pairs']
  BY <1>1, <1>4 DEF SInv
<1>11. TypeOK'
  BY <1>3, <1>4, <1>5, <1>9, <1>10 DEF SInv, TypeOK
<1> QED
  BY <1>6, <1>8, <1>10, <1>11 DEF SInv, LoginOf

\* What the tabs do
LEMMA TabKeepsSInv ==
  ASSUME SInv, NEW t \in Tab, LoginStore(t) \/ LoginAnswer(t) \/ LoginFails(t) \/ Open(t) \/ Leave(t)
  PROVE  SInv'
<1>1. /\ store \in 0..pairs /\ tab \in [Tab -> 0..pairs] /\ entry \in [Tab -> 0..pairs]
      /\ pairs \in Nat /\ logins \in Nat /\ MaxLogins \in Nat /\ logins <= MaxLogins
  BY Bounds DEF SInv
<1>2. /\ UNCHANGED <<boot, private, public, crossed, active, req, overlap, presented, ended, closed>>
  BY DEF LoginStore, LoginAnswer, LoginFails, Open, Leave, serverVars, historyVars
<1>3. budget' \in [Fault -> Nat]
  <2>1. budget' = budget \/ \E f \in Fault : Spend(f)
    BY DEF LoginStore, LoginAnswer, LoginFails, Open, Leave, Fault
  <2> QED
    BY <2>1, BudgetSpent DEF SInv, TypeOK
<1>4. NoPair \in 0..pairs /\ (\A r \in Req : Carries(req[r])) /\ req \in [Req -> Request]
  BY <1>1 DEF NoPair, SInv, TypeOK
<1>5. CASE LoginStore(t)
  <2>1. /\ logins < MaxLogins /\ Mint(logins + 1) /\ logins' = logins + 1 /\ keys' = keys \cup {pairs + 1}
        /\ entry' = [entry EXCEPT ![t] = pairs + 1] /\ UNCHANGED <<store, tab, budget>>
    BY <1>5 DEF LoginStore, dashVars
  <2>2. /\ logins + 1 \in 1..logins' /\ logins' \in {logins, logins + 1} /\ logins' <= MaxLogins
        /\ entry' \in [Tab -> 0..(pairs + 1)]
    <3>1. 0..pairs \subseteq 0..(pairs + 1) /\ pairs + 1 \in 0..(pairs + 1)
      BY <1>1
    <3> QED
      BY <1>1, <2>1, <3>1
  <2>3. req' \in [Req -> Request] /\ \A r \in Req : Carries(req[r])'
    <3>1. pairs' = pairs + 1 /\ 1..pairs \subseteq 1..pairs'
      BY <1>1, <2>1 DEF Mint
    <3> QED
      BY <1>2, <1>4, <3>1 DEF Carries
  <2> QED
    BY <1>2, <2>1, <2>2, <2>3, MintKeepsSInv
<1>6. CASE ~LoginStore(t)
  <2>1. UNCHANGED <<keys, fresh, minted, pairs, logins>>
    BY <1>6 DEF LoginAnswer, LoginFails, Open, Leave
  <2>2. store' \in {store, entry[t], NoPair} /\ store' \in 0..pairs
    <3>1. store' \in {store, entry[t], NoPair}
      BY <1>6 DEF LoginAnswer, LoginFails, Open, Leave, Forget, dashVars
    <3> QED
      BY <1>1, <1>4, <3>1
  <2>3. tab' \in [Tab -> 0..pairs]
    <3>1. tab' = tab \/ \E n \in 0..pairs : tab' = [tab EXCEPT ![t] = n]
      BY <1>1, <1>4, <1>6 DEF LoginAnswer, LoginFails, Open, Leave, Forget, dashVars
    <3> QED
      BY <1>1, <3>1
  <2>4. entry' \in [Tab -> 0..pairs]
    <3>1. entry' = entry \/ entry' = [entry EXCEPT ![t] = NoPair]
      BY <1>6 DEF LoginAnswer, LoginFails, Open, Leave
    <3> QED
      BY <1>1, <1>4, <3>1
  <2>5. /\ active' \in BOOLEAN /\ req' \in [Req -> Request] /\ (\A r \in Req : Carries(req'[r]))
        /\ ended' \subseteq Pair /\ closed' \subseteq Login
        /\ overlap' \in [Login -> Nat] /\ presented' \in [Pair -> Nat]
    BY <1>2, <1>4 DEF SInv, TypeOK
  <2> QED
    BY <1>2, <1>3, <2>1, <2>2, <2>3, <2>4, <2>5, PlainKeepsSInv
<1> QED
  BY <1>5, <1>6

\* What becomes of a request
LEMMA RequestKeepsSInv ==
  ASSUME SInv, NEW r \in Req, Send(r) \/ Handle(r) \/ RenewFails(r)
  PROVE  SInv'
<1>1. /\ store \in 0..pairs /\ tab \in [Tab -> 0..pairs] /\ entry \in [Tab -> 0..pairs] /\ TypeOK
      /\ pairs \in Nat /\ logins \in Nat /\ MaxLogins \in Nat /\ logins <= MaxLogins
      /\ 1..pairs \subseteq Pair /\ \A n \in 0..pairs : n # NoPair => n \in 1..pairs
  BY Bounds DEF SInv
<1>2. /\ UNCHANGED <<boot, private, public, crossed, active, entry, ended, closed>>
  BY DEF Send, Handle, Serve, Intercept, RenewCheck, RenewDelete, RenewStore, Renewed, Refused,
         RenewFails, serverVars, historyVars
<1>3. budget' \in [Fault -> Nat]
  <2>1. budget' = budget \/ Spend("error")
    BY DEF Send, Handle, Serve, Intercept, RenewCheck, RenewDelete, RenewStore, Renewed, Refused, RenewFails
  <2> QED
    BY <2>1, BudgetSpent DEF SInv, TypeOK, Fault
<1>4. /\ NoPair \in 0..pairs /\ req \in [Req -> Request] /\ req[r] \in Request /\ Carries(req[r])
      /\ \A q \in Req : Carries(req[q])
      /\ TabOf(r) \in Tab /\ active \in BOOLEAN /\ ended \subseteq Pair /\ closed \subseteq Login
      /\ overlap \in [Login -> Nat] /\ presented \in [Pair -> Nat]
      /\ \A n \in 1..pairs : LoginOf(n) \in Login
  BY <1>1, Bounds, SessionsAssumption DEF NoPair, SInv, TypeOK, TabOf
<1>5. ASSUME UNCHANGED <<minted, pairs, logins>>, keys' \subseteq keys, fresh' \subseteq fresh,
             store' \in 0..pairs, tab' \in [Tab -> 0..pairs],
             overlap' \in [Login -> Nat], presented' \in [Pair -> Nat],
             NEW q \in Request, Carries(q), req' = [req EXCEPT ![r] = q]
      PROVE  SInv'
  <2>1. req' \in [Req -> Request] /\ \A p \in Req : Carries(req'[p])
    BY <1>4, <1>5
  <2>2. active' \in BOOLEAN /\ entry' \in [Tab -> 0..pairs] /\ ended' \subseteq Pair /\ closed' \subseteq Login
    BY <1>1, <1>2, <1>4
  <2> QED
    BY <1>2, <1>3, <1>5, <2>1, <2>2, PlainKeepsSInv
<1>6. CASE Send(r)
  <2>1. /\ tab[TabOf(r)] \in 1..pairs
        /\ req' = [req EXCEPT ![r] = [Quiet EXCEPT !.at = "sent", !.access = tab[TabOf(r)]]]
        /\ UNCHANGED <<minted, pairs, logins, keys, fresh, store, tab, overlap, presented>>
    BY <1>1, <1>4, <1>6 DEF Send, dashVars, historyVars
  <2> QED
    BY <1>1, <1>4, <1>5, <2>1, SentFacts
<1>7. CASE Serve(r)
  <2>1. PICK q \in {Quiet, [req[r] EXCEPT !.at = "denied"]} :
          req' = [req EXCEPT ![r] = q] /\ req[r].at = "sent"
    BY <1>7 DEF Serve
  <2>2. UNCHANGED <<minted, pairs, logins, keys, fresh, store, tab, overlap, presented>>
    BY <1>7 DEF Serve, dashVars, historyVars
  <2>3. q \in Request /\ Carries(q)
    <3>1. CASE q = Quiet
      BY <3>1, QuietFacts
    <3>2. CASE q = [req[r] EXCEPT !.at = "denied"]
      <4>1. q \in Request /\ q.at = "denied" /\ q.access = req[r].access
        BY <1>4, <3>2 DEF Request
      <4> QED
        BY <1>4, <2>1, <4>1 DEF Carries
    <3> QED
      BY <2>1, <3>1, <3>2
  <2> QED
    BY <1>1, <1>4, <1>5, <2>1, <2>2, <2>3
<1>8. CASE Intercept(r)
  <2>1. /\ UNCHANGED <<minted, pairs, logins, keys, fresh, store, tab, overlap>> /\ req[r].at = "denied"
    BY <1>8 DEF Intercept, dashVars
  <2>2. PICK n \in 0..pairs : n = tab[TabOf(r)]
    BY <1>1, <1>4
  <2>3. CASE n = NoPair
    <3>1. req' = [req EXCEPT ![r] = Quiet] /\ UNCHANGED presented
      BY <1>8, <2>2, <2>3 DEF Intercept
    <3> QED
      BY <1>1, <1>4, <1>5, <2>1, <3>1, QuietFacts
  <2>4. CASE n # NoPair
    <3>1. PICK q : q = [req[r] EXCEPT !.at = "renew", !.token = n]
      OBVIOUS
    <3>2. /\ req' = [req EXCEPT ![r] = q] /\ presented' = [presented EXCEPT ![n] = presented[n] + 1]
      BY <1>8, <2>2, <2>4, <3>1 DEF Intercept
    <3>3. n \in 1..pairs /\ n \in Pair
      BY <1>1, <2>4
    <3>4. q \in Request /\ q.at = "renew" /\ q.access = req[r].access /\ q.token = n
      BY <1>4, <3>1, <3>3 DEF Request
    <3>5. Carries(q)
      BY <1>4, <2>1, <3>3, <3>4 DEF Carries
    <3>6. presented' \in [Pair -> Nat]
      BY <1>4, <3>2, <3>3
    <3> QED
      BY <1>1, <1>4, <1>5, <2>1, <3>2, <3>4, <3>5, <3>6
  <2> QED
    BY <2>3, <2>4
<1>9. CASE RenewCheck(r)
  <2>1. PICK q \in {[req[r] EXCEPT !.at = "known"], [req[r] EXCEPT !.at = "refused"]} :
          req' = [req EXCEPT ![r] = q]
    BY <1>9 DEF RenewCheck
  <2>2. /\ req[r].at = "renew" /\ req[r].token \in 1..pairs
        /\ UNCHANGED <<minted, pairs, logins, keys, fresh, store, tab, presented>>
        /\ overlap' = overlap \/ overlap' = [overlap EXCEPT ![LoginOf(req[r].token)] = @ + 1]
    BY <1>4, <1>9 DEF RenewCheck, dashVars, Carries
  <2>3. q \in Request /\ Carries(q)
    <3>1. q \in Request /\ q.at \in {"known", "refused"} /\ q.access = req[r].access /\ q.token = req[r].token
      BY <1>4, <2>1 DEF Request
    <3> QED
      BY <1>4, <2>2, <3>1 DEF Carries
  <2>4. overlap' \in [Login -> Nat]
    BY <1>4, <2>2
  <2> QED
    BY <1>1, <1>4, <1>5, <2>1, <2>2, <2>3, <2>4
<1>10. CASE RenewDelete(r)
  <2>1. PICK q \in {[req[r] EXCEPT !.at = "spent"], [req[r] EXCEPT !.at = "refused"]} :
          req' = [req EXCEPT ![r] = q]
    BY <1>10 DEF RenewDelete
  <2>2. /\ req[r].at = "known" /\ keys' \subseteq keys
        /\ UNCHANGED <<minted, pairs, logins, fresh, store, tab, overlap, presented>>
    BY <1>10 DEF RenewDelete, KeysWithout, dashVars, historyVars
  <2>3. q \in Request /\ Carries(q)
    <3>1. q \in Request /\ q.at \in {"spent", "refused"} /\ q.access = req[r].access /\ q.token = req[r].token
      BY <1>4, <2>1 DEF Request
    <3> QED
      BY <1>4, <2>2, <3>1 DEF Carries
  <2> QED
    BY <1>1, <1>4, <1>5, <2>1, <2>2, <2>3
<1>11. CASE RenewStore(r)
  <2>1. PICK q : q = [req[r] EXCEPT !.at = "stored", !.new = pairs + 1]
    OBVIOUS
  <2>2. /\ req[r].at = "spent" /\ Mint(LoginOf(req[r].token)) /\ keys' = keys \cup {pairs + 1}
        /\ req' = [req EXCEPT ![r] = q] /\ pairs' = pairs + 1 /\ pairs < MaxPair
        /\ UNCHANGED <<active, logins, store, tab, entry, overlap, presented, ended, closed, budget>>
    BY <1>11, <2>1 DEF RenewStore, Kept, Mint, dashVars, historyVars
  <2>3. req[r].token \in 1..pairs /\ req[r].access \in 1..pairs /\ LoginOf(req[r].token) \in 1..logins
    BY <1>4, <2>2 DEF Carries, SInv
  <2>4. pairs + 1 \in Pair /\ 1..pairs \subseteq 1..pairs' /\ 0..pairs \subseteq 0..(pairs + 1)
        /\ pairs + 1 \in 1..pairs'
    BY <1>1, <2>2, Bounds DEF Pair
  <2>5. q \in Request /\ q.at = "stored" /\ q.access = req[r].access /\ q.token = req[r].token
        /\ q.new = pairs + 1
    BY <1>4, <2>1, <2>4 DEF Request
  <2>6. req' \in [Req -> Request] /\ \A p \in Req : Carries(req[p])'
    <3>1. req' \in [Req -> Request]
      BY <1>4, <2>2, <2>5
    <3>2. ASSUME NEW p \in Req PROVE Carries(req[p])'
      <4>1. CASE p = r
        BY <1>4, <2>2, <2>3, <2>4, <2>5, <4>1 DEF Carries
      <4>2. CASE p # r
        BY <1>4, <2>2, <2>4, <4>2 DEF Carries
      <4> QED
        BY <4>1, <4>2
    <3> QED
      BY <3>1, <3>2
  <2>7. entry' \in [Tab -> 0..(pairs + 1)] /\ LoginOf(req[r].token) \in 1..logins' /\ logins' <= MaxLogins
    BY <1>1, <2>2, <2>3, <2>4
  <2> QED
    BY <1>2, <2>2, <2>6, <2>7, MintKeepsSInv
<1>12. CASE Renewed(r)
  <2>1. PICK q : q = [Quiet EXCEPT !.at = "sent", !.access = req[r].new]
    OBVIOUS
  <2>2. /\ req[r].at = "stored" /\ tab' = [tab EXCEPT ![TabOf(r)] = req[r].new] /\ store' = req[r].new
        /\ req' = [req EXCEPT ![r] = q]
        /\ UNCHANGED <<minted, pairs, logins, keys, fresh, overlap, presented>>
    BY <1>12, <2>1 DEF Renewed, Retry, historyVars
  <2>3. req[r].new \in 1..pairs /\ req[r].new \in 0..pairs
    BY <1>1, <1>4, <2>2 DEF Carries
  <2>4. q \in Request /\ Carries(q)
    BY <1>1, <2>1, <2>3, SentFacts
  <2>5. tab' \in [Tab -> 0..pairs]
    BY <1>1, <2>2, <2>3
  <2> QED
    BY <1>1, <1>4, <1>5, <2>2, <2>3, <2>4, <2>5
<1>13. CASE Refused(r) \/ RenewFails(r)
  <2>1. /\ tab' = [tab EXCEPT ![TabOf(r)] = NoPair] /\ store' = NoPair
        /\ req' = [req EXCEPT ![r] = Quiet]
        /\ UNCHANGED <<minted, pairs, logins, keys, fresh, overlap, presented>>
    BY <1>13 DEF Refused, RenewFails, Forget, historyVars
  <2>2. tab' \in [Tab -> 0..pairs]
    BY <1>1, <1>4, <2>1
  <2> QED
    BY <1>1, <1>4, <1>5, <2>1, <2>2, QuietFacts
<1> QED
  BY <1>6, <1>7, <1>8, <1>9, <1>10, <1>11, <1>12, <1>13 DEF Handle

LEMMA SInvStep == SInv /\ [Next]_vars => SInv'
<1> SUFFICES ASSUME SInv, [Next]_vars PROVE SInv'
  OBVIOUS
<1>1. CASE \E w \in Worker : Boot(w) \/ BootDies(w)
  BY <1>1, BootKeepsSInv
<1>2. CASE \E t \in Tab : LoginStore(t) \/ LoginAnswer(t) \/ LoginFails(t) \/ Open(t) \/ Leave(t)
  BY <1>2, TabKeepsSInv
<1>3. CASE \E r \in Req : Send(r) \/ Handle(r) \/ RenewFails(r)
  BY <1>3, RequestKeepsSInv
<1>4. CASE (\E n \in Pair : Logout(n) \/ AccessExpires(n) \/ KeyLapses(n)) \/ Deactivate
  <2>1. UNCHANGED <<boot, private, public, crossed, minted, pairs, logins, store, tab, entry, req,
                    overlap, presented>>
    BY <1>4 DEF Logout, AccessExpires, KeyLapses, Deactivate, serverVars, dashVars, historyVars
  <2>2. budget' \in [Fault -> Nat]
    <3>1. \E f \in Fault : Spend(f)
      BY <1>4 DEF Logout, AccessExpires, KeyLapses, Deactivate, Fault
    <3> QED
      BY <3>1, BudgetSpent DEF SInv
  <2>3. keys' \subseteq keys /\ fresh' \subseteq fresh /\ active' \in BOOLEAN /\ ended' \subseteq Pair
    BY <1>4 DEF Logout, AccessExpires, KeyLapses, Deactivate, historyVars, SInv, TypeOK
  <2>4. closed' \subseteq Login
    <3>1. \A n \in keys : LoginOf(n) \in Login
      BY Bounds DEF SInv, TypeOK
    <3> QED
      BY <1>4, <3>1 DEF Logout, AccessExpires, KeyLapses, Deactivate, historyVars, SInv, TypeOK
  <2>5. /\ store' \in 0..pairs /\ tab' \in [Tab -> 0..pairs] /\ entry' \in [Tab -> 0..pairs]
        /\ req' \in [Req -> Request] /\ (\A r \in Req : Carries(req'[r]))
        /\ overlap' \in [Login -> Nat] /\ presented' \in [Pair -> Nat]
    BY <2>1 DEF SInv, TypeOK
  <2> QED
    BY <2>1, <2>2, <2>3, <2>4, <2>5, PlainKeepsSInv
<1>5. CASE UNCHANGED vars
  BY <1>5 DEF vars, serverVars, dashVars, historyVars, SInv, TypeOK, Carries, LoginOf
<1> QED
  BY <1>1, <1>2, <1>3, <1>4, <1>5 DEF Next

LEMMA SInvAlways == Spec => []SInv
  BY SInvInit, SInvStep, PTL DEF Spec

\* Tabs, requests and keys hold nothing but pairs that were handed out.
THEOREM SessionsTypeCorrect == Spec => []TypeOK
<1>1. SInv => TypeOK
  BY DEF SInv
<1> QED
  BY <1>1, SInvAlways, PTL

-----------------------------------------------------------------------------
(* The key files *)

\* Unless two processes crossed: between the two files of a pair there is at most
\* one process, the one that wrote the private key; with nobody between them the
\* files belong together, or there is no public key and nobody is up.
KeyInv ==
  crossed \/
    /\ public # NoKey /\ (\A w \in Worker : boot[w] # "half") => private = public
    /\ \A w \in Worker : boot[w] = "half" => private = w
    /\ public = NoKey => \A w \in Worker : boot[w] # "up"

LEMMA KeyInvInit == Init => KeyInv
<1> SUFFICES ASSUME Init PROVE KeyInv
  OBVIOUS
<1>1. /\ private = public /\ \A w \in Worker : boot[w] \in {"start", "up"}
  BY DEF Init
<1>2. public = NoKey => \A w \in Worker : boot[w] # "up"
  <2>1. (CHOOSE w \in Worker : TRUE) \in Worker
    BY SessionsAssumption
  <2> QED
    BY <2>1, SessionsAssumption DEF Init
<1> QED
  BY <1>1, <1>2 DEF KeyInv

LEMMA KeyInvStep == SInv /\ KeyInv /\ [Next]_vars => KeyInv'
<1> SUFFICES ASSUME SInv, KeyInv, [Next]_vars PROVE KeyInv'
  OBVIOUS
<1>1. boot \in [Worker -> {"start", "make", "half", "up"}] /\ NoKey \notin Worker
  BY SessionsAssumption DEF SInv, TypeOK
<1>2. ASSUME UNCHANGED serverVars PROVE KeyInv'
  BY <1>2 DEF serverVars, KeyInv
<1>3. ASSUME NEW w \in Worker, BootCheck(w) PROVE KeyInv'
  BY <1>1, <1>3 DEF BootCheck, BothThere, KeyInv
<1>4. ASSUME NEW w \in Worker, BootPrivate(w) PROVE KeyInv'
  BY <1>1, <1>4 DEF BootPrivate, KeyInv
<1>5. ASSUME NEW w \in Worker, BootPublic(w) PROVE KeyInv'
  BY <1>1, <1>5 DEF BootPublic, KeyInv
<1>6. ASSUME NEW w \in Worker, BootDies(w) PROVE KeyInv'
  BY <1>1, <1>6 DEF BootDies, KeyInv
<1>7. CASE \E t \in Tab : LoginStore(t) \/ LoginAnswer(t) \/ LoginFails(t) \/ Open(t) \/ Leave(t)
  BY <1>2, <1>7 DEF LoginStore, LoginAnswer, LoginFails, Open, Leave
<1>8. CASE \E r \in Req : Send(r) \/ Handle(r) \/ RenewFails(r)
  BY <1>2, <1>8 DEF Send, Handle, Serve, Intercept, RenewCheck, RenewDelete, RenewStore, Renewed,
                    Refused, RenewFails
<1>9. CASE (\E n \in Pair : Logout(n) \/ AccessExpires(n) \/ KeyLapses(n)) \/ Deactivate
  BY <1>2, <1>9 DEF Logout, AccessExpires, KeyLapses, Deactivate
<1>10. CASE UNCHANGED vars
  BY <1>2, <1>10 DEF vars
<1> QED
  BY <1>3, <1>4, <1>5, <1>6, <1>7, <1>8, <1>9, <1>10 DEF Next, Boot

\* Any number of processes that start at once leave a pair of files that belong
\* together, unless one writes between the two files of another.
THEOREM KeyFilesMatch == Spec => []KeysBelongTogether
<1>1. SInv /\ KeyInv => KeysBelongTogether
  BY SessionsAssumption DEF KeyInv, KeysBelongTogether
<1>2. Init => SInv /\ KeyInv
  BY SInvInit, KeyInvInit
<1>3. SInv /\ KeyInv /\ [Next]_vars => (SInv /\ KeyInv)'
  BY SInvStep, KeyInvStep
<1> QED
  BY <1>1, <1>2, <1>3, PTL DEF Spec

-----------------------------------------------------------------------------
(* The refresh keys of a login *)

KeysOf(l)  == {n \in keys : LoginOf(n) = l}
Knowing(l) == {r \in Req : req[r].at = "known" /\ LoginOf(req[r].token) = l}
Having(l)  == {r \in Req : req[r].at = "spent" /\ LoginOf(req[r].token) = l}

\* Keys that no refresh is about to delete
Alone(l) == {n \in KeysOf(l) : \A r \in Req : ~(req[r].at = "known" /\ req[r].token = n)}

\* Each call that knows a token, each that is about to store a new one and each
\* key besides them was made by the login, or is counted by overlap.
OneSession(l) ==
  /\ Cardinality(Alone(l)) + Cardinality(Knowing(l)) + Cardinality(Having(l)) <= 1 + overlap[l]
  /\ l \in closed => KeysOf(l) = {} /\ Knowing(l) = {} /\ Having(l) = {} /\ l <= logins

LoginInv == \A l \in Login : OneSession(l)

LEMMA SmallSets ==
  ASSUME SInv, NEW l
  PROVE  /\ IsFiniteSet(KeysOf(l)) /\ Cardinality(KeysOf(l)) \in Nat
         /\ IsFiniteSet(Alone(l)) /\ Cardinality(Alone(l)) \in Nat
         /\ IsFiniteSet(Knowing(l)) /\ Cardinality(Knowing(l)) \in Nat
         /\ IsFiniteSet(Having(l)) /\ Cardinality(Having(l)) \in Nat
<1>1. IsFiniteSet(1..pairs)
  BY Bounds, FS_Interval DEF SInv
<1>2. KeysOf(l) \subseteq 1..pairs /\ Alone(l) \subseteq 1..pairs /\ Knowing(l) \subseteq Req /\ Having(l) \subseteq Req
  BY DEF KeysOf, Alone, Knowing, Having, SInv, TypeOK
<1> QED
  BY <1>1, <1>2, SessionsAssumption, FS_Subset, FS_CardinalityType

LEMMA SmallSetsNext ==
  ASSUME SInv', NEW l
  PROVE  /\ IsFiniteSet(Alone(l)') /\ Cardinality(Alone(l)') \in Nat
         /\ IsFiniteSet(Knowing(l)') /\ Cardinality(Knowing(l)') \in Nat
         /\ IsFiniteSet(Having(l)') /\ Cardinality(Having(l)') \in Nat
<1>1. pairs' \in Nat
  BY SessionsAssumption DEF SInv, TypeOK
<1>2. IsFiniteSet(1..pairs')
  BY <1>1, FS_Interval
<1>3. Alone(l)' \subseteq 1..pairs' /\ Knowing(l)' \subseteq Req /\ Having(l)' \subseteq Req
  BY DEF KeysOf, Alone, Knowing, Having, SInv, TypeOK
<1> QED
  BY <1>2, <1>3, SessionsAssumption, FS_Subset, FS_CardinalityType

LEMMA OneMore ==
  ASSUME NEW S, IsFiniteSet(S), NEW x, NEW T, T \subseteq S \cup {x}
  PROVE  Cardinality(T) <= Cardinality(S) + 1
<1>1. Cardinality(S) \in Nat /\ IsFiniteSet(S \cup {x})
  BY FS_CardinalityType, FS_AddElement
<1>2. Cardinality(S \cup {x}) = Cardinality(S) \/ Cardinality(S \cup {x}) = Cardinality(S) + 1
  BY FS_AddElement
<1>3. Cardinality(T) <= Cardinality(S \cup {x}) /\ Cardinality(T) \in Nat
  BY <1>1, FS_Subset, FS_CardinalityType
<1> QED
  BY <1>1, <1>2, <1>3

LEMMA OneLess ==
  ASSUME NEW S, IsFiniteSet(S), NEW x \in S, NEW T, T \subseteq S \ {x}
  PROVE  Cardinality(T) <= Cardinality(S) - 1
<1>1. Cardinality(S) \in Nat /\ IsFiniteSet(S \ {x}) /\ Cardinality(S \ {x}) = Cardinality(S) - 1
  BY FS_CardinalityType, FS_RemoveElement
<1>2. Cardinality(T) <= Cardinality(S \ {x}) /\ Cardinality(T) \in Nat
  BY <1>1, FS_Subset, FS_CardinalityType
<1> QED
  BY <1>1, <1>2

LEMMA Counts ==
  ASSUME SInv, SInv', NEW l \in Login
  PROVE  /\ Cardinality(Alone(l)) \in Nat /\ Cardinality(Alone(l)') \in Nat
         /\ Cardinality(Knowing(l)) \in Nat /\ Cardinality(Knowing(l)') \in Nat
         /\ Cardinality(Having(l)) \in Nat /\ Cardinality(Having(l)') \in Nat
         /\ overlap[l] \in Nat /\ overlap'[l] \in Nat
         /\ l \in Nat /\ logins \in Nat /\ logins' \in Nat
<1>1. overlap[l] \in Nat /\ overlap'[l] \in Nat
  BY DEF SInv, TypeOK
<1>2. l \in Nat /\ logins \in Nat /\ logins' \in Nat
  BY SessionsAssumption DEF SInv, TypeOK, Login
<1>3. /\ Cardinality(Alone(l)) \in Nat /\ Cardinality(Knowing(l)) \in Nat /\ Cardinality(Having(l)) \in Nat
  BY SmallSets
<1>4. /\ Cardinality(Alone(l)') \in Nat /\ Cardinality(Knowing(l)') \in Nat /\ Cardinality(Having(l)') \in Nat
  BY SmallSetsNext
<1> QED
  BY <1>1, <1>2, <1>3, <1>4

\* A step that adds nothing to the login l
LEMMA FewerKeepSession ==
  ASSUME SInv, SInv', NEW l \in Login, OneSession(l), overlap'[l] = overlap[l],
         l \in closed' => l \in closed, logins <= logins',
         KeysOf(l)' \subseteq KeysOf(l), Alone(l)' \subseteq Alone(l),
         Knowing(l)' \subseteq Knowing(l), Having(l)' \subseteq Having(l)
  PROVE  OneSession(l)'
<1>1. /\ Cardinality(Alone(l)') <= Cardinality(Alone(l))
      /\ Cardinality(Knowing(l)') <= Cardinality(Knowing(l))
      /\ Cardinality(Having(l)') <= Cardinality(Having(l))
  BY SmallSets, FS_Subset
<1>2. (Cardinality(Alone(l)) + Cardinality(Knowing(l)) + Cardinality(Having(l)) <= 1 + overlap[l])'
  BY <1>1, Counts DEF OneSession
<1>3. (l \in closed => KeysOf(l) = {} /\ Knowing(l) = {} /\ Having(l) = {} /\ l <= logins)'
  <2> SUFFICES ASSUME l \in closed'
               PROVE  KeysOf(l)' = {} /\ Knowing(l)' = {} /\ Having(l)' = {} /\ l <= logins'
    OBVIOUS
  <2>1. KeysOf(l) = {} /\ Knowing(l) = {} /\ Having(l) = {} /\ l <= logins
    BY DEF OneSession
  <2> QED
    BY <2>1, Counts
<1> QED
  BY <1>2, <1>3 DEF OneSession

\* A step that leaves alone the calls that know or have spent a token
LEMMA PlainKeepsSession ==
  ASSUME SInv, SInv', LoginInv, minted' = minted, logins' = logins, overlap' = overlap,
         closed' = closed, keys' \subseteq keys,
         \A r \in Req : req'[r].at \in {"known", "spent"} =>
                         req'[r].at = req[r].at /\ req'[r].token = req[r].token,
         \A r \in Req : req[r].at = "known" => req'[r].at = "known" /\ req'[r].token = req[r].token
  PROVE  LoginInv'
<1> SUFFICES ASSUME NEW l \in Login PROVE OneSession(l)'
  BY DEF LoginInv
<1>1. KeysOf(l)' \subseteq KeysOf(l)
  BY DEF KeysOf, LoginOf
<1>2. Alone(l)' \subseteq Alone(l)
  BY <1>1 DEF Alone
<1>3. Knowing(l)' \subseteq Knowing(l) /\ Having(l)' \subseteq Having(l)
  BY DEF Knowing, Having, LoginOf
<1>4. logins <= logins' /\ OneSession(l)
  BY Bounds DEF SInv, LoginInv
<1> QED
  BY <1>1, <1>2, <1>3, <1>4, FewerKeepSession

\* A refresh call finds its token: it takes over the key, or overlap counts it.
LEMMA CheckKeepsSession ==
  ASSUME SInv, SInv', LoginInv, NEW r \in Req, RenewCheck(r), Valid(req[r].token)
  PROVE  LoginInv'
<1> DEFINE n == req[r].token
<1> SUFFICES ASSUME NEW l \in Login PROVE OneSession(l)'
  BY DEF LoginInv
<1>1. /\ req' = [req EXCEPT ![r].at = "known"] /\ req[r].at = "renew" /\ n \in keys
      /\ overlap' = IF \E q \in Req : req[q].at = "known" /\ req[q].token = n
                    THEN [overlap EXCEPT ![LoginOf(n)] = @ + 1] ELSE overlap
      /\ UNCHANGED <<keys, minted, logins, closed>>
  BY DEF RenewCheck, Valid
<1>2. req \in [Req -> Request] /\ overlap \in [Login -> Nat] /\ OneSession(l)
  BY DEF SInv, TypeOK, LoginInv
<1>3. /\ req'[r].at = "known" /\ req'[r].token = n
      /\ \A q \in Req : q # r => req'[q] = req[q]
  BY <1>1, <1>2, AtFacts DEF At
<1>4. KeysOf(l)' = KeysOf(l) /\ Having(l)' = Having(l) /\ Alone(l)' \subseteq Alone(l)
  <2>1. KeysOf(l)' = KeysOf(l)
    BY <1>1 DEF KeysOf, LoginOf
  <2>2. Having(l)' = Having(l)
    BY <1>1, <1>3 DEF Having, LoginOf
  <2>3. Alone(l)' \subseteq Alone(l)
    BY <1>1, <1>3, <2>1 DEF Alone
  <2> QED
    BY <2>1, <2>2, <2>3
<1>5. CASE LoginOf(n) # l
  <2>1. Knowing(l)' \subseteq Knowing(l) /\ overlap'[l] = overlap[l]
    BY <1>1, <1>2, <1>3, <1>5 DEF Knowing, LoginOf
  <2> QED
    BY <1>1, <1>2, <1>4, <2>1, Counts, FewerKeepSession
<1>6. CASE LoginOf(n) = l
  <2>1. n \in KeysOf(l)
    BY <1>1, <1>6 DEF KeysOf
  <2>2. l \notin closed'
    BY <1>1, <1>2, <2>1 DEF OneSession
  <2>3. Knowing(l)' \subseteq Knowing(l) \cup {r}
    BY <1>1, <1>3 DEF Knowing, LoginOf
  <2>4. Cardinality(Knowing(l)') <= Cardinality(Knowing(l)) + 1
    BY <2>3, SmallSets, OneMore
  <2>5. Cardinality(Alone(l)') <= Cardinality(Alone(l))
    BY <1>4, SmallSets, FS_Subset
  <2>6. CASE \E q \in Req : req[q].at = "known" /\ req[q].token = n
    <3>1. overlap'[l] = overlap[l] + 1
      BY <1>1, <1>2, <1>6, <2>6
    <3> QED
      BY <1>2, <1>4, <2>2, <2>4, <2>5, <3>1, Counts DEF OneSession
  <2>7. CASE ~\E q \in Req : req[q].at = "known" /\ req[q].token = n
    <3>1. n \in Alone(l) /\ n \notin Alone(l)'
      BY <1>3, <2>1, <2>7 DEF Alone
    <3>2. Cardinality(Alone(l)') <= Cardinality(Alone(l)) - 1
      BY <1>4, <3>1, SmallSets, OneLess
    <3>3. overlap'[l] = overlap[l]
      BY <1>1, <2>7
    <3> QED
      BY <1>2, <1>4, <2>2, <2>4, <3>2, <3>3, Counts DEF OneSession
  <2> QED
    BY <2>6, <2>7
<1> QED
  BY <1>5, <1>6

\* A call that knew its token has deleted it, or ends without having done so.
LEMMA KnowingEndsKeepsSession ==
  ASSUME SInv, SInv', LoginInv, NEW r \in Req, req[r].at = "known", NEW p \in Request,
         req' = [req EXCEPT ![r] = p], UNCHANGED <<minted, logins, overlap, closed>>,
         \/ p.at \notin {"known", "spent"} /\ keys' = keys
         \/ p.at = "spent" /\ p.token = req[r].token /\ keys' = keys \ {req[r].token}
  PROVE  LoginInv'
<1> DEFINE n == req[r].token
<1> SUFFICES ASSUME NEW l \in Login PROVE OneSession(l)'
  BY DEF LoginInv
<1>1. req \in [Req -> Request] /\ OneSession(l)
  BY DEF SInv, TypeOK, LoginInv
<1>2. req'[r] = p /\ \A q \in Req : q # r => req'[q] = req[q]
  BY <1>1
<1>3. KeysOf(l)' \subseteq KeysOf(l)
  BY DEF KeysOf, LoginOf
<1>4. Knowing(l)' \subseteq Knowing(l) /\ r \notin Knowing(l)'
  BY <1>2 DEF Knowing, LoginOf
<1>5. CASE LoginOf(n) # l
  <2>1. Having(l)' \subseteq Having(l)
    BY <1>2, <1>5 DEF Having, LoginOf
  <2>2. Alone(l)' \subseteq Alone(l)
    BY <1>2, <1>3, <1>5 DEF Alone, KeysOf
  <2> QED
    BY <1>1, <1>3, <1>4, <2>1, <2>2, Counts, FewerKeepSession
<1>6. CASE LoginOf(n) = l
  <2>1. r \in Knowing(l)
    BY <1>6 DEF Knowing
  <2>2. l \notin closed'
    BY <1>1, <2>1 DEF OneSession
  <2>3. Cardinality(Knowing(l)') <= Cardinality(Knowing(l)) - 1
    BY <1>4, <2>1, SmallSets, OneLess
  <2>4. CASE p.at \notin {"known", "spent"} /\ keys' = keys
    <3>1. Having(l)' \subseteq Having(l) /\ Alone(l)' \subseteq Alone(l) \cup {n}
      BY <1>2, <1>3, <2>4 DEF Having, Alone, LoginOf
    <3>2. /\ Cardinality(Having(l)') <= Cardinality(Having(l))
          /\ Cardinality(Alone(l)') <= Cardinality(Alone(l)) + 1
      BY <3>1, SmallSets, FS_Subset, OneMore
    <3> QED
      BY <1>1, <2>2, <2>3, <3>2, Counts DEF OneSession
  <2>5. CASE p.at = "spent" /\ p.token = n /\ keys' = keys \ {n}
    <3>1. Having(l)' \subseteq Having(l) \cup {r}
      BY <1>2 DEF Having, LoginOf
    <3>2. Alone(l)' \subseteq Alone(l)
      <4>1. n \notin KeysOf(l)'
        BY <2>5 DEF KeysOf
      <4> QED
        BY <1>2, <1>3, <4>1 DEF Alone
    <3>3. /\ Cardinality(Having(l)') <= Cardinality(Having(l)) + 1
          /\ Cardinality(Alone(l)') <= Cardinality(Alone(l))
      BY <3>1, <3>2, SmallSets, FS_Subset, OneMore
    <3> QED
      BY <1>1, <2>2, <2>3, <3>3, Counts DEF OneSession
  <2> QED
    BY <2>4, <2>5
<1> QED
  BY <1>5, <1>6

\* A pair is made: what the older ones belong to stays.
LEMMA MintFacts ==
  ASSUME SInv, NEW l, Mint(l)
  PROVE  /\ pairs + 1 \in Pair /\ pairs + 1 \notin 1..pairs
         /\ minted'[pairs + 1].login = l
         /\ \A n \in 1..pairs : minted'[n] = minted[n]
<1>1. pairs \in Nat /\ pairs + 1 \in Pair /\ pairs + 1 \notin 1..pairs /\ 1..pairs \subseteq Pair
  BY Bounds DEF SInv, Mint, Pair
<1>2. minted \in [Pair -> Minted] /\ minted' = [minted EXCEPT ![pairs + 1] = [login |-> l, key |-> private]]
  BY DEF SInv, TypeOK, Mint
<1> QED
  BY <1>1, <1>2

\* A refresh call that has spent its token stores the next one.
LEMMA StoreKeepsSession ==
  ASSUME SInv, SInv', LoginInv, NEW r \in Req, RenewStore(r)
  PROVE  LoginInv'
<1> DEFINE n == req[r].token
<1>m. PICK m : m = pairs + 1
  OBVIOUS
<1> SUFFICES ASSUME NEW l \in Login PROVE OneSession(l)'
  BY DEF LoginInv
<1>1. /\ req[r].at = "spent" /\ req' = [req EXCEPT ![r].at = "stored", ![r].new = m]
      /\ keys' = keys \cup {m} /\ UNCHANGED <<logins, overlap, closed>>
      /\ Mint(LoginOf(n))
  BY <1>m DEF RenewStore, Kept, historyVars
<1>2. req \in [Req -> Request] /\ OneSession(l) /\ keys \subseteq 1..pairs
  BY DEF SInv, TypeOK, LoginInv
<1>3. m \in Pair /\ m \notin 1..pairs /\ LoginOf(m)' = LoginOf(n) /\ \A k \in 1..pairs : LoginOf(k)' = LoginOf(k)
  BY <1>m, <1>1, MintFacts DEF LoginOf
<1>4. req'[r].at = "stored" /\ \A q \in Req : q # r => req'[q] = req[q]
  <2>1. req'[r] = [req[r] EXCEPT !.at = "stored", !.new = m] /\ req[r] \in Request
    BY <1>1, <1>2
  <2>2. req'[r].at = "stored"
    BY <1>3, <2>1 DEF Request
  <2> QED
    BY <1>1, <1>2, <2>2
<1>5. \A q \in Req : req[q].at \in {"known", "spent"} => req[q].token \in 1..pairs
  BY DEF SInv, TypeOK, Carries
<1>6. Knowing(l)' \subseteq Knowing(l) /\ Having(l)' \subseteq Having(l) /\ r \notin Having(l)'
  BY <1>3, <1>4, <1>5 DEF Knowing, Having
<1>7. \A k \in keys : k \in KeysOf(l)' => k \in KeysOf(l)
  BY <1>2, <1>3 DEF KeysOf
<1>8. \A k \in keys : k \in Alone(l)' => k \in Alone(l)
  BY <1>1, <1>4, <1>7 DEF Alone
<1>9. CASE LoginOf(n) # l
  <2>1. m \notin KeysOf(l)'
    BY <1>3, <1>9 DEF KeysOf
  <2>2. KeysOf(l)' \subseteq KeysOf(l) /\ Alone(l)' \subseteq Alone(l)
    BY <1>1, <1>7, <1>8, <2>1 DEF KeysOf, Alone
  <2> QED
    BY <1>1, <1>2, <1>6, <2>2, Counts, FewerKeepSession
<1>10. CASE LoginOf(n) = l
  <2>1. r \in Having(l)
    BY <1>1, <1>10 DEF Having
  <2>2. l \notin closed'
    BY <1>1, <1>2, <2>1 DEF OneSession
  <2>3. Alone(l)' \subseteq Alone(l) \cup {m}
    BY <1>1, <1>8 DEF Alone, KeysOf
  <2>4. /\ Cardinality(Alone(l)') <= Cardinality(Alone(l)) + 1
        /\ Cardinality(Knowing(l)') <= Cardinality(Knowing(l))
        /\ Cardinality(Having(l)') <= Cardinality(Having(l)) - 1
    BY <1>6, <2>1, <2>3, SmallSets, FS_Subset, OneMore, OneLess
  <2> QED
    BY <1>1, <1>2, <2>2, <2>4, Counts DEF OneSession
<1> QED
  BY <1>9, <1>10

\* A login makes its first key.
LEMMA LoginKeepsSession ==
  ASSUME SInv, SInv', LoginInv, NEW t \in Tab, LoginStore(t)
  PROVE  LoginInv'
<1>m. PICK m : m = pairs + 1
  OBVIOUS
<1> SUFFICES ASSUME NEW l \in Login PROVE OneSession(l)'
  BY DEF LoginInv
<1>1. /\ keys' = keys \cup {m} /\ logins' = logins + 1 /\ Mint(logins + 1)
      /\ UNCHANGED <<req, overlap, closed>>
  BY <1>m DEF LoginStore, historyVars
<1>2. /\ OneSession(l) /\ keys \subseteq 1..pairs /\ logins \in Nat
      /\ \A n \in 1..pairs : LoginOf(n) \in 1..logins
  BY Bounds DEF SInv, TypeOK, LoginInv
<1>3. m \notin 1..pairs /\ LoginOf(m)' = logins + 1 /\ \A k \in 1..pairs : LoginOf(k)' = LoginOf(k)
  BY <1>m, <1>1, MintFacts DEF LoginOf
<1>4. \A q \in Req : req[q].at \in {"known", "spent"} => req[q].token \in 1..pairs
  BY DEF SInv, TypeOK, Carries
<1>5. Knowing(l)' = Knowing(l) /\ Having(l)' = Having(l)
  BY <1>1, <1>3, <1>4 DEF Knowing, Having
<1>6. CASE l # logins + 1
  <2>1. KeysOf(l)' = KeysOf(l)
    BY <1>1, <1>2, <1>3, <1>6 DEF KeysOf
  <2>2. Alone(l)' = Alone(l)
    BY <1>1, <2>1 DEF Alone
  <2>3. logins <= logins'
    BY <1>1, <1>2
  <2> QED
    BY <1>1, <1>2, <1>5, <2>1, <2>2, <2>3, FewerKeepSession
<1>7. CASE l = logins + 1
  <2>0. \A n \in 1..pairs : LoginOf(n) # l
    BY <1>2, <1>7
  <2>1. KeysOf(l) = {} /\ Knowing(l) = {} /\ Having(l) = {}
    BY <1>2, <1>4, <2>0 DEF KeysOf, Knowing, Having
  <2>2. l \notin closed'
    BY <1>1, <1>2, <1>7 DEF OneSession
  <2>3. Alone(l)' \subseteq {} \cup {m}
    <3>1. KeysOf(l)' \subseteq KeysOf(l) \cup {m}
      BY <1>1, <1>2, <1>3 DEF KeysOf
    <3> QED
      BY <2>1, <3>1 DEF Alone
  <2>4. Cardinality(Alone(l)') <= 1
    <3>1. IsFiniteSet({}) /\ Cardinality({}) = 0
      BY FS_EmptySet
    <3>2. Cardinality(Alone(l)') <= Cardinality({}) + 1
      BY <2>3, <3>1, OneMore
    <3> QED
      BY <3>1, <3>2
  <2>5. Cardinality(Knowing(l)') = 0 /\ Cardinality(Having(l)') = 0
    BY <1>5, <2>1, FS_EmptySet
  <2> QED
    BY <1>1, <2>2, <2>4, <2>5, Counts DEF OneSession
<1> QED
  BY <1>6, <1>7

\* /auth/logout with no refresh under way and none overlapped takes the only key.
LEMMA LogoutKeepsSession ==
  ASSUME SInv, SInv', LoginInv, NEW n \in Pair, Logout(n)
  PROVE  LoginInv'
<1> SUFFICES ASSUME NEW l \in Login PROVE OneSession(l)'
  BY DEF LoginInv
<1>1. /\ keys' = IF Signed(n) THEN keys \ {n} ELSE keys
      /\ closed' = IF n \in keys /\ Signed(n) /\ ~Underway(LoginOf(n)) /\ overlap[LoginOf(n)] = 0
                   THEN closed \cup {LoginOf(n)} ELSE closed
      /\ UNCHANGED <<req, minted, logins, overlap>> /\ n \in 1..pairs
  BY DEF Logout
<1>2. OneSession(l) /\ logins \in Nat /\ \A k \in 1..pairs : LoginOf(k) \in 1..logins
  BY Bounds DEF SInv, LoginInv
<1>3. KeysOf(l)' \subseteq KeysOf(l)
  BY <1>1 DEF KeysOf, LoginOf
<1>4. Knowing(l)' = Knowing(l) /\ Having(l)' = Having(l)
  BY <1>1 DEF Knowing, Having, LoginOf
<1>5. Alone(l)' \subseteq Alone(l)
  BY <1>1, <1>3 DEF Alone
<1>6. CASE l \in closed' => l \in closed
  BY <1>1, <1>2, <1>3, <1>4, <1>5, <1>6, Counts, FewerKeepSession
<1>7. CASE l \in closed' /\ l \notin closed
  <2>1. n \in keys /\ Signed(n) /\ ~Underway(l) /\ overlap[l] = 0 /\ l = LoginOf(n)
    BY <1>1, <1>7
  <2>2. Knowing(l) = {} /\ Having(l) = {}
    BY <2>1 DEF Underway, Knowing, Having
  <2>3. n \in Alone(l) /\ KeysOf(l) \subseteq Alone(l)
    BY <2>1, <2>2 DEF Alone, KeysOf, Knowing
  <2>4. Cardinality(Alone(l) \ {n}) <= Cardinality(Alone(l)) - 1 /\ IsFiniteSet(Alone(l) \ {n})
    BY <2>3, SmallSets, OneLess, FS_Subset
  <2>5. Cardinality(Alone(l)) <= 1
    BY <1>2, <2>1, <2>2, FS_EmptySet, Counts DEF OneSession
  <2>6. Alone(l) \ {n} = {}
    <3>1. Cardinality(Alone(l) \ {n}) \in Nat
      BY <2>4, FS_CardinalityType
    <3>2. Cardinality(Alone(l) \ {n}) = 0
      BY <2>4, <2>5, <3>1, Counts
    <3> QED
      BY <2>4, <3>2, FS_EmptySet
  <2>7. KeysOf(l)' = {} /\ Alone(l)' = {}
    <3>1. n \notin KeysOf(l)'
      BY <1>1, <2>1 DEF KeysOf
    <3> QED
      BY <1>3, <1>5, <2>3, <2>6, <3>1 DEF Alone
  <2>8. l <= logins'
    BY <1>1, <1>2, <2>1, Counts
  <2>9. Cardinality(Alone(l)') = 0 /\ Cardinality(Knowing(l)') = 0 /\ Cardinality(Having(l)') = 0
    BY <1>4, <2>2, <2>7, FS_EmptySet
  <2> QED
    BY <1>1, <1>4, <2>1, <2>2, <2>7, <2>8, <2>9 DEF OneSession
<1> QED
  BY <1>6, <1>7

LEMMA LoginInvInit == Init => LoginInv
<1> SUFFICES ASSUME Init, NEW l \in Login PROVE OneSession(l)
  BY DEF LoginInv
<1>1. /\ keys = {} /\ closed = {} /\ overlap[l] = 0 /\ \A r \in Req : req[r].at = "idle"
  BY QuietFacts DEF Init
<1>2. KeysOf(l) = {} /\ Alone(l) = {} /\ Knowing(l) = {} /\ Having(l) = {}
  BY <1>1 DEF KeysOf, Alone, Knowing, Having
<1>3. Cardinality(Alone(l)) = 0 /\ Cardinality(Knowing(l)) = 0 /\ Cardinality(Having(l)) = 0
  BY <1>2, FS_EmptySet
<1> QED
  BY <1>1, <1>3 DEF OneSession

\* The steps of a request
LEMMA RequestKeepsSession ==
  ASSUME SInv, SInv', LoginInv, NEW r \in Req, Send(r) \/ Handle(r) \/ RenewFails(r)
  PROVE  LoginInv'
<1>1. req \in [Req -> Request] /\ req[r] \in Request /\ Quiet \in Request /\ Quiet.at = "idle"
  BY QuietFacts DEF SInv, TypeOK
<1>2. ASSUME NEW p \in Request, req[r].at \notin {"known"}, p.at \notin {"known", "spent"},
             req' = [req EXCEPT ![r] = p],
             UNCHANGED <<keys, minted, logins, overlap, closed>>
      PROVE  LoginInv'
  <2>1. req'[r] = p /\ \A q \in Req : q # r => req'[q] = req[q]
    BY <1>1, <1>2
  <2> QED
    BY <1>2, <2>1, PlainKeepsSession
<1>3. CASE Send(r) \/ Serve(r) \/ Intercept(r) \/ Renewed(r) \/ Refused(r)
  <2>1. /\ req[r].at \in {"idle", "sent", "denied", "stored", "refused"}
        /\ UNCHANGED <<keys, minted, logins, overlap, closed>>
    BY <1>1, <1>3 DEF Send, Serve, Intercept, Renewed, Refused, historyVars
  <2>2. req' = [req EXCEPT ![r] = req'[r]] /\ req'[r].at \notin {"known", "spent"} /\ req'[r] \in Request
    <3>1. req'[r] \in Request
      BY DEF SInv, TypeOK
    <3>2. req' = [req EXCEPT ![r] = req'[r]]
      BY <1>1, <1>3 DEF Send, Serve, Intercept, Renewed, Refused
    <3>3. CASE Send(r)
      <4>1. req'[r] = [Quiet EXCEPT !.at = "sent", !.access = tab[TabOf(r)]]
        BY <1>1, <3>3 DEF Send
      <4> QED
        BY <3>1, <3>2, <4>1 DEF Quiet
    <3>4. CASE Renewed(r)
      <4>1. req'[r] = [Quiet EXCEPT !.at = "sent", !.access = req[r].new]
        BY <1>1, <3>4 DEF Renewed, Retry
      <4> QED
        BY <3>1, <3>2, <4>1 DEF Quiet
    <3>5. CASE Serve(r) \/ Intercept(r) \/ Refused(r)
      BY <1>1, <3>1, <3>2, <3>5 DEF Serve, Intercept, Refused, Request
    <3> QED
      BY <1>3, <3>3, <3>4, <3>5
  <2> QED
    BY <1>2, <2>1, <2>2
<1>4. CASE RenewCheck(r)
  <2>1. CASE Valid(req[r].token)
    BY <1>4, <2>1, CheckKeepsSession
  <2>2. CASE ~Valid(req[r].token)
    <3>1. PICK p : p = [req[r] EXCEPT !.at = "refused"]
      OBVIOUS
    <3>2. /\ req[r].at = "renew" /\ req' = [req EXCEPT ![r] = p]
          /\ UNCHANGED <<keys, minted, logins, overlap, closed>>
      BY <1>1, <1>4, <2>2, <3>1 DEF RenewCheck
    <3>3. p \in Request /\ p.at = "refused"
      BY <1>1, <3>1, AtFacts DEF At
    <3> QED
      BY <1>2, <3>2, <3>3
  <2> QED
    BY <2>1, <2>2
<1>5. CASE RenewDelete(r)
  <2>1. PICK p : p = [req[r] EXCEPT !.at = IF active THEN "spent" ELSE "refused"]
    OBVIOUS
  <2>2. /\ req[r].at = "known" /\ req' = [req EXCEPT ![r] = p]
        /\ keys' = IF active THEN keys \ {req[r].token} ELSE keys
        /\ UNCHANGED <<minted, logins, overlap, closed>>
    BY <1>1, <1>5, <2>1 DEF RenewDelete, KeysWithout, historyVars
  <2>3. p \in Request /\ p.token = req[r].token /\ p.at = IF active THEN "spent" ELSE "refused"
    <3>1. CASE active
      BY <1>1, <2>1, <3>1 DEF Request
    <3>2. CASE ~active
      BY <1>1, <2>1, <3>2 DEF Request
    <3> QED
      BY <3>1, <3>2
  <2> QED
    BY <2>2, <2>3, KnowingEndsKeepsSession
<1>6. CASE RenewStore(r)
  BY <1>6, StoreKeepsSession
<1>7. CASE RenewFails(r)
  <2>1. /\ req' = [req EXCEPT ![r] = Quiet] /\ UNCHANGED <<keys, minted, logins, overlap, closed>>
    BY <1>7 DEF RenewFails, historyVars
  <2> QED
    BY <1>1, <1>2, <2>1, KnowingEndsKeepsSession
<1> QED
  BY <1>3, <1>4, <1>5, <1>6, <1>7 DEF Handle

LEMMA LoginInvStep == SInv /\ SInv' /\ LoginInv /\ [Next]_vars => LoginInv'
<1> SUFFICES ASSUME SInv, SInv', LoginInv, [Next]_vars PROVE LoginInv'
  OBVIOUS
<1>1. ASSUME minted' = minted, logins' = logins, overlap' = overlap, closed' = closed,
             keys' \subseteq keys, req' = req
      PROVE  LoginInv'
  BY <1>1, PlainKeepsSession
<1>2. CASE \E w \in Worker : Boot(w) \/ BootDies(w)
  BY <1>1, <1>2 DEF Boot, BootCheck, BootPrivate, BootPublic, BootDies, historyVars
<1>3. CASE \E t \in Tab : LoginStore(t)
  BY <1>3, LoginKeepsSession
<1>4. CASE \E t \in Tab : LoginAnswer(t) \/ LoginFails(t) \/ Open(t) \/ Leave(t)
  BY <1>1, <1>4 DEF LoginAnswer, LoginFails, Open, Leave, historyVars
<1>5. CASE \E r \in Req : Send(r) \/ Handle(r) \/ RenewFails(r)
  BY <1>5, RequestKeepsSession
<1>6. CASE \E n \in Pair : Logout(n)
  BY <1>6, LogoutKeepsSession
<1>7. CASE (\E n \in Pair : AccessExpires(n) \/ KeyLapses(n)) \/ Deactivate
  BY <1>1, <1>7 DEF AccessExpires, KeyLapses, Deactivate, historyVars
<1>8. CASE UNCHANGED vars
  BY <1>1, <1>8 DEF vars, historyVars
<1> QED
  BY <1>2, <1>3, <1>4, <1>5, <1>6, <1>7, <1>8 DEF Next

LEMMA LoginInvAlways == Spec => [](SInv /\ LoginInv)
<1>1. Init => SInv /\ LoginInv
  BY SInvInit, LoginInvInit
<1>2. SInv /\ LoginInv /\ [Next]_vars => (SInv /\ LoginInv)'
  BY SInvStep, LoginInvStep
<1> QED
  BY <1>1, <1>2, PTL DEF Spec

\* The keys that a refresh is about to delete are no more than the calls that do so.
LEMMA AskedFew ==
  ASSUME SInv, NEW l \in Login
  PROVE  Cardinality(KeysOf(l)) <= Cardinality(Alone(l)) + Cardinality(Knowing(l))
<1> DEFINE A == KeysOf(l) \ Alone(l)
           K == {r \in Knowing(l) : req[r].token \in A}
           f == [r \in K |-> req[r].token]
<1>1. IsFiniteSet(K) /\ Cardinality(K) <= Cardinality(Knowing(l))
  BY SmallSets, FS_Subset
<1>2. f \in Surjection(K, A)
  <2>1. \A n \in A : \E r \in K : f[r] = n
    BY DEF Alone, KeysOf, Knowing
  <2>2. f \in [K -> A]
    OBVIOUS
  <2> QED
    BY <2>1, <2>2, Fun_IsSurj
<1>3. IsFiniteSet(A) /\ Cardinality(A) <= Cardinality(K)
  BY <1>1, <1>2, FS_Surjection
<1>4. KeysOf(l) = Alone(l) \cup A /\ Alone(l) \cap A = {}
  BY DEF Alone
<1>5. Cardinality(KeysOf(l)) = Cardinality(Alone(l)) + Cardinality(A)
  <2>1. IsFiniteSet(Alone(l)) /\ Cardinality(Alone(l)) \in Nat /\ Cardinality(A) \in Nat /\ Cardinality({}) = 0
    BY <1>3, SmallSets, FS_CardinalityType, FS_EmptySet
  <2>2. Cardinality(Alone(l) \cup A) = Cardinality(Alone(l)) + Cardinality(A) - Cardinality(Alone(l) \cap A)
    BY <1>3, <2>1, FS_Union
  <2>3. Cardinality(Alone(l) \cup A) = Cardinality(KeysOf(l)) /\ Cardinality(Alone(l) \cap A) = 0
    BY <1>4, <2>1
  <2> HIDE DEF A
  <2> QED
    BY <2>1, <2>2, <2>3
<1>6. Cardinality(A) \in Nat /\ Cardinality(K) \in Nat
  BY <1>1, <1>3, FS_CardinalityType
<1>7. Cardinality(Alone(l)) \in Nat /\ Cardinality(Knowing(l)) \in Nat
  BY SmallSets
<1> QED
  BY <1>1, <1>3, <1>5, <1>6, <1>7

\* However many refresh calls of however many tabs overlap, a login has one live
\* refresh key, and one more at most for each call that found a token another
\* call had found.
THEOREM KeysAreCounted == Spec => []OneLiveKey
<1>1. SInv /\ LoginInv => OneLiveKey
  <2> SUFFICES ASSUME SInv, LoginInv, NEW l \in Login
               PROVE  Cardinality(KeysOf(l)) <= 1 + overlap[l]
    BY DEF OneLiveKey, KeysOf
  <2>1. Cardinality(Alone(l)) + Cardinality(Knowing(l)) + Cardinality(Having(l)) <= 1 + overlap[l]
    BY DEF LoginInv, OneSession
  <2>2. /\ Cardinality(Alone(l)) \in Nat /\ Cardinality(Knowing(l)) \in Nat
        /\ Cardinality(Having(l)) \in Nat /\ Cardinality(KeysOf(l)) \in Nat
    BY SmallSets
  <2>3. overlap[l] \in Nat
    BY DEF SInv, TypeOK
  <2> QED
    BY <2>1, <2>2, <2>3, AskedFew
<1> QED
  BY <1>1, LoginInvAlways, PTL

\* A login that /auth/logout ended while no refresh was under way stays ended.
THEOREM LogoutIsFinal == Spec => []LogoutEnds
<1>1. SInv /\ LoginInv => LogoutEnds
  BY DEF SInv, TypeOK, LoginInv, OneSession, LogoutEnds, KeysOf
<1> QED
  BY <1>1, LoginInvAlways, PTL

-----------------------------------------------------------------------------
(* Who is thrown out *)

Held(n)    == n \in keys \/ n \in ended
Asks(r, n) == req[r].at \in {"renew", "known"} /\ req[r].token = n

\* A token without its key that nothing ended was presented; by one call more if
\* one is about to ask for it; and each call that is about to ask has presented it.
Accounted(n) ==
  /\ Held(n) \/ presented[n] >= 1
  /\ \A r \in Req : Asks(r, n) => presented[n] >= 1 /\ (Held(n) \/ presented[n] > 1)
  /\ \A r, q \in Req : Asks(r, n) /\ Asks(q, n) /\ r # q => presented[n] > 1

PresentedInv == \A n \in 1..pairs : Accounted(n)

LEMMA PresentedInvInit == Init => PresentedInv
  BY SessionsAssumption DEF Init, PresentedInv

\* Steps that present nothing, let no call ask, and end the keys they delete
LEMMA PlainKeepsPresented ==
  ASSUME SInv, PresentedInv, pairs' = pairs, presented' = presented,
         \A n \in 1..pairs : Held(n) => Held(n)',
         \A r \in Req, n \in 1..pairs : Asks(r, n)' => Asks(r, n)
  PROVE  PresentedInv'
<1> SUFFICES ASSUME NEW n \in 1..pairs PROVE Accounted(n)'
  BY DEF PresentedInv
<1> QED
  BY DEF PresentedInv, Accounted

\* Steps that hand a pair out store its key.
LEMMA MintKeepsPresented ==
  ASSUME SInv, SInv', PresentedInv, pairs' = pairs + 1, presented' = presented, ended' = ended,
         keys' = keys \cup {pairs + 1},
         \A r \in Req, n \in 1..pairs' : Asks(r, n)' => Asks(r, n)
  PROVE  PresentedInv'
<1> SUFFICES ASSUME NEW n \in 1..pairs' PROVE Accounted(n)'
  BY DEF PresentedInv
<1>1. pairs \in Nat /\ (n \in 1..pairs \/ n = pairs + 1)
  BY Bounds DEF SInv
<1>2. CASE n \in 1..pairs
  BY <1>2 DEF PresentedInv, Accounted, Held
<1>3. CASE n = pairs + 1
  <2>1. n \in keys'
    BY <1>3
  <2>2. \A r \in Req : ~Asks(r, n)
    BY <1>1, <1>3 DEF SInv, TypeOK, Carries, Asks
  <2> QED
    BY <2>1, <2>2 DEF Accounted, Held
<1> QED
  BY <1>1, <1>2, <1>3

\* A call presents a token: it is one more than those that asked for it so far.
LEMMA InterceptKeepsPresented ==
  ASSUME SInv, PresentedInv, NEW r \in Req, Intercept(r)
  PROVE  PresentedInv'
<1>1. /\ req \in [Req -> Request] /\ tab \in [Tab -> 0..pairs] /\ presented \in [Pair -> Nat]
      /\ TabOf(r) \in Tab
  BY SessionsAssumption DEF SInv, TypeOK, TabOf
<1>2. req[r].at = "denied" /\ UNCHANGED <<keys, ended, pairs>>
  BY DEF Intercept
<1>3. PICK m : m = tab[TabOf(r)]
  OBVIOUS
<1>4. CASE m = NoPair
  <2>1. req' = [req EXCEPT ![r] = Quiet] /\ presented' = presented
    BY <1>3, <1>4 DEF Intercept
  <2>2. \A q \in Req, n \in 1..pairs : Asks(q, n)' => Asks(q, n)
    BY <1>1, <2>1, QuietFacts DEF Asks
  <2> QED
    BY <1>2, <2>1, <2>2, PlainKeepsPresented DEF Held
<1>5. CASE m # NoPair
  <2>1. m \in 1..pairs /\ m \in Pair
    BY <1>1, <1>3, <1>5, Bounds DEF SInv
  <2>2. /\ req' = [req EXCEPT ![r].at = "renew", ![r].token = m]
        /\ presented' = [presented EXCEPT ![m] = @ + 1]
    BY <1>3, <1>5 DEF Intercept
  <2>3. /\ \A q \in Req : q # r => req'[q] = req[q]
        /\ req'[r].token = m
    BY <1>1, <2>1, <2>2 DEF Request
  <2> SUFFICES ASSUME NEW n \in 1..pairs PROVE Accounted(n)'
    BY <1>2 DEF PresentedInv
  <2>4. Accounted(n) /\ n \in Pair /\ presented[n] \in Nat /\ (Held(n)' <=> Held(n)) /\ ~Asks(r, n)
    BY <1>1, <1>2, Bounds DEF SInv, PresentedInv, Held, Asks
  <2>5. \A q \in Req : q # r => (Asks(q, n)' <=> Asks(q, n))
    BY <2>3 DEF Asks
  <2>6. CASE n # m
    <3>1. presented'[n] = presented[n] /\ ~Asks(r, n)'
      BY <1>1, <2>2, <2>3, <2>4, <2>6 DEF Asks
    <3> QED
      BY <2>4, <2>5, <3>1 DEF Accounted
  <2>7. CASE n = m
    <3>1. presented'[n] = presented[n] + 1
      BY <1>1, <2>2, <2>4, <2>7
    <3> QED
      BY <2>4, <2>5, <3>1 DEF Accounted
  <2> QED
    BY <2>6, <2>7
<1> QED
  BY <1>4, <1>5

\* A refresh call deletes the key of the token it presented; any other call that
\* asks for it has presented it too.
LEMMA DeleteKeepsPresented ==
  ASSUME SInv, PresentedInv, NEW r \in Req, RenewDelete(r)
  PROVE  PresentedInv'
<1>1. req \in [Req -> Request] /\ presented \in [Pair -> Nat]
  BY DEF SInv, TypeOK
<1>2. PICK m : m = req[r].token
  OBVIOUS
<1>3. /\ req[r].at = "known" /\ UNCHANGED <<presented, ended, pairs>> /\ m \in 1..pairs
      /\ req' = [req EXCEPT ![r].at = IF active THEN "spent" ELSE "refused"]
      /\ keys \ {m} \subseteq keys'
  BY <1>2 DEF RenewDelete, KeysWithout, historyVars, SInv, TypeOK, Carries
<1>4. /\ \A q \in Req : q # r => req'[q] = req[q]
      /\ req'[r].at \notin {"renew", "known"}
  BY <1>1, <1>3 DEF Request
<1> SUFFICES ASSUME NEW n \in 1..pairs PROVE Accounted(n)'
  BY <1>3 DEF PresentedInv
<1>5. /\ Accounted(n) /\ presented'[n] = presented[n] /\ n \in Pair /\ presented[n] \in Nat
      /\ \A q \in Req : Asks(q, n)' => Asks(q, n) /\ q # r
  BY <1>1, <1>3, <1>4, Bounds DEF SInv, PresentedInv, Asks
<1>6. CASE n # m
  <2>1. Held(n) => Held(n)'
    BY <1>3, <1>6 DEF Held
  <2> QED
    BY <1>5, <2>1 DEF Accounted
<1>7. CASE n = m
  <2>1. Asks(r, n)
    BY <1>2, <1>3, <1>7 DEF Asks
  <2> QED
    BY <1>5, <2>1 DEF Accounted
<1> QED
  BY <1>6, <1>7

LEMMA RequestKeepsPresented ==
  ASSUME SInv, SInv', PresentedInv, NEW r \in Req, Send(r) \/ Handle(r) \/ RenewFails(r)
  PROVE  PresentedInv'
<1>1. req \in [Req -> Request] /\ req[r] \in Request
  BY DEF SInv, TypeOK
<1>2. CASE Send(r) \/ Serve(r) \/ Renewed(r) \/ Refused(r) \/ RenewFails(r) \/ RenewCheck(r)
  <2>1. UNCHANGED <<keys, ended, pairs, presented>>
    BY <1>2 DEF Send, Serve, Renewed, Refused, RenewFails, RenewCheck, historyVars
  <2>2. /\ \A q \in Req : q # r => req'[q] = req[q]
        /\ req'[r].at \in {"renew", "known"} => req[r].at = "renew" /\ req'[r].token = req[r].token
    <3>1. CASE Send(r) \/ Renewed(r)
      <4>1. PICK n : req' = [req EXCEPT ![r] = [Quiet EXCEPT !.at = "sent", !.access = n]]
        BY <3>1 DEF Send, Renewed
      <4>2. PICK p : p = [Quiet EXCEPT !.at = "sent", !.access = n]
        OBVIOUS
      <4>3. p.at = "sent" /\ req' = [req EXCEPT ![r] = p]
        BY <4>1, <4>2 DEF Quiet
      <4> QED
        BY <1>1, <4>3
    <3>4. CASE Serve(r)
      BY <1>1, <3>4, QuietFacts DEF Serve, Request
    <3>2. CASE Refused(r) \/ RenewFails(r)
      BY <1>1, <3>2, QuietFacts DEF Refused, RenewFails
    <3>3. CASE RenewCheck(r)
      BY <1>1, <3>3 DEF RenewCheck, Request
    <3> QED
      BY <1>2, <3>1, <3>2, <3>3, <3>4
  <2>3. \A q \in Req, n \in 1..pairs : Asks(q, n)' => Asks(q, n)
    BY <2>2 DEF Asks
  <2> QED
    BY <2>1, <2>3, PlainKeepsPresented DEF Held
<1>3. CASE Intercept(r)
  BY <1>3, InterceptKeepsPresented
<1>4. CASE RenewDelete(r)
  BY <1>4, DeleteKeepsPresented
<1>5. CASE RenewStore(r)
  <2>1. /\ pairs' = pairs + 1 /\ keys' = keys \cup {pairs + 1} /\ UNCHANGED <<presented, ended>>
        /\ req' = [req EXCEPT ![r].at = "stored", ![r].new = pairs + 1]
    BY <1>5 DEF RenewStore, Kept, Mint, historyVars
  <2>2. req'[r].at \notin {"renew", "known"} /\ \A q \in Req : q # r => req'[q] = req[q]
    BY <1>1, <2>1 DEF Request
  <2>3. \A q \in Req, n \in 1..pairs' : Asks(q, n)' => Asks(q, n)
    BY <2>2 DEF Asks
  <2> QED
    BY <2>1, <2>3, MintKeepsPresented
<1> QED
  BY <1>2, <1>3, <1>4, <1>5 DEF Handle

LEMMA PresentedInvStep == SInv /\ SInv' /\ PresentedInv /\ [Next]_vars => PresentedInv'
<1> SUFFICES ASSUME SInv, SInv', PresentedInv, [Next]_vars PROVE PresentedInv'
  OBVIOUS
<1>1. ASSUME UNCHANGED <<pairs, presented, req>>, keys \cup ended \subseteq keys' \cup ended'
      PROVE  PresentedInv'
  BY <1>1, PlainKeepsPresented DEF Held, Asks
<1>2. CASE \E w \in Worker : Boot(w) \/ BootDies(w)
  BY <1>1, <1>2 DEF Boot, BootCheck, BootPrivate, BootPublic, BootDies, historyVars
<1>3. CASE \E t \in Tab : LoginStore(t)
  <2>1. /\ pairs' = pairs + 1 /\ keys' = keys \cup {pairs + 1} /\ UNCHANGED <<presented, ended, req>>
    BY <1>3 DEF LoginStore, Mint, historyVars
  <2> QED
    BY <2>1, MintKeepsPresented DEF Asks
<1>4. CASE \E t \in Tab : LoginAnswer(t) \/ LoginFails(t) \/ Open(t) \/ Leave(t)
  BY <1>1, <1>4 DEF LoginAnswer, LoginFails, Open, Leave, historyVars
<1>5. CASE \E r \in Req : Send(r) \/ Handle(r) \/ RenewFails(r)
  BY <1>5, RequestKeepsPresented
<1>6. CASE (\E n \in Pair : Logout(n) \/ AccessExpires(n) \/ KeyLapses(n)) \/ Deactivate
  BY <1>1, <1>6 DEF Logout, AccessExpires, KeyLapses, Deactivate, historyVars
<1>7. CASE UNCHANGED vars
  BY <1>1, <1>7 DEF vars, historyVars
<1> QED
  BY <1>2, <1>3, <1>4, <1>5, <1>6, <1>7 DEF Next

\* A refresh call is refused only where it asks for its key or finds the account
\* deactivated.
LEMMA RefusedForCause ==
  ASSUME SInv, PresentedInv, [Next]_vars, NEW r \in Req,
         req'[r].at = "refused", req[r].at # "refused"
  PROVE  presented[req[r].token] > 1 \/ Excused(req[r].token)
<1>1. req \in [Req -> Request] /\ req[r] \in Request
  BY DEF SInv, TypeOK
<1>2. RenewCheck(r) \/ RenewDelete(r)
  <2>1. \E q \in Req : Send(q) \/ Handle(q) \/ RenewFails(q)
    BY DEF Next, Boot, BootCheck, BootPrivate, BootPublic, BootDies, LoginStore, LoginAnswer,
           LoginFails, Open, Leave, Logout, AccessExpires, KeyLapses, Deactivate, vars
  <2>2. PICK q \in Req : Send(q) \/ Handle(q) \/ RenewFails(q)
    BY <2>1
  <2>3. q = r
    BY <1>1, <2>2 DEF Send, Handle, Serve, Intercept, RenewCheck, RenewDelete, RenewStore, Renewed,
                      Refused, RenewFails
  <2>4. ~Send(r) /\ ~Renewed(r) /\ ~Refused(r) /\ ~RenewFails(r)
    BY <1>1, QuietFacts DEF Send, Renewed, Refused, RenewFails, Quiet
  <2>5. ~Serve(r) /\ ~Intercept(r) /\ ~RenewStore(r)
    BY <1>1, QuietFacts DEF Serve, Intercept, RenewStore, Request
  <2> QED
    BY <2>2, <2>3, <2>4, <2>5 DEF Handle
<1>3. CASE RenewCheck(r)
  <2>1. req[r].at = "renew" /\ ~Valid(req[r].token) /\ req[r].token \in 1..pairs
    BY <1>1, <1>3 DEF RenewCheck, SInv, TypeOK, Carries, Request
  <2>2. Accounted(req[r].token) /\ Asks(r, req[r].token)
    BY <2>1 DEF PresentedInv, Asks
  <2> QED
    BY <2>1, <2>2 DEF Accounted, Held, Valid, Excused
<1>4. CASE RenewDelete(r)
  BY <1>1, <1>4 DEF RenewDelete, Excused, Request
<1> QED
  BY <1>2, <1>3, <1>4

\* Whatever the tabs do at once, a refresh is refused only if its token was
\* presented twice or something happened to the token or the account.
THEOREM InnocentIsKept == Spec => InnocentStays
<1>1. Init => SInv /\ PresentedInv
  BY SInvInit, PresentedInvInit
<1>2. SInv /\ PresentedInv /\ [Next]_vars => (SInv /\ PresentedInv)'
  BY SInvStep, PresentedInvStep
<1>3. SInv /\ PresentedInv /\ [Next]_vars
        => [\A r \in Req : req'[r].at = "refused" /\ req[r].at # "refused"
              => presented[req[r].token] > 1 \/ Excused(req[r].token)]_vars
  BY RefusedForCause
<1> QED
  BY <1>1, <1>2, <1>3, PTL DEF Spec, InnocentStays
=============================================================================
