------------------------------ MODULE Sessions ------------------------------
(***************************************************************************)
(* The sessions of a user: login, refresh and logout of app/routers/auth.py *)
(* over the keys pms:refresh:<jti> in Redis, the check of access tokens in *)
(* app/core/deps.py, the files with the key pair that every server process *)
(* makes if they are missing (app/core/security.py), and the dashboard,    *)
(* whose tabs share one localStorage and refresh on their own as soon as   *)
(* any of their requests is refused.                                       *)
(***************************************************************************)
EXTENDS Integers, FiniteSets

CONSTANTS
  Worker,      \* server processes, which stand for the key pairs they make
  NoKey,       \* the key files are not there
  Tab,         \* tabs of the dashboard
  Req,         \* their requests, named by tab and number; those of a tab run in parallel
  MaxLogins,   \* bound: logins
  MaxPair,     \* bound: pairs of an access and a refresh token handed out
  Budgets      \* bound: how often each fault or act of the user occurs

\* The first start with an empty key directory; an access token expires, a
\* refresh key lapses or is evicted, a call of /auth/logout, the account is
\* deactivated, a call of refresh fails, a process dies at its start, the user
\* presses logout in a tab
Fault == {"install", "expire", "lapse", "logout", "disable", "error", "die", "leave"}

ASSUME SessionsAssumption ==
  /\ IsFiniteSet(Worker) /\ Worker # {} /\ NoKey \notin Worker
  /\ IsFiniteSet(Tab) /\ IsFiniteSet(Req) /\ Req \subseteq Tab \X Nat
  /\ MaxLogins \in Nat /\ MaxPair \in Nat
  /\ Budgets \subseteq [Fault -> Nat]

Pair   == 1..MaxPair
NoPair == 0
Login  == 1..MaxLogins

TabOf(r) == r[1]

\* The tokens of a pair: the login they come from and the key that signed them
Minted == [login : 0..MaxLogins, key : Worker \cup {NoKey}]

\* A request of a tab: the access token it carries, then the refresh token that
\* the interceptor presents, and the pair that refresh makes of it.
Request == [at : {"idle", "sent", "denied", "renew", "known", "spent", "stored", "refused"},
            access : Pair \cup {NoPair}, token : Pair \cup {NoPair}, new : Pair \cup {NoPair}]

Quiet == [at |-> "idle", access |-> NoPair, token |-> NoPair, new |-> NoPair]

VARIABLES
  boot,       \* how far each process is with generate_rsa_keys
  private,    \* private.pem
  public,     \* public.pem
  active,     \* users.is_active
  keys,       \* pairs with a key pms:refresh:<jti>
  fresh,      \* pairs whose access token has not expired
  minted,     \* the pairs
  pairs,      \* how many there are
  logins,     \* logins so far
  store,      \* localStorage
  tab,        \* the tokens in the memory of each tab
  entry,      \* login calls: the pair that is stored and not yet answered
  req,        \* the requests
  crossed,    \* history: a process wrote its private key between the two files of
              \* another, or died after it had replaced one half of a pair
  overlap,    \* history: refresh calls that found a token another call had found
  ended,      \* history: pairs whose key lapsed or was logged out
  presented,  \* history: how often each refresh token was presented
  closed,     \* history: logins that were ended by /auth/logout, no refresh being under way
  budget

serverVars  == <<boot, private, public, crossed>>
dashVars    == <<store, tab>>
historyVars == <<overlap, presented, ended, closed>>
vars == <<serverVars, active, keys, fresh, minted, pairs, logins, dashVars, entry, req,
          historyVars, budget>>

Spend(f) == budget[f] > 0 /\ budget' = [budget EXCEPT ![f] = @ - 1]

LoginOf(n) == minted[n].login

-----------------------------------------------------------------------------
(* generate_rsa_keys, in every process at its start *)

\* Defect: one of the two files is enough.
OneThere == private # NoKey \/ public # NoKey

BothThere == private # NoKey /\ public # NoKey

BootCheck(w) ==
  /\ boot[w] = "start"
  /\ boot' = [boot EXCEPT ![w] = IF BothThere THEN "up" ELSE "make"]
  /\ UNCHANGED <<private, public, crossed, active, keys, fresh, minted, pairs, logins,
                 dashVars, entry, req, historyVars, budget>>

BootPrivate(w) ==
  /\ boot[w] = "make"
  /\ private' = w
  /\ boot' = [boot EXCEPT ![w] = "half"]
  /\ crossed' = (crossed \/ \E v \in Worker : boot[v] = "half")
  /\ UNCHANGED <<public, active, keys, fresh, minted, pairs, logins, dashVars, entry, req,
                 historyVars, budget>>

BootPublic(w) ==
  /\ boot[w] = "half"
  /\ public' = w
  /\ boot' = [boot EXCEPT ![w] = "up"]
  /\ UNCHANGED <<private, crossed, active, keys, fresh, minted, pairs, logins, dashVars,
                 entry, req, historyVars, budget>>

\* A process dies between its two files and is started again.
BootDies(w) ==
  /\ boot[w] = "half" /\ Spend("die")
  /\ boot' = [boot EXCEPT ![w] = "start"]
  /\ crossed' = (crossed \/ public # NoKey)
  /\ UNCHANGED <<private, public, active, keys, fresh, minted, pairs, logins,
                 dashVars, entry, req, historyVars>>

Serving == \E w \in Worker : boot[w] = "up"

\* decode_token
Signed(n) == minted[n].key = public

\* A fresh pair, signed with the private key as it is now.
Mint(l) ==
  /\ pairs < MaxPair
  /\ pairs' = pairs + 1
  /\ minted' = [minted EXCEPT ![pairs + 1] = [login |-> l, key |-> private]]
  /\ fresh' = fresh \cup {pairs + 1}

-----------------------------------------------------------------------------
(* login *)

LoginStore(t) ==
  /\ Serving /\ active /\ tab[t] = NoPair /\ entry[t] = NoPair /\ logins < MaxLogins
  /\ Mint(logins + 1)
  /\ logins' = logins + 1
  /\ keys' = keys \cup {pairs + 1}
  /\ entry' = [entry EXCEPT ![t] = pairs + 1]
  /\ UNCHANGED <<serverVars, active, dashVars, req, historyVars, budget>>

\* The commit and the answer.
LoginAnswer(t) ==
  /\ entry[t] # NoPair
  /\ tab' = [tab EXCEPT ![t] = entry[t]] /\ store' = entry[t]
  /\ entry' = [entry EXCEPT ![t] = NoPair]
  /\ UNCHANGED <<serverVars, active, keys, fresh, minted, pairs, logins, req, historyVars, budget>>

LoginFails(t) ==
  /\ entry[t] # NoPair /\ Spend("error")
  /\ entry' = [entry EXCEPT ![t] = NoPair]
  /\ UNCHANGED <<serverVars, active, keys, fresh, minted, pairs, logins, dashVars, req, historyVars>>

-----------------------------------------------------------------------------
(* The dashboard *)

\* A tab is opened or loaded again and takes what localStorage has.
Open(t) ==
  /\ \A r \in Req : TabOf(r) = t => req[r] = Quiet
  /\ entry[t] = NoPair /\ tab[t] # store
  /\ tab' = [tab EXCEPT ![t] = store]
  /\ UNCHANGED <<serverVars, active, keys, fresh, minted, pairs, logins, store, entry, req,
                 historyVars, budget>>

\* logout of the store: nothing is said to the server.
Forget(t) == tab' = [tab EXCEPT ![t] = NoPair] /\ store' = NoPair

Leave(t) ==
  /\ tab[t] # NoPair /\ Spend("leave")
  /\ Forget(t)
  /\ UNCHANGED <<serverVars, active, keys, fresh, minted, pairs, logins, entry, req, historyVars>>

Send(r) ==
  /\ req[r] = Quiet /\ tab[TabOf(r)] # NoPair
  /\ req' = [req EXCEPT ![r] = [Quiet EXCEPT !.at = "sent", !.access = tab[TabOf(r)]]]
  /\ UNCHANGED <<serverVars, active, keys, fresh, minted, pairs, logins, dashVars, entry,
                 historyVars, budget>>

\* get_current_user
Admits(n) == n \in fresh /\ Signed(n) /\ active

Serve(r) ==
  /\ req[r].at = "sent"
  /\ req' = [req EXCEPT ![r] = IF Admits(@.access) THEN Quiet ELSE [@ EXCEPT !.at = "denied"]]
  /\ UNCHANGED <<serverVars, active, keys, fresh, minted, pairs, logins, dashVars, entry,
                 historyVars, budget>>

\* The interceptor gets the 401 and presents the refresh token the tab has by
\* now; without one the request has failed.
Intercept(r) ==
  /\ req[r].at = "denied"
  /\ LET n == tab[TabOf(r)] IN
       IF n = NoPair THEN req' = [req EXCEPT ![r] = Quiet] /\ UNCHANGED presented
       ELSE /\ req' = [req EXCEPT ![r].at = "renew", ![r].token = n]
            /\ presented' = [presented EXCEPT ![n] = @ + 1]
  /\ UNCHANGED <<serverVars, active, keys, fresh, minted, pairs, logins, dashVars, entry,
                 overlap, ended, closed, budget>>

\* Defects: the request goes out again without a token, or with the refused one.
RetryBare(r)  == NoPair
RetryStale(r) == req[r].access

\* The request goes out again with the new access token.
Retry(r) == req[r].new

\* The answer of refresh arrives.
Renewed(r) ==
  /\ req[r].at = "stored"
  /\ tab' = [tab EXCEPT ![TabOf(r)] = req[r].new] /\ store' = req[r].new
  /\ req' = [req EXCEPT ![r] = [Quiet EXCEPT !.at = "sent", !.access = Retry(r)]]
  /\ UNCHANGED <<serverVars, active, keys, fresh, minted, pairs, logins, entry, historyVars, budget>>

\* refresh was refused: the tab forgets its tokens, and localStorage with it.
Refused(r) ==
  /\ req[r].at = "refused"
  /\ Forget(TabOf(r))
  /\ req' = [req EXCEPT ![r] = Quiet]
  /\ UNCHANGED <<serverVars, active, keys, fresh, minted, pairs, logins, entry, historyVars, budget>>

\* So it does when refresh fails at any of its points or the answer is lost.
RenewFails(r) ==
  /\ req[r].at \in {"renew", "known", "spent", "stored"} /\ Spend("error")
  /\ Forget(TabOf(r))
  /\ req' = [req EXCEPT ![r] = Quiet]
  /\ UNCHANGED <<serverVars, active, keys, fresh, minted, pairs, logins, entry, historyVars>>

-----------------------------------------------------------------------------
(* refresh and logout *)

\* Defect: a token that decodes is good.
ValidIfSigned(n) == Signed(n)

\* The signature, and the key in Redis.
Valid(n) == Signed(n) /\ n \in keys

RenewCheck(r) ==
  /\ req[r].at = "renew"
  /\ LET n == req[r].token IN
       /\ req' = [req EXCEPT ![r].at = IF Valid(n) THEN "known" ELSE "refused"]
       /\ overlap' = IF Valid(n) /\ \E q \in Req : req[q].at = "known" /\ req[q].token = n
                     THEN [overlap EXCEPT ![LoginOf(n)] = @ + 1] ELSE overlap
  /\ UNCHANGED <<serverVars, active, keys, fresh, minted, pairs, logins, dashVars, entry,
                 presented, ended, closed, budget>>

\* Defect: the old key stays.
KeysKept(n) == keys

KeysWithout(n) == keys \ {n}

\* SELECT of the user, DELETE of the key
RenewDelete(r) ==
  /\ req[r].at = "known"
  /\ keys' = IF active THEN KeysWithout(req[r].token) ELSE keys
  /\ req' = [req EXCEPT ![r].at = IF active THEN "spent" ELSE "refused"]
  /\ UNCHANGED <<serverVars, active, fresh, minted, pairs, logins, dashVars, entry,
                 historyVars, budget>>

\* Defect: SETEX of the old jti.
KeptOld(r) == req[r].token

\* SETEX of the new jti
Kept(r) == pairs + 1

RenewStore(r) ==
  /\ req[r].at = "spent"
  /\ Mint(LoginOf(req[r].token))
  /\ keys' = keys \cup {Kept(r)}
  /\ req' = [req EXCEPT ![r].at = "stored", ![r].new = pairs + 1]
  /\ UNCHANGED <<serverVars, active, logins, dashVars, entry, historyVars, budget>>

\* POST /auth/logout with any refresh token that was handed out.
Underway(l) == \E r \in Req : req[r].at \in {"known", "spent"} /\ LoginOf(req[r].token) = l

Logout(n) ==
  /\ n \in 1..pairs /\ Spend("logout")
  /\ keys' = IF Signed(n) THEN keys \ {n} ELSE keys
  /\ ended' = ended \cup {n}
  /\ closed' = IF n \in keys /\ Signed(n) /\ ~Underway(LoginOf(n)) /\ overlap[LoginOf(n)] = 0
               THEN closed \cup {LoginOf(n)} ELSE closed
  /\ UNCHANGED <<serverVars, active, fresh, minted, pairs, logins, dashVars, entry, req,
                 overlap, presented>>

-----------------------------------------------------------------------------
(* The environment *)

AccessExpires(n) ==
  /\ n \in fresh /\ Spend("expire")
  /\ fresh' = fresh \ {n}
  /\ UNCHANGED <<serverVars, active, keys, minted, pairs, logins, dashVars, entry, req, historyVars>>

KeyLapses(n) ==
  /\ n \in keys /\ Spend("lapse")
  /\ keys' = keys \ {n}
  /\ ended' = ended \cup {n}
  /\ UNCHANGED <<serverVars, active, fresh, minted, pairs, logins, dashVars, entry, req,
                 overlap, presented, closed>>

Deactivate ==
  /\ active /\ Spend("disable")
  /\ active' = FALSE
  /\ UNCHANGED <<serverVars, keys, fresh, minted, pairs, logins, dashVars, entry, req, historyVars>>

-----------------------------------------------------------------------------
Init ==
  /\ budget \in Budgets
  /\ \/ /\ budget["install"] > 0
        /\ boot = [w \in Worker |-> "start"] /\ private = NoKey
     \/ /\ budget["install"] = 0
        /\ boot = [w \in Worker |-> "up"] /\ private = CHOOSE w \in Worker : TRUE
  /\ public = private
  /\ active = TRUE /\ keys = {} /\ fresh = {} /\ pairs = 0 /\ logins = 0
  /\ minted = [n \in Pair |-> [login |-> 0, key |-> NoKey]]
  /\ store = NoPair /\ tab = [t \in Tab |-> NoPair] /\ entry = [t \in Tab |-> NoPair]
  /\ req = [r \in Req |-> Quiet]
  /\ crossed = FALSE /\ ended = {} /\ closed = {}
  /\ overlap = [l \in Login |-> 0] /\ presented = [n \in Pair |-> 0]

Boot(w) == BootCheck(w) \/ BootPrivate(w) \/ BootPublic(w)

Handle(r) ==
  \/ Serve(r) \/ Intercept(r) \/ RenewCheck(r) \/ RenewDelete(r) \/ RenewStore(r)
  \/ Renewed(r) \/ Refused(r)

Next ==
  \/ \E w \in Worker : Boot(w) \/ BootDies(w)
  \/ \E t \in Tab : LoginStore(t) \/ LoginAnswer(t) \/ LoginFails(t) \/ Open(t) \/ Leave(t)
  \/ \E r \in Req : Send(r) \/ Handle(r) \/ RenewFails(r)
  \/ \E n \in Pair : Logout(n) \/ AccessExpires(n) \/ KeyLapses(n)
  \/ Deactivate

Spec == Init /\ [][Next]_vars

(***************************************************************************)
(* A request that was sent is handled and its answer arrives or is lost; a *)
(* process that starts comes up.  Nothing makes a user log in or a page    *)
(* send requests.                                                          *)
(***************************************************************************)
Fairness ==
  /\ \A r \in Req : WF_vars(Handle(r))
  /\ \A w \in Worker : WF_vars(Boot(w))

FairSpec == Spec /\ Fairness

-----------------------------------------------------------------------------
(* Properties *)

\* What a request carries at each of its stages
Carries(q) ==
  /\ q.at # "idle" => q.access \in 1..pairs
  /\ q.at \in {"renew", "known", "spent", "stored", "refused"} => q.token \in 1..pairs
  /\ q.at = "stored" => q.new \in 1..pairs

TypeOK ==
  /\ boot \in [Worker -> {"start", "make", "half", "up"}]
  /\ private \in Worker \cup {NoKey} /\ public \in Worker \cup {NoKey}
  /\ active \in BOOLEAN
  /\ pairs \in 0..MaxPair /\ logins \in 0..MaxLogins
  /\ keys \subseteq 1..pairs /\ fresh \subseteq 1..pairs
  /\ minted \in [Pair -> Minted]
  /\ store \in Pair \cup {NoPair} /\ tab \in [Tab -> Pair \cup {NoPair}]
  /\ entry \in [Tab -> Pair \cup {NoPair}] /\ req \in [Req -> Request]
  /\ \A r \in Req : Carries(req[r])
  /\ crossed \in BOOLEAN /\ ended \subseteq Pair /\ closed \subseteq Login
  /\ overlap \in [Login -> Nat] /\ presented \in [Pair -> Nat]
  /\ budget \in [Fault -> Nat]

\* When all processes are up the two key files belong together, unless one
\* process wrote its private key between the two files of another or died while
\* it replaced a pair: nothing else leaves files under which no token is accepted.
KeysBelongTogether ==
  (\A w \in Worker : boot[w] = "up") => private = public \/ crossed

\* A login has one live refresh key, and one more at most for each call that
\* found a refresh token which another call had found and not yet deleted.
OneLiveKey ==
  \A l \in Login : Cardinality({n \in keys : LoginOf(n) = l}) <= 1 + overlap[l]

\* refresh refuses a token that was presented once only if something happened to
\* it: it was signed with another key, lapsed, was logged out, or the account is
\* deactivated.  Whoever is thrown out otherwise has presented one token twice.
Excused(n) == ~Signed(n) \/ ~active \/ n \in ended

InnocentStays ==
  [][\A r \in Req : req'[r].at = "refused" /\ req[r].at # "refused"
       => presented[req[r].token] > 1 \/ Excused(req[r].token)]_vars

\* A login that was ended by /auth/logout while no refresh was under way has no
\* live key any more, whatever is presented later.
LogoutEnds == \A l \in closed : \A n \in keys : LoginOf(n) # l

\* A request of the dashboard ends: refused, refreshed and repeated requests do
\* not go round in a circle.
RequestsEnd == \A r \in Req : req[r].at # "idle" ~> req[r].at = "idle"
=============================================================================
