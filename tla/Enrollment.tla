------------------------------ MODULE Enrollment ------------------------------
(***************************************************************************)
(* The life of an endpoint.  An administrator issues an enrolment token    *)
(* and writes it into the configuration of a new agent; the agent trades   *)
(* it for a credential of its own and sends heartbeats with it from then   *)
(* on.  The token and the mark that an endpoint is online are keys in      *)
(* Redis, the endpoint is a row in PostgreSQL, and the credential is in a  *)
(* file of the agent: the handlers enroll and heartbeat of                 *)
(* app/routers/agent.py touch them one after the other.                    *)
(***************************************************************************)
EXTENDS Integers, FiniteSets

CONSTANTS
  Agent,         \* hosts with an agent
  Token,         \* enrolment tokens
  NoToken,       \* the empty enrollment_token of a configuration
  MaxId,         \* bound: endpoint ids handed out
  MaxAttempts,   \* attempts of one HTTP call of the agent
  Budgets        \* bound: how often each fault occurs

\* A failed attempt, an attempt that times out, the end of an agent, the expiry
\* of an enrolment token or of a credential, a change of status by an administrator
Fault == {"error", "late", "crash", "lapse", "stale", "admin"}

ASSUME EnrollmentAssumption ==
  /\ IsFiniteSet(Agent) /\ IsFiniteSet(Token) /\ NoToken \notin Token
  /\ MaxId \in Nat /\ MaxAttempts \in Nat \ {0}
  /\ Budgets \subseteq [Fault -> Nat]

-----------------------------------------------------------------------------
(* Data *)

Id     == 1..MaxId
NoId   == 0
Status == {"none", "active", "quarantined", "decommissioned"}

\* The fields of config.json that change
Config == [token : Token \cup {NoToken}, cred : Id \cup {NoId}]

\* A call of POST /agent/enroll or /agent/heartbeat.  live: the agent waits for
\* it.  seen is the status of the endpoint as get_current_agent loaded it.
Call == [agent : Agent, kind : {"enroll", "heartbeat"}, token : Token \cup {NoToken},
         id : Id \cup {NoId}, try : Nat, live : BOOLEAN, ok : BOOLEAN, seen : Status,
         stage : {"sent", "known", "spent", "stored", "marked", "replied"}]

VARIABLES
  issued,   \* tokens that were ever created
  tokens,   \* pms:enroll:<token>
  status,   \* endpoints.status
  online,   \* pms:endpoint:online:<id>
  ids,      \* endpoint ids handed out, the source of fresh ones
  stale,    \* endpoints whose credential has expired
  config,   \* config.json of the agents
  phase,    \* what each agent does
  calls,    \* calls under way
  source,   \* history: the token an endpoint was enrolled with
  overlap,  \* history: calls that found a token another call had found too
  budget    \* what may still happen

vars == <<issued, tokens, status, online, ids, stale, config, phase, calls, source,
          overlap, budget>>

Spend(f) == budget[f] > 0 /\ budget' = [budget EXCEPT ![f] = @ - 1]

Move(c, d) == calls' = (calls \ {c}) \cup {d}

\* The handler is done; nobody reads the answer of a call that was given up.
Reply(c, ok) ==
  IF c.live THEN Move(c, [c EXCEPT !.stage = "replied", !.ok = ok]) ELSE calls' = calls \ {c}

-----------------------------------------------------------------------------
(* The administrator *)

\* create_enrollment_token
Issue(t) ==
  /\ t \notin issued
  /\ issued' = issued \cup {t} /\ tokens' = tokens \cup {t}
  /\ UNCHANGED <<status, online, ids, stale, config, phase, calls, source, overlap, budget>>

\* A token is written into the configuration of an agent that does not run.
Provision(a, t) ==
  /\ phase[a] = "off" /\ config[a].cred = NoId /\ t \in issued
  /\ config' = [config EXCEPT ![a].token = t]
  /\ UNCHANGED <<issued, tokens, status, online, ids, stale, phase, calls, source, overlap, budget>>

Quarantine(e) ==
  /\ status[e] # "none" /\ Spend("admin")
  /\ status' = [status EXCEPT ![e] = "quarantined"]
  /\ UNCHANGED <<issued, tokens, online, ids, stale, config, phase, calls, source, overlap>>

Decommission(e) ==
  /\ status[e] # "none" /\ Spend("admin")
  /\ status' = [status EXCEPT ![e] = "decommissioned"]
  /\ UNCHANGED <<issued, tokens, online, ids, stale, config, phase, calls, source, overlap>>

-----------------------------------------------------------------------------
(* The agents *)

Send(a, k) ==
  calls' = calls \cup
    {[agent |-> a, kind |-> k, token |-> config[a].token, id |-> config[a].cred, try |-> 1,
      live |-> TRUE, ok |-> FALSE, seen |-> "none", stage |-> "sent"]}

\* run: an agent with a credential goes on, one without enrols first.
Start(a) ==
  /\ phase[a] = "off"
  /\ \/ /\ config[a].cred # NoId
        /\ phase' = [phase EXCEPT ![a] = "running"] /\ UNCHANGED calls
     \/ /\ config[a].cred = NoId /\ config[a].token # NoToken
        /\ phase' = [phase EXCEPT ![a] = "enrolling"] /\ Send(a, "enroll")
  /\ UNCHANGED <<issued, tokens, status, online, ids, stale, config, source, overlap, budget>>

Beat(a) ==
  /\ phase[a] = "running"
  /\ phase' = [phase EXCEPT ![a] = "beating"] /\ Send(a, "heartbeat")
  /\ UNCHANGED <<issued, tokens, status, online, ids, stale, config, source, overlap, budget>>

\* What an agent does when a call has failed for good: it exits if it could not
\* enrol, and waits for the next heartbeat otherwise.
AfterFailure(c) == [phase EXCEPT ![c.agent] = IF c.kind = "enroll" THEN "off" ELSE "running"]

\* The answer arrives.  After enroll the credential takes the place of the token
\* in the configuration.
Receive(c) ==
  /\ c.live /\ c.stage = "replied"
  /\ calls' = calls \ {c}
  /\ config' = IF c.ok THEN [config EXCEPT ![c.agent] = [token |-> NoToken, cred |-> c.id]]
               ELSE config
  /\ phase' = IF c.ok THEN [phase EXCEPT ![c.agent] = "running"] ELSE AfterFailure(c)
  /\ UNCHANGED <<issued, tokens, status, online, ids, stale, source, overlap, budget>>

\* The attempt fails: it never arrived, the server answers 5xx at any point of
\* the handler, or the answer is lost.  The client tries again, up to MaxAttempts.
Resend(c) == [c EXCEPT !.try = @ + 1, !.stage = "sent", !.ok = FALSE, !.seen = "none",
                       !.id = config[c.agent].cred]

AttemptFails(c) ==
  /\ c.live
  /\ Spend("error")
  /\ IF c.try < MaxAttempts THEN Move(c, Resend(c)) /\ UNCHANGED phase
     ELSE calls' = calls \ {c} /\ phase' = AfterFailure(c)
  /\ UNCHANGED <<issued, tokens, status, online, ids, stale, config, source, overlap>>

\* The client times out and tries again; the server still works on the call.
AttemptTimesOut(c) ==
  /\ c.live /\ c.try < MaxAttempts /\ c.stage # "replied"
  /\ Spend("late")
  /\ calls' = (calls \ {c}) \cup {[c EXCEPT !.live = FALSE], Resend(c)}
  /\ UNCHANGED <<issued, tokens, status, online, ids, stale, config, phase, source, overlap>>

\* The agent process ends.  While it writes its configuration the file may be
\* left truncated, and no later run can load it.
AgentDies(a) ==
  /\ phase[a] # "off"
  /\ Spend("crash")
  /\ phase' = [phase EXCEPT ![a] = "off"]
  /\ \/ UNCHANGED config
     \/ /\ \E c \in calls : c.agent = a /\ c.kind = "enroll" /\ c.live /\ c.ok
        /\ config' = [config EXCEPT ![a] = [token |-> NoToken, cred |-> NoId]]
  /\ calls' = {c \in calls : ~(c.agent = a /\ c.live)}
  /\ UNCHANGED <<issued, tokens, status, online, ids, stale, source, overlap>>

-----------------------------------------------------------------------------
(* enroll *)

\* GET of the token
EnrollCheck(c) ==
  /\ c.kind = "enroll" /\ c.stage = "sent"
  /\ IF c.token \in tokens THEN Move(c, [c EXCEPT !.stage = "known"]) ELSE Reply(c, FALSE)
  /\ overlap' = IF /\ c.token \in tokens
                   /\ \E d \in calls : d.stage = "known" /\ d.token = c.token
                THEN [overlap EXCEPT ![c.token] = @ + 1] ELSE overlap
  /\ UNCHANGED <<issued, tokens, status, online, ids, stale, config, phase, source, budget>>

\* Defect: the token is left for the next caller.
TokensUnspent(t) == tokens

\* DELETE of the token
Without(t) == tokens \ {t}

\* DELETE of the token, and a fresh id and credential for the endpoint
EnrollSpend(c) ==
  /\ c.kind = "enroll" /\ c.stage = "known"
  /\ ids < MaxId
  /\ tokens' = Without(c.token)
  /\ ids' = ids + 1
  /\ Move(c, [c EXCEPT !.stage = "spent", !.id = ids + 1])
  /\ UNCHANGED <<issued, status, online, stale, config, phase, source, overlap, budget>>

\* The endpoint is committed ...
EnrollCommit(c) ==
  /\ c.stage = "spent"
  /\ status' = [status EXCEPT ![c.id] = "active"]
  /\ source' = [source EXCEPT ![c.id] = c.token]
  /\ Move(c, [c EXCEPT !.stage = "stored"])
  /\ UNCHANGED <<issued, tokens, online, ids, stale, config, phase, overlap, budget>>

\* Defect: the endpoint is announced before it is committed.
AnnounceSpent == "spent"

\* ... before it is marked as online and announced to the agent.
Announced == "stored"

EnrollAnswer(c) ==
  /\ c.kind = "enroll" /\ c.stage = Announced
  /\ online' = online \cup {c.id}
  /\ Reply(c, TRUE)
  /\ UNCHANGED <<issued, tokens, status, ids, stale, config, phase, source, overlap, budget>>

-----------------------------------------------------------------------------
(* heartbeat *)

\* Defects: the check forgets a status, or takes one too many.
AdmitsActive(e)   == status[e] = "active" /\ e \notin stale
AdmitsEveryone(e) == status[e] # "none" /\ e \notin stale

\* get_current_agent
Admits(e) == status[e] \in {"active", "quarantined"} /\ e \notin stale

BeatAuth(c) ==
  /\ c.kind = "heartbeat" /\ c.stage = "sent"
  /\ IF Admits(c.id) THEN Move(c, [c EXCEPT !.stage = "known", !.seen = status[c.id]])
     ELSE Reply(c, FALSE)
  /\ UNCHANGED <<issued, tokens, status, online, ids, stale, config, phase, source, overlap, budget>>

BeatMark(c) ==
  /\ c.kind = "heartbeat" /\ c.stage = "known"
  /\ online' = online \cup {c.id}
  /\ Move(c, [c EXCEPT !.stage = "marked"])
  /\ UNCHANGED <<issued, tokens, status, ids, stale, config, phase, source, overlap, budget>>

\* Defects: the whole row is written; the presence is written into the status.
WholeRow(current, loaded) == loaded
Presence(current, loaded) == "online"

\* heartbeat sets last_seen_at and agent_version, so the UPDATE leaves the
\* status as the table has it by now.
Written(current, loaded) == current

BeatCommit(c) ==
  /\ c.stage = "marked"
  /\ status' = [status EXCEPT ![c.id] = Written(@, c.seen)]
  /\ Reply(c, TRUE)
  /\ UNCHANGED <<issued, tokens, online, ids, stale, config, phase, source, overlap, budget>>

-----------------------------------------------------------------------------
(* Keys and credentials expire *)

OnlineExpires(e) ==
  /\ e \in online
  /\ online' = online \ {e}
  /\ UNCHANGED <<issued, tokens, status, ids, stale, config, phase, calls, source, overlap, budget>>

TokenExpires(t) ==
  /\ t \in tokens /\ Spend("lapse")
  /\ tokens' = tokens \ {t}
  /\ UNCHANGED <<issued, status, online, ids, stale, config, phase, calls, source, overlap>>

CredentialExpires(e) ==
  /\ status[e] # "none" /\ e \notin stale /\ Spend("stale")
  /\ stale' = stale \cup {e}
  /\ UNCHANGED <<issued, tokens, status, online, ids, config, phase, calls, source, overlap>>

-----------------------------------------------------------------------------
Init ==
  /\ issued = {} /\ tokens = {} /\ online = {} /\ stale = {} /\ calls = {}
  /\ ids = 0
  /\ status  = [e \in Id |-> "none"]
  /\ source  = [e \in Id |-> NoToken]
  /\ overlap = [t \in Token |-> 0]
  /\ config  = [a \in Agent |-> [token |-> NoToken, cred |-> NoId]]
  /\ phase   = [a \in Agent |-> "off"]
  /\ budget \in Budgets

Serve(c) ==
  \/ EnrollCheck(c) \/ EnrollSpend(c) \/ EnrollCommit(c) \/ EnrollAnswer(c)
  \/ BeatAuth(c) \/ BeatMark(c) \/ BeatCommit(c)

Next ==
  \/ \E t \in Token : Issue(t) \/ TokenExpires(t)
  \/ \E a \in Agent : \/ Start(a) \/ Beat(a) \/ AgentDies(a)
                      \/ \E t \in Token : Provision(a, t)
  \/ \E c \in calls : Serve(c) \/ Receive(c) \/ AttemptFails(c) \/ AttemptTimesOut(c)
  \/ \E e \in Id : \/ Quarantine(e) \/ Decommission(e)
                   \/ OnlineExpires(e) \/ CredentialExpires(e)

Spec == Init /\ [][Next]_vars

(***************************************************************************)
(* A handler that has begun and an agent that runs go on, answers arrive,  *)
(* and a key with a time to live expires if it is not refreshed.  Nothing  *)
(* makes an administrator act or an agent that has exited start again.     *)
(***************************************************************************)
Own(a)  == {c \in calls : c.live /\ c.agent = a}
Left(a) == {c \in calls : ~c.live /\ c.agent = a}

Fairness ==
  /\ \A a \in Agent :
       /\ WF_vars(Beat(a))
       /\ WF_vars(\E c \in Own(a) : Serve(c) \/ Receive(c))
       /\ WF_vars(\E c \in Left(a) : Serve(c))
  /\ \A e \in Id : WF_vars(OnlineExpires(e))

FairSpec == Spec /\ Fairness

-----------------------------------------------------------------------------
(* Properties *)

TypeOK ==
  /\ issued \subseteq Token /\ tokens \subseteq issued
  /\ status \in [Id -> Status] /\ online \subseteq Id /\ stale \subseteq Id
  /\ ids \in 0..MaxId
  /\ config \in [Agent -> Config]
  /\ phase \in [Agent -> {"off", "enrolling", "running", "beating"}]
  /\ calls \subseteq Call
  /\ source \in [Id -> Token \cup {NoToken}] /\ overlap \in [Token -> Nat]
  /\ budget \in [Fault -> Nat]

EnrolledWith(t) == {e \in Id : source[e] = t}

\* A token is for one use: it enrols one endpoint.
OneEndpointPerToken == \A t \in Token : Cardinality(EnrolledWith(t)) <= 1

\* A token enrols one endpoint, and one more at most for every call that found
\* the token while another call had found and not yet deleted it: no retry and
\* no restart alone spends a token twice.
TokenSpentOnce == \A t \in Token : Cardinality(EnrolledWith(t)) <= 1 + overlap[t]

\* What agents and Redis know of an endpoint is in PostgreSQL: no agent holds a
\* credential, and no key marks as online, an endpoint that was not committed.
NoGhosts ==
  /\ \A a \in Agent : config[a].cred # NoId => status[config[a].cred] # "none"
  /\ \A e \in online : status[e] # "none"

\* A heartbeat that was admitted before the endpoint was decommissioned does not
\* make it active again when it commits.
DecommissionSticks ==
  [][\A e \in Id : status[e] = "decommissioned" => status'[e] # "active"]_vars

\* An endpoint that stays decommissioned goes offline for good, whatever its
\* agent goes on sending.
DecommissionedGoesOffline ==
  \A e \in Id : <>[](status[e] = "decommissioned") => <>[](e \notin online)

\* An agent that stays up is seen online again and again, through failed
\* attempts, as long as its endpoint is not decommissioned and its credential
\* has not expired.
Reporting(a, e) ==
  /\ config[a].cred = e /\ phase[a] # "off"
  /\ status[e] \in {"active", "quarantined"} /\ e \notin stale
AgentKeepsReporting ==
  \A a \in Agent, e \in Id : <>[]Reporting(a, e) => []<>(e \in online)
=============================================================================
