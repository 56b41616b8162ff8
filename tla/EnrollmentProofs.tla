--------------------------- MODULE EnrollmentProofs ---------------------------
(***************************************************************************)
(* Enrolment and heartbeats for any number of agents, tokens, endpoints,   *)
(* attempts and faults.                                                    *)
(***************************************************************************)
EXTENDS Enrollment, FiniteSetTheorems, TLAPS

Phase == {"off", "enrolling", "running", "beating"}

\* What a call carries at each of its stages: a token if it enrols, an endpoint
\* once it has one, and an endpoint that is committed before anyone is told of it.
CallOK(c) ==
  /\ c.kind = "enroll" => c.token \in Token
  /\ c.kind = "heartbeat" => c.id \in Id
  /\ c.kind = "heartbeat" /\ c.live => config[c.agent].cred # NoId
  /\ c.stage = "spent" => c.kind = "enroll" /\ c.id \in Id
  /\ c.stage = "stored" => c.kind = "enroll" /\ c.id \in Id /\ status[c.id] # "none"
  /\ c.stage = "marked" => c.kind = "heartbeat"
  /\ c.kind = "heartbeat" /\ c.stage \in {"known", "marked"} => status[c.id] # "none"
  /\ c.ok => c.stage = "replied" /\ c.id \in Id /\ status[c.id] # "none"

AgentOK(a) ==
  /\ phase[a] \in {"running", "beating"} => config[a].cred # NoId
  /\ config[a].cred # NoId => status[config[a].cred] # "none"

EInv ==
  /\ TypeOK /\ IsFiniteSet(calls)
  /\ \A c \in calls : CallOK(c)
  /\ \A a \in Agent : AgentOK(a)
  /\ \A e \in online : status[e] # "none"

-----------------------------------------------------------------------------
(* Calls *)

Forget(c, d) ==
  /\ d \in Call /\ d.agent = c.agent /\ d.kind = c.kind /\ d.token = c.token
  /\ d.try = c.try /\ d.live = c.live /\ d.seen = c.seen

LEMMA IdFacts == NoId \notin Id /\ MaxAttempts \in Nat \ {0} /\ MaxId \in Nat
BY EnrollmentAssumption DEF NoId, Id

LEMMA StageFacts ==
  ASSUME NEW c \in Call, NEW s \in {"sent", "known", "spent", "stored", "marked", "replied"}
  PROVE  LET d == [c EXCEPT !.stage = s] IN
           Forget(c, d) /\ d.id = c.id /\ d.ok = c.ok /\ d.stage = s
BY DEF Call, Forget

LEMMA SeenFacts ==
  ASSUME NEW c \in Call, NEW s \in Status
  PROVE  LET d == [c EXCEPT !.stage = "known", !.seen = s] IN
           /\ d \in Call /\ d.agent = c.agent /\ d.kind = c.kind /\ d.token = c.token
           /\ d.live = c.live /\ d.id = c.id /\ d.ok = c.ok /\ d.stage = "known"
BY DEF Call

LEMMA LateFacts ==
  ASSUME NEW c \in Call
  PROVE  LET d == [c EXCEPT !.live = FALSE] IN
           /\ d \in Call /\ d.agent = c.agent /\ d.kind = c.kind /\ d.token = c.token
           /\ d.live = FALSE /\ d.id = c.id /\ d.ok = c.ok /\ d.stage = c.stage
BY DEF Call

LEMMA ResendFacts ==
  ASSUME TypeOK, NEW c \in Call
  PROVE  /\ Resend(c) \in Call /\ Resend(c).agent = c.agent /\ Resend(c).kind = c.kind
         /\ Resend(c).token = c.token /\ Resend(c).live = c.live /\ Resend(c).ok = FALSE
         /\ Resend(c).id = config[c.agent].cred /\ Resend(c).stage = "sent"
<1>1. c.agent \in Agent /\ c.try + 1 \in Nat /\ "none" \in Status
  BY DEF Call, Status
<1>2. config[c.agent].cred \in Id \cup {NoId}
  BY <1>1 DEF TypeOK, Config
<1> DEFINE x == [c EXCEPT !.try = c.try + 1]
           y == [x EXCEPT !.stage = "sent"]
           z == [y EXCEPT !.ok = FALSE]
           u == [z EXCEPT !.seen = "none"]
           v == [u EXCEPT !.id = config[c.agent].cred]
<1>3. Resend(c) = v
  BY DEF Resend
<1>4. x \in Call /\ x.agent = c.agent /\ x.kind = c.kind /\ x.token = c.token /\ x.live = c.live
  BY <1>1 DEF Call
<1> HIDE DEF x
<1>5. y \in Call /\ y.agent = c.agent /\ y.kind = c.kind /\ y.token = c.token /\ y.live = c.live
      /\ y.stage = "sent"
  BY <1>4 DEF Call
<1> HIDE DEF y
<1>6. z \in Call /\ z.agent = c.agent /\ z.kind = c.kind /\ z.token = c.token /\ z.live = c.live
      /\ z.stage = "sent" /\ z.ok = FALSE
  BY <1>5 DEF Call
<1> HIDE DEF z
<1>7. u \in Call /\ u.agent = c.agent /\ u.kind = c.kind /\ u.token = c.token /\ u.live = c.live
      /\ u.stage = "sent" /\ u.ok = FALSE
  BY <1>1, <1>6 DEF Call
<1> HIDE DEF u
<1>8. v \in Call /\ v.agent = c.agent /\ v.kind = c.kind /\ v.token = c.token /\ v.live = c.live
      /\ v.stage = "sent" /\ v.ok = FALSE /\ v.id = config[c.agent].cred
  BY <1>2, <1>7 DEF Call
<1> HIDE DEF v
<1> QED
  BY <1>3, <1>8

-----------------------------------------------------------------------------
(* Types, and no ghosts *)

\* A step that commits no endpoint away, takes no credential from an agent that
\* waits for an answer, and adds only calls that are in order
LEMMA EInvFrame ==
  ASSUME EInv,
         issued' \subseteq Token, tokens' \subseteq issued', stale' \subseteq Id, ids' \in 0..MaxId,
         source' \in [Id -> Token \cup {NoToken}], overlap' \in [Token -> Nat],
         budget' \in [Fault -> Nat],
         status' \in [Id -> Status], \A e \in Id : status[e] # "none" => status'[e] # "none",
         online' \subseteq Id, \A e \in online' : status'[e] # "none",
         config' \in [Agent -> Config], phase' \in [Agent -> Phase], \A a \in Agent : AgentOK(a)',
         NEW D, IsFiniteSet(D), calls' \subseteq calls \cup D, \A d \in D : d \in Call /\ CallOK(d)',
         \A c \in calls : c \in calls' /\ c.kind = "heartbeat" /\ c.live => config'[c.agent].cred # NoId
  PROVE  EInv'
<1>1. TypeOK'
  BY DEF EInv, TypeOK, Phase
<1>2. IsFiniteSet(calls')
  <2>1. IsFiniteSet(calls \cup D)
    BY FS_Union DEF EInv
  <2> QED
    BY <2>1, FS_Subset
<1>3. ASSUME NEW c \in calls' PROVE CallOK(c)'
  <2>1. CASE c \in D
    BY <2>1
  <2>2. CASE c \in calls
    <3>1. CallOK(c) /\ c \in Call
      BY <2>2 DEF EInv, TypeOK
    <3> QED
      BY <1>3, <2>2, <3>1 DEF CallOK
  <2> QED
    BY <1>3, <2>1, <2>2
<1> QED
  BY <1>1, <1>2, <1>3 DEF EInv

LEMMA Singles == \A d : IsFiniteSet({d})
BY FS_Singleton

LEMMA EInvInit == Init => EInv
<1> SUFFICES ASSUME Init PROVE EInv
  OBVIOUS
<1>1. /\ calls = {} /\ online = {} /\ \A a \in Agent : phase[a] = "off" /\ config[a].cred = NoId
  BY DEF Init
<1>2. \A a \in Agent : config[a] \in Config
  BY DEF Init, Config
<1>3. TypeOK
  BY <1>1, <1>2, EnrollmentAssumption DEF Init, TypeOK, Status, Config
<1> QED
  BY <1>1, <1>3, FS_EmptySet DEF EInv, AgentOK

\* The administrator, and the keys that expire
LEMMA OthersKeepEInv ==
  ASSUME EInv, UNCHANGED <<ids, config, phase, calls, source, overlap>>,
         \/ \E t \in Token : Issue(t) \/ TokenExpires(t)
         \/ \E e \in Id : Quarantine(e) \/ Decommission(e) \/ OnlineExpires(e) \/ CredentialExpires(e)
  PROVE  EInv'
<1>1. /\ TypeOK /\ budget' \in [Fault -> Nat]
      /\ issued \subseteq Token /\ tokens \subseteq issued /\ status \in [Id -> Status]
      /\ online \subseteq Id /\ stale \subseteq Id
  BY DEF EInv, TypeOK, Issue, TokenExpires, Quarantine, Decommission, OnlineExpires,
         CredentialExpires, Spend, Fault
<1>2. issued' \subseteq Token /\ tokens' \subseteq issued' /\ stale' \subseteq Id /\ online' \subseteq online
  BY <1>1 DEF Issue, TokenExpires, Quarantine, Decommission, OnlineExpires, CredentialExpires
<1>3. status' \in [Id -> Status] /\ \A e \in Id : status[e] # "none" => status'[e] # "none"
  BY <1>1 DEF Issue, TokenExpires, Quarantine, Decommission, OnlineExpires, CredentialExpires, Status
<1>4. \A a \in Agent : AgentOK(a)'
  <2>1. \A a \in Agent : config[a].cred \in Id \cup {NoId}
    BY DEF EInv, TypeOK, Config
  <2> QED
    BY <1>3, <2>1 DEF EInv, AgentOK
<1>5. IsFiniteSet({})
  BY FS_EmptySet
<1>6. \A c \in calls : c.kind = "heartbeat" /\ c.live => config'[c.agent].cred # NoId
  BY DEF EInv, CallOK
<1>7. /\ ids' \in 0..MaxId /\ source' \in [Id -> Token \cup {NoToken}] /\ overlap' \in [Token -> Nat]
      /\ config' \in [Agent -> Config] /\ phase' \in [Agent -> Phase] /\ calls' \subseteq calls \cup {}
  BY DEF EInv, TypeOK, Phase
<1>8. online' \subseteq Id /\ \A e \in online' : status'[e] # "none"
  BY <1>1, <1>2, <1>3 DEF EInv
<1> QED
  BY <1>1, <1>2, <1>3, <1>4, <1>5, <1>6, <1>7, <1>8, EInvFrame

\* The agents
LEMMA AgentsKeepEInv ==
  ASSUME EInv, UNCHANGED <<issued, tokens, status, online, ids, stale, source, overlap>>,
         \/ \E a \in Agent : Start(a) \/ Beat(a) \/ AgentDies(a) \/ \E t \in Token : Provision(a, t)
         \/ \E c \in calls : Receive(c) \/ AttemptFails(c) \/ AttemptTimesOut(c)
  PROVE  EInv'
<1>1. /\ TypeOK /\ config \in [Agent -> Config] /\ phase \in [Agent -> Phase]
      /\ \A c \in calls : c \in Call /\ c.agent \in Agent /\ CallOK(c)
      /\ \A a \in Agent : config[a] \in Config /\ config[a].cred \in Id \cup {NoId}
                          /\ config[a].token \in Token \cup {NoToken} /\ AgentOK(a)
  <2>1. TypeOK /\ config \in [Agent -> Config] /\ phase \in [Agent -> Phase]
        /\ \A c \in calls : c \in Call /\ CallOK(c)
    BY DEF EInv, TypeOK, Phase
  <2>2. \A c \in Call : c.agent \in Agent
    BY DEF Call
  <2>3. \A a \in Agent : config[a] \in Config
    BY <2>1
  <2> QED
    BY <2>1, <2>2, <2>3 DEF Config, EInv
<1>2. budget' \in [Fault -> Nat]
  <2>1. budget' = budget \/ \E f \in Fault : Spend(f)
    BY DEF Start, Beat, AgentDies, Provision, Receive, AttemptFails, AttemptTimesOut, Fault
  <2>2. budget \in [Fault -> Nat]
    BY <1>1 DEF TypeOK
  <2> QED
    BY <2>1, <2>2 DEF Spend
<1>3. /\ issued' \subseteq Token /\ tokens' \subseteq issued' /\ stale' \subseteq Id /\ ids' \in 0..MaxId
      /\ source' \in [Id -> Token \cup {NoToken}] /\ overlap' \in [Token -> Nat]
      /\ status' \in [Id -> Status] /\ (\A e \in Id : status[e] # "none" => status'[e] # "none")
      /\ online' \subseteq Id /\ \A e \in online' : status'[e] # "none"
  BY DEF EInv, TypeOK
<1>4. ASSUME config' \in [Agent -> Config], phase' \in [Agent -> Phase],
             \A a \in Agent : AgentOK(a)',
             NEW D, IsFiniteSet(D), calls' \subseteq calls \cup D, \A d \in D : d \in Call /\ CallOK(d)',
             \A c \in calls : c \in calls' /\ c.kind = "heartbeat" /\ c.live => config'[c.agent].cred # NoId
      PROVE  EInv'
  BY <1>2, <1>3, <1>4, EInvFrame
<1>5. IsFiniteSet({}) /\ \A d : IsFiniteSet({d})
  BY FS_EmptySet, Singles
<1>6. \A c \in calls : c.kind = "heartbeat" /\ c.live => config[c.agent].cred # NoId
  BY <1>1 DEF CallOK
<1>7. ASSUME NEW a \in Agent, NEW t \in Token, Provision(a, t) PROVE EInv'
  <2>1. /\ config' = [config EXCEPT ![a] = [config[a] EXCEPT !.token = t]]
        /\ UNCHANGED <<phase, calls>>
    BY <1>7 DEF Provision
  <2>2. [config[a] EXCEPT !.token = t] \in Config /\ [config[a] EXCEPT !.token = t].cred = config[a].cred
    BY <1>1 DEF Config
  <2>3. config' \in [Agent -> Config] /\ \A b \in Agent : config'[b].cred = config[b].cred
    BY <1>1, <2>1, <2>2
  <2>4. \A b \in Agent : AgentOK(b)'
    BY <1>1, <2>1, <2>3 DEF AgentOK
  <2>5. calls' \subseteq calls \cup {} /\ phase' \in [Agent -> Phase]
        /\ \A c \in calls : c.kind = "heartbeat" /\ c.live => config'[c.agent].cred # NoId
    BY <1>1, <1>6, <2>1, <2>3
  <2> QED
    BY <1>4, <1>5, <2>3, <2>4, <2>5
<1>8. ASSUME NEW a \in Agent, NEW k \in {"enroll", "heartbeat"}, Send(a, k), UNCHANGED config,
             k = "enroll" => config[a].token # NoToken, k = "heartbeat" => config[a].cred # NoId,
             NEW p \in Phase, phase' = [phase EXCEPT ![a] = p], p # "running",
             p = "beating" => config[a].cred # NoId
      PROVE  EInv'
  <2>1. PICK d : d = [agent |-> a, kind |-> k, token |-> config[a].token, id |-> config[a].cred, try |-> 1,
                      live |-> TRUE, ok |-> FALSE, seen |-> "none", stage |-> "sent"]
    OBVIOUS
  <2>2. d \in Call /\ calls' = calls \cup {d}
    BY <1>1, <1>8, <2>1 DEF Call, Status, Send
  <2>3. CallOK(d)'
    BY <1>1, <1>8, <2>1 DEF CallOK
  <2>4. \A b \in Agent : AgentOK(b)'
    BY <1>1, <1>8 DEF AgentOK
  <2>5. phase' \in [Agent -> Phase]
    BY <1>1, <1>8
  <2>6. config' = config
    BY <1>8
  <2> QED
    BY <1>1, <1>4, <1>5, <1>6, <2>2, <2>3, <2>4, <2>5, <2>6
<1>9. ASSUME NEW a \in Agent, Start(a) \/ Beat(a) PROVE EInv'
  <2>1. CASE Beat(a)
    <3>1. config[a].cred # NoId
      BY <1>1, <2>1 DEF Beat, AgentOK
    <3> QED
      BY <1>8, <2>1, <3>1 DEF Beat, Phase
  <2>2. CASE Start(a) /\ config[a].cred = NoId
    BY <1>8, <2>2 DEF Start, Phase
  <2>3. CASE Start(a) /\ config[a].cred # NoId
    <3>1. phase' = [phase EXCEPT ![a] = "running"] /\ UNCHANGED <<calls, config>>
      BY <2>3 DEF Start
    <3>2. phase' \in [Agent -> Phase] /\ \A b \in Agent : AgentOK(b)'
      BY <1>1, <2>3, <3>1 DEF AgentOK, Phase
    <3> QED
      BY <1>1, <1>4, <1>5, <1>6, <3>1, <3>2
  <2> QED
    BY <1>9, <2>1, <2>2, <2>3
<1>10. ASSUME NEW a \in Agent, AgentDies(a) PROVE EInv'
  <2>1. /\ phase' = [phase EXCEPT ![a] = "off"]
        /\ calls' = {c \in calls : ~(c.agent = a /\ c.live)}
        /\ config' = config \/ config' = [config EXCEPT ![a] = [token |-> NoToken, cred |-> NoId]]
    BY <1>10 DEF AgentDies
  <2>2. config' \in [Agent -> Config] /\ (\A b \in Agent \ {a} : config'[b] = config[b])
        /\ config'[a].cred \in {config[a].cred, NoId}
    BY <1>1, <2>1 DEF Config
  <2>3. phase' \in [Agent -> Phase] /\ phase'[a] = "off" /\ \A b \in Agent \ {a} : phase'[b] = phase[b]
    BY <1>1, <2>1 DEF Phase
  <2>4. \A b \in Agent : AgentOK(b)'
    BY <1>1, <2>2, <2>3 DEF AgentOK
  <2>5. \A c \in calls : c \in calls' /\ c.kind = "heartbeat" /\ c.live => config'[c.agent].cred # NoId
    BY <1>1, <1>6, <2>1, <2>2
  <2> QED
    BY <1>4, <1>5, <2>1, <2>2, <2>3, <2>4, <2>5
<1>11. ASSUME NEW c \in calls, Receive(c) PROVE EInv'
  <2>1. calls' = calls \ {c} /\ c.agent \in Agent /\ CallOK(c) /\ c \in Call
    BY <1>1, <1>11 DEF Receive
  <2>2. CASE c.ok
    <3>1. /\ config' = [config EXCEPT ![c.agent] = [token |-> NoToken, cred |-> c.id]]
          /\ phase' = [phase EXCEPT ![c.agent] = "running"]
      BY <1>11, <2>2 DEF Receive
    <3>2. c.id \in Id /\ status[c.id] # "none"
      BY <2>1, <2>2 DEF CallOK
    <3>3. [token |-> NoToken, cred |-> c.id] \in Config
      BY <3>2 DEF Config
    <3>4. /\ config' \in [Agent -> Config] /\ phase' \in [Agent -> Phase]
          /\ config'[c.agent].cred = c.id /\ \A b \in Agent \ {c.agent} : config'[b] = config[b] /\ phase'[b] = phase[b]
      BY <1>1, <2>1, <3>1, <3>3 DEF Phase
    <3>5. \A b \in Agent : AgentOK(b)'
      BY <1>1, <2>1, <3>2, <3>4, IdFacts DEF AgentOK
    <3>6. \A d \in calls : d.kind = "heartbeat" /\ d.live => config'[d.agent].cred # NoId
      BY <1>1, <1>6, <3>2, <3>4, IdFacts
    <3> QED
      BY <1>4, <1>5, <2>1, <3>4, <3>5, <3>6
  <2>3. CASE ~c.ok
    <3>1. UNCHANGED config /\ phase' = AfterFailure(c)
      BY <1>11, <2>3 DEF Receive
    <3>2. /\ c.kind = "heartbeat" => config[c.agent].cred # NoId
          /\ c.kind = "enroll" \/ c.kind = "heartbeat"
      BY <1>6, <1>11, <2>1 DEF Receive, Call
    <3>3. phase' \in [Agent -> Phase] /\ \A b \in Agent : AgentOK(b)'
      BY <1>1, <2>1, <3>1, <3>2 DEF AfterFailure, AgentOK, Phase
    <3> QED
      BY <1>1, <1>4, <1>5, <1>6, <2>1, <3>1, <3>3
  <2> QED
    BY <2>2, <2>3
<1>12. ASSUME NEW c \in calls, AttemptFails(c) PROVE EInv'
  <2>1. UNCHANGED config /\ c.live /\ c.agent \in Agent /\ CallOK(c) /\ c \in Call
    BY <1>1, <1>12 DEF AttemptFails
  <2>2. /\ c.kind = "heartbeat" => config[c.agent].cred # NoId
        /\ c.kind = "enroll" \/ c.kind = "heartbeat"
    BY <1>6, <2>1 DEF Call
  <2>3. CASE c.try < MaxAttempts
    <3>1. PICK d : d = Resend(c)
      OBVIOUS
    <3>2. calls' = (calls \ {c}) \cup {d} /\ UNCHANGED phase
      BY <1>12, <2>3, <3>1 DEF AttemptFails, Move
    <3>3. d \in Call /\ CallOK(d)'
      BY <1>1, <2>1, <2>2, <3>1, ResendFacts DEF CallOK
    <3>4. \A b \in Agent : AgentOK(b)'
      BY <1>1, <2>1, <3>2 DEF AgentOK
    <3> QED
      BY <1>1, <1>4, <1>5, <1>6, <2>1, <3>2, <3>3, <3>4
  <2>4. CASE ~(c.try < MaxAttempts)
    <3>1. calls' = calls \ {c} /\ phase' = AfterFailure(c)
      BY <1>12, <2>4 DEF AttemptFails
    <3>2. phase' \in [Agent -> Phase] /\ \A b \in Agent : AgentOK(b)'
      BY <1>1, <2>1, <2>2, <3>1 DEF AfterFailure, AgentOK, Phase
    <3> QED
      BY <1>1, <1>4, <1>5, <1>6, <2>1, <3>1, <3>2
  <2> QED
    BY <2>3, <2>4
<1>13. ASSUME NEW c \in calls, AttemptTimesOut(c) PROVE EInv'
  <2>1. UNCHANGED <<config, phase>> /\ c.live /\ c.agent \in Agent /\ CallOK(c) /\ c \in Call
    BY <1>1, <1>13 DEF AttemptTimesOut
  <2>2. c.kind = "heartbeat" => config[c.agent].cred # NoId
    BY <1>6, <2>1
  <2>3. PICK d : d = Resend(c)
    OBVIOUS
  <2>4. PICK l : l = [c EXCEPT !.live = FALSE]
    OBVIOUS
  <2>5. calls' \subseteq calls \cup {l, d}
    BY <1>13, <2>3, <2>4 DEF AttemptTimesOut
  <2>6. d \in Call /\ CallOK(d)'
    BY <1>1, <2>1, <2>2, <2>3, ResendFacts DEF CallOK
  <2>7. l \in Call /\ CallOK(l)'
    BY <2>1, <2>4, LateFacts DEF CallOK
  <2>8. IsFiniteSet({l, d})
    <3>1. IsFiniteSet({l} \cup {d})
      BY <1>5, FS_Union
    <3> QED
      BY <3>1
  <2>9. \A b \in Agent : AgentOK(b)'
    BY <1>1, <2>1 DEF AgentOK
  <2> QED
    BY <1>1, <1>4, <1>6, <2>1, <2>5, <2>6, <2>7, <2>8, <2>9
<1> QED
  BY <1>7, <1>9, <1>10, <1>11, <1>12, <1>13

\* The handlers
LEMMA HandlersKeepEInv ==
  ASSUME EInv, NEW c \in calls, Serve(c)
  PROVE  EInv'
<1>1. /\ TypeOK /\ c \in Call /\ CallOK(c) /\ c.kind \in {"enroll", "heartbeat"}
      /\ issued \subseteq Token /\ tokens \subseteq issued /\ status \in [Id -> Status]
      /\ online \subseteq Id /\ ids \in 0..MaxId /\ overlap \in [Token -> Nat]
      /\ source \in [Id -> Token \cup {NoToken}] /\ c.token \in Token \cup {NoToken}
      /\ \A e \in online : status[e] # "none"
  BY DEF EInv, TypeOK, Call
<1>2. UNCHANGED <<issued, config, phase, budget, stale>>
  BY DEF Serve, EnrollCheck, EnrollSpend, EnrollCommit, EnrollAnswer, BeatAuth, BeatMark, BeatCommit
<1>3. IsFiniteSet({}) /\ \A d : IsFiniteSet({d})
  BY FS_EmptySet, Singles
<1>4. ASSUME tokens' \subseteq tokens, ids' \in 0..MaxId, source' \in [Id -> Token \cup {NoToken}],
             overlap' \in [Token -> Nat], status' \in [Id -> Status],
             \A e \in Id : status[e] # "none" => status'[e] # "none",
             online' \subseteq Id, \A e \in online' : status'[e] # "none",
             NEW D, IsFiniteSet(D), calls' \subseteq calls \cup D, \A d \in D : d \in Call /\ CallOK(d)'
      PROVE  EInv'
  <2>1. \A a \in Agent : AgentOK(a)'
    <3>1. \A a \in Agent : config[a].cred \in Id \cup {NoId}
      BY DEF EInv, TypeOK, Config
    <3> QED
      BY <1>2, <1>4, <3>1 DEF EInv, AgentOK
  <2>2. \A d \in calls : d \in calls' /\ d.kind = "heartbeat" /\ d.live => config'[d.agent].cred # NoId
    BY <1>2 DEF EInv, CallOK
  <2>3. /\ issued' \subseteq Token /\ tokens' \subseteq issued' /\ stale' \subseteq Id
        /\ budget' \in [Fault -> Nat] /\ config' \in [Agent -> Config] /\ phase' \in [Agent -> Phase]
    BY <1>1, <1>2, <1>4 DEF EInv, TypeOK, Phase
  <2> QED
    BY <1>4, <2>1, <2>2, <2>3, EInvFrame
<1>5. ASSUME NEW ok \in BOOLEAN, Reply(c, ok), c.kind = "heartbeat" => c.id \in Id,
             ok => c.id \in Id /\ status'[c.id] # "none"
      PROVE  \E D : /\ IsFiniteSet(D) /\ calls' \subseteq calls \cup D
                    /\ \A d \in D : d \in Call /\ CallOK(d)'
  <2>1. PICK d : d = [c EXCEPT !.stage = "replied", !.ok = ok]
    OBVIOUS
  <2>2. /\ d \in Call /\ d.agent = c.agent /\ d.kind = c.kind /\ d.token = c.token /\ d.live = c.live
        /\ d.id = c.id /\ d.ok = ok /\ d.stage = "replied"
    BY <1>1, <1>5, <2>1 DEF Call
  <2>3. CallOK(d)'
    BY <1>1, <1>2, <1>5, <2>2 DEF CallOK
  <2>4. calls' \subseteq calls \cup {d}
    BY <1>5, <2>1 DEF Reply, Move
  <2> WITNESS {d}
  <2> QED
    BY <1>3, <2>2, <2>3, <2>4
<1>6. CASE EnrollCheck(c)
  <2>1. /\ c.kind = "enroll" /\ c.stage = "sent" /\ c.token \in Token
        /\ UNCHANGED <<tokens, status, online, ids, source>>
        /\ overlap' \in {overlap, [overlap EXCEPT ![c.token] = overlap[c.token] + 1]}
    BY <1>1, <1>6 DEF EnrollCheck, CallOK
  <2>2. overlap' \in [Token -> Nat]
    BY <1>1, <2>1
  <2>3. CASE c.token \in tokens
    <3>1. PICK d : d = [c EXCEPT !.stage = "known"]
      OBVIOUS
    <3>2. d \in Call /\ CallOK(d)'
      BY <1>1, <1>2, <2>1, <3>1, StageFacts DEF CallOK, Forget
    <3>3. calls' \subseteq calls \cup {d}
      BY <1>6, <2>3, <3>1 DEF EnrollCheck, Move
    <3> QED
      BY <1>1, <1>3, <1>4, <2>1, <2>2, <3>2, <3>3
  <2>4. CASE c.token \notin tokens
    <3>1. Reply(c, FALSE)
      BY <1>6, <2>4 DEF EnrollCheck
    <3> QED
      BY <1>1, <1>4, <1>5, <2>1, <2>2, <3>1
  <2> QED
    BY <2>3, <2>4
<1>7. CASE EnrollSpend(c)
  <2>1. /\ c.kind = "enroll" /\ c.stage = "known" /\ ids < MaxId /\ ids' = ids + 1
        /\ tokens' \subseteq tokens /\ UNCHANGED <<status, online, source, overlap>>
    BY <1>7 DEF EnrollSpend, Without
  <2>2. ids + 1 \in Id /\ ids' \in 0..MaxId
    BY <1>1, <2>1, IdFacts DEF Id
  <2>3. PICK d : d = [c EXCEPT !.stage = "spent", !.id = ids + 1]
    OBVIOUS
  <2>4. d \in Call /\ CallOK(d)'
    <3>1. /\ d \in Call /\ d.kind = c.kind /\ d.token = c.token
          /\ d.id = ids + 1 /\ d.ok = c.ok /\ d.stage = "spent"
      BY <1>1, <2>2, <2>3 DEF Call
    <3>2. ~c.ok /\ c.token \in Token
      BY <1>1, <2>1 DEF CallOK
    <3> QED
      BY <2>1, <2>2, <3>1, <3>2 DEF CallOK
  <2>5. calls' \subseteq calls \cup {d}
    BY <1>7, <2>3 DEF EnrollSpend, Move
  <2> QED
    BY <1>1, <1>3, <1>4, <2>1, <2>2, <2>4, <2>5
<1>8. CASE EnrollCommit(c)
  <2>1. /\ c.stage = "spent" /\ c.kind = "enroll" /\ c.id \in Id /\ c.token \in Token
        /\ status' = [status EXCEPT ![c.id] = "active"] /\ source' = [source EXCEPT ![c.id] = c.token]
        /\ UNCHANGED <<tokens, online, ids, overlap>>
    BY <1>1, <1>8 DEF EnrollCommit, CallOK
  <2>2. /\ status' \in [Id -> Status] /\ source' \in [Id -> Token \cup {NoToken}]
        /\ status'[c.id] # "none" /\ \A e \in Id : status[e] # "none" => status'[e] # "none"
    BY <1>1, <2>1 DEF Status
  <2>3. PICK d : d = [c EXCEPT !.stage = "stored"]
    OBVIOUS
  <2>4. d \in Call /\ CallOK(d)'
    <3>1. /\ d \in Call /\ d.kind = c.kind /\ d.token = c.token
          /\ d.id = c.id /\ d.ok = c.ok /\ d.stage = "stored"
      BY <1>1, <2>3, StageFacts DEF Forget
    <3>2. ~c.ok
      BY <1>1, <2>1 DEF CallOK
    <3> QED
      BY <2>1, <2>2, <3>1, <3>2 DEF CallOK
  <2>5. calls' \subseteq calls \cup {d}
    BY <1>8, <2>3 DEF EnrollCommit, Move
  <2>6. /\ online' \subseteq Id /\ (\A e \in online' : status'[e] # "none")
        /\ tokens' \subseteq tokens /\ ids' \in 0..MaxId /\ overlap' \in [Token -> Nat]
    BY <1>1, <2>1, <2>2
  <2> QED
    BY <1>3, <1>4, <2>2, <2>4, <2>5, <2>6
<1>9. CASE EnrollAnswer(c)
  <2>1. /\ c.stage = "stored" /\ c.kind = "enroll" /\ c.id \in Id /\ status[c.id] # "none"
        /\ online' = online \cup {c.id} /\ Reply(c, TRUE)
        /\ UNCHANGED <<tokens, status, ids, source, overlap>>
    BY <1>1, <1>9 DEF EnrollAnswer, Announced, CallOK
  <2> QED
    BY <1>1, <1>4, <1>5, <2>1
<1>10. CASE BeatAuth(c)
  <2>1. /\ c.kind = "heartbeat" /\ c.stage = "sent" /\ c.id \in Id
        /\ UNCHANGED <<tokens, status, online, ids, source, overlap>>
    BY <1>1, <1>10 DEF BeatAuth, CallOK
  <2>2. CASE Admits(c.id)
    <3>1. PICK d : d = [c EXCEPT !.stage = "known", !.seen = status[c.id]]
      OBVIOUS
    <3>2. status[c.id] \in Status /\ status[c.id] # "none"
      BY <1>1, <2>1, <2>2 DEF Admits
    <3>3. d \in Call /\ CallOK(d)'
      BY <1>1, <1>2, <2>1, <3>1, <3>2, SeenFacts DEF CallOK
    <3>4. calls' \subseteq calls \cup {d}
      BY <1>10, <2>2, <3>1 DEF BeatAuth, Move
    <3> QED
      BY <1>1, <1>3, <1>4, <2>1, <3>3, <3>4
  <2>3. CASE ~Admits(c.id)
    <3>1. Reply(c, FALSE)
      BY <1>10, <2>3 DEF BeatAuth
    <3> QED
      BY <1>1, <1>4, <1>5, <2>1, <3>1
  <2> QED
    BY <2>2, <2>3
<1>11. CASE BeatMark(c)
  <2>1. /\ c.kind = "heartbeat" /\ c.stage = "known" /\ c.id \in Id /\ status[c.id] # "none"
        /\ online' = online \cup {c.id}
        /\ UNCHANGED <<tokens, status, ids, source, overlap>>
    BY <1>1, <1>11 DEF BeatMark, CallOK
  <2>2. PICK d : d = [c EXCEPT !.stage = "marked"]
    OBVIOUS
  <2>3. d \in Call /\ CallOK(d)'
    BY <1>1, <1>2, <2>1, <2>2, StageFacts DEF CallOK, Forget
  <2>4. calls' \subseteq calls \cup {d}
    BY <1>11, <2>2 DEF BeatMark, Move
  <2> QED
    BY <1>1, <1>3, <1>4, <2>1, <2>3, <2>4
<1>12. CASE BeatCommit(c)
  <2>1. /\ c.stage = "marked" /\ c.kind = "heartbeat" /\ c.id \in Id /\ status[c.id] # "none"
        /\ status' = [status EXCEPT ![c.id] = status[c.id]] /\ Reply(c, TRUE)
        /\ UNCHANGED <<tokens, online, ids, source, overlap>>
    BY <1>1, <1>12 DEF BeatCommit, Written, CallOK
  <2>2. status' = status
    BY <1>1, <2>1
  <2> QED
    BY <1>1, <1>4, <1>5, <2>1, <2>2
<1> QED
  BY <1>6, <1>7, <1>8, <1>9, <1>10, <1>11, <1>12 DEF Serve

LEMMA EInvStep == EInv /\ [Next]_vars => EInv'
<1> SUFFICES ASSUME EInv, [Next]_vars PROVE EInv'
  OBVIOUS
<1>1. CASE \/ \E t \in Token : Issue(t) \/ TokenExpires(t)
           \/ \E e \in Id : Quarantine(e) \/ Decommission(e) \/ OnlineExpires(e) \/ CredentialExpires(e)
  <2>1. UNCHANGED <<ids, config, phase, calls, source, overlap>>
    BY <1>1 DEF Issue, TokenExpires, Quarantine, Decommission, OnlineExpires, CredentialExpires
  <2> QED
    BY <1>1, <2>1, OthersKeepEInv
<1>2. CASE \/ \E a \in Agent : Start(a) \/ Beat(a) \/ AgentDies(a) \/ \E t \in Token : Provision(a, t)
           \/ \E c \in calls : Receive(c) \/ AttemptFails(c) \/ AttemptTimesOut(c)
  <2>1. UNCHANGED <<issued, tokens, status, online, ids, stale, source, overlap>>
    BY <1>2 DEF Start, Beat, AgentDies, Provision, Receive, AttemptFails, AttemptTimesOut
  <2> QED
    BY <1>2, <2>1, AgentsKeepEInv
<1>3. CASE \E c \in calls : Serve(c)
  BY <1>3, HandlersKeepEInv
<1>4. CASE UNCHANGED vars
  BY <1>4 DEF vars, EInv, TypeOK, CallOK, AgentOK
<1> QED
  BY <1>1, <1>2, <1>3, <1>4 DEF Next

LEMMA EInvAlways == Spec => []EInv
  BY EInvInit, EInvStep, PTL DEF Spec

\* The tables, the keys and the calls are well formed, for any fleet.
THEOREM EnrollmentTypeCorrect == Spec => []TypeOK
<1>1. EInv => TypeOK
  BY DEF EInv
<1> QED
  BY <1>1, EInvAlways, PTL

\* Nobody outside PostgreSQL knows an endpoint that is not committed, whatever
\* fails, times out, crashes and is repeated.
THEOREM EndpointsAreCommitted == Spec => []NoGhosts
<1>1. EInv => NoGhosts
  BY DEF EInv, AgentOK, NoGhosts
<1> QED
  BY <1>1, EInvAlways, PTL

-----------------------------------------------------------------------------
(* A token is spent once, and once more for every call that overlapped *)

\* The endpoints that were made with t, or are about to be
Used(t) == EnrolledWith(t) \cup {e \in Id : \E c \in calls : c.stage = "spent" /\ c.token = t /\ c.id = e}

\* The calls that have found t and not yet deleted it
Known(t) == {c \in calls : c.kind = "enroll" /\ c.stage = "known" /\ c.token = t}

\* A token that is there was never used; a call that will use it was let in by
\* the token, or beside another one, which overlap counts.
OneToken(t) ==
  /\ t \in tokens => Used(t) = {}
  /\ t \notin issued => Used(t) = {} /\ Known(t) = {}
  /\ Cardinality(Used(t)) + Cardinality(Known(t)) <= 1 + overlap[t]

SpendInv == \A t \in Token : OneToken(t)

LEMMA UseFinite ==
  ASSUME EInv, NEW t \in Token
  PROVE  /\ IsFiniteSet(Used(t)) /\ Cardinality(Used(t)) \in Nat
         /\ IsFiniteSet(Known(t)) /\ Cardinality(Known(t)) \in Nat
         /\ overlap[t] \in Nat
<1>1. IsFiniteSet(Id)
  BY IdFacts, FS_Interval DEF Id
<1>2. Used(t) \subseteq Id /\ Known(t) \subseteq calls
  BY DEF Used, Known, EnrolledWith
<1> QED
  BY <1>1, <1>2, FS_Subset, FS_CardinalityType DEF EInv, TypeOK

LEMMA UseFiniteNext ==
  ASSUME EInv', NEW t \in Token
  PROVE  /\ IsFiniteSet(Used(t)') /\ Cardinality(Used(t)') \in Nat
         /\ IsFiniteSet(Known(t)') /\ Cardinality(Known(t)') \in Nat
         /\ overlap'[t] \in Nat
<1>1. IsFiniteSet(Id)
  BY IdFacts, FS_Interval DEF Id
<1>2. Used(t)' \subseteq Id /\ Known(t)' \subseteq calls'
  BY DEF Used, Known, EnrolledWith
<1> QED
  BY <1>1, <1>2, FS_Subset, FS_CardinalityType DEF EInv, TypeOK

LEMMA OneMore ==
  ASSUME NEW S, IsFiniteSet(S), NEW x
  PROVE  /\ IsFiniteSet(S \cup {x}) /\ Cardinality(S \cup {x}) \in Nat
         /\ Cardinality(S \cup {x}) <= Cardinality(S) + 1
<1>1. Cardinality(S) \in Nat /\ IsFiniteSet(S \cup {x})
  BY FS_CardinalityType, FS_AddElement
<1>2. Cardinality(S \cup {x}) = Cardinality(S) \/ Cardinality(S \cup {x}) = Cardinality(S) + 1
  BY FS_AddElement
<1> QED
  BY <1>1, <1>2

\* A step by which no call finds a token and no endpoint is made
LEMMA CalmKeepsToken ==
  ASSUME EInv, EInv', NEW t \in Token, OneToken(t),
         Used(t)' \subseteq Used(t), issued \subseteq issued', overlap'[t] = overlap[t],
         t \in tokens' => t \in tokens \/ t \notin issued,
         \/ Known(t)' \subseteq Known(t)
         \/ \E c \in Known(t) : \E d : Known(t)' \subseteq (Known(t) \ {c}) \cup {d}
  PROVE  OneToken(t)'
<1>1. /\ IsFiniteSet(Used(t)) /\ Cardinality(Used(t)) \in Nat
      /\ IsFiniteSet(Known(t)) /\ Cardinality(Known(t)) \in Nat /\ overlap[t] \in Nat
      /\ Cardinality(Used(t)') \in Nat /\ Cardinality(Known(t)') \in Nat
  BY UseFinite, UseFiniteNext
<1>2. Cardinality(Used(t)') <= Cardinality(Used(t))
  BY <1>1, FS_Subset
<1>3. Cardinality(Known(t)') <= Cardinality(Known(t)) /\ (Known(t) = {} => Known(t)' = {})
  <2>1. CASE Known(t)' \subseteq Known(t)
    BY <1>1, <2>1, FS_Subset
  <2>2. CASE \E c \in Known(t) : \E d : Known(t)' \subseteq (Known(t) \ {c}) \cup {d}
    <3>0. PICK c \in Known(t) : \E d : Known(t)' \subseteq (Known(t) \ {c}) \cup {d}
      BY <2>2
    <3>1. PICK d : Known(t)' \subseteq (Known(t) \ {c}) \cup {d}
      BY <3>0
    <3> DEFINE K == Known(t) \ {c}
    <3>2. IsFiniteSet(K) /\ Cardinality(K) = Cardinality(Known(t)) - 1
      BY <1>1, <3>0, FS_RemoveElement
    <3>3. IsFiniteSet(K \cup {d}) /\ Cardinality(K \cup {d}) <= Cardinality(K) + 1
      BY <3>2, OneMore
    <3>4. Cardinality(Known(t)') <= Cardinality(K \cup {d}) /\ Cardinality(K \cup {d}) \in Nat
      BY <3>1, <3>3, FS_Subset, FS_CardinalityType
    <3> QED
      BY <1>1, <3>1, <3>2, <3>3, <3>4
  <2> QED
    BY <2>1, <2>2
<1> QED
  BY <1>1, <1>2, <1>3 DEF OneToken

\* When the calls that spend and those that know a token were there before
LEMMA SameCalls ==
  ASSUME NEW t \in Token, source' = source,
         \A d \in calls' : d.stage = "spent" =>
            \E c \in calls : c.stage = "spent" /\ c.token = d.token /\ c.id = d.id
  PROVE  Used(t)' \subseteq Used(t)
BY DEF Used, EnrolledWith

LEMMA SpendInvStep == EInv /\ EInv' /\ SpendInv /\ [Next]_vars => SpendInv'
<1> SUFFICES ASSUME EInv, EInv', SpendInv, [Next]_vars, NEW t \in Token PROVE OneToken(t)'
  BY DEF SpendInv
<1>1. /\ OneToken(t) /\ \A c \in calls : c \in Call /\ CallOK(c)
      /\ ids \in 0..MaxId /\ overlap \in [Token -> Nat]
      /\ source \in [Id -> Token \cup {NoToken}] /\ issued \subseteq Token /\ tokens \subseteq issued
      /\ IsFiniteSet(Used(t)) /\ Cardinality(Used(t)) \in Nat
      /\ IsFiniteSet(Known(t)) /\ Cardinality(Known(t)) \in Nat /\ overlap[t] \in Nat
  BY UseFinite DEF EInv, TypeOK, SpendInv
<1>2. ASSUME source' = source, overlap' = overlap, issued \subseteq issued',
             t \in tokens' => t \in tokens \/ t \notin issued,
             \A d \in calls' : d \in calls \/ (d.stage # "spent" /\ ~(d.kind = "enroll" /\ d.stage = "known"))
      PROVE  OneToken(t)'
  <2>1. Used(t)' \subseteq Used(t)
    BY <1>2, SameCalls
  <2>2. Known(t)' \subseteq Known(t)
    BY <1>2 DEF Known
  <2> QED
    BY <1>1, <1>2, <2>1, <2>2, CalmKeepsToken
<1>3. CASE \/ \E u \in Token : Issue(u) \/ TokenExpires(u)
           \/ \E e \in Id : Quarantine(e) \/ Decommission(e) \/ OnlineExpires(e) \/ CredentialExpires(e)
           \/ \E a \in Agent, u \in Token : Provision(a, u)
           \/ \E a \in Agent : AgentDies(a)
  BY <1>2, <1>3 DEF Issue, TokenExpires, Quarantine, Decommission, OnlineExpires, CredentialExpires,
                    Provision, AgentDies
<1>4. CASE \E a \in Agent : Start(a) \/ Beat(a)
  BY <1>2, <1>4 DEF Start, Beat, Send
<1>5. CASE \E c \in calls : Receive(c)
  BY <1>2, <1>5 DEF Receive
<1>6. ASSUME NEW c \in calls, AttemptFails(c) PROVE OneToken(t)'
  <2>1. Resend(c).stage = "sent"
    BY <1>1, ResendFacts DEF EInv
  <2> QED
    BY <1>2, <1>6, <2>1 DEF AttemptFails, Move
<1>7. ASSUME NEW c \in calls, AttemptTimesOut(c) PROVE OneToken(t)'
  <2>1. PICK d : d = Resend(c)
    OBVIOUS
  <2>2. PICK l : l = [c EXCEPT !.live = FALSE]
    OBVIOUS
  <2>3. calls' = (calls \ {c}) \cup {l, d} /\ UNCHANGED <<issued, tokens, source, overlap>>
    BY <1>7, <2>1, <2>2 DEF AttemptTimesOut
  <2>4. d.stage = "sent" /\ l.stage = c.stage /\ l.kind = c.kind /\ l.token = c.token /\ l.id = c.id
    BY <1>1, <2>1, <2>2, ResendFacts, LateFacts DEF EInv
  <2>5. Used(t)' \subseteq Used(t)
    <3>1. \A x \in calls' : x.stage = "spent" =>
            \E y \in calls : y.stage = "spent" /\ y.token = x.token /\ y.id = x.id
      BY <2>3, <2>4
    <3> QED
      BY <2>3, <3>1, SameCalls
  <2>6. CASE c \in Known(t)
    <3>1. Known(t)' \subseteq (Known(t) \ {c}) \cup {l}
      BY <2>3, <2>4 DEF Known
    <3> QED
      BY <1>1, <2>3, <2>5, <2>6, <3>1, CalmKeepsToken
  <2>7. CASE c \notin Known(t)
    <3>1. Known(t)' \subseteq Known(t)
      BY <2>3, <2>4, <2>7 DEF Known
    <3> QED
      BY <1>1, <2>3, <2>5, <3>1, CalmKeepsToken
  <2> QED
    BY <2>6, <2>7
<1>8. ASSUME NEW c \in calls, NEW ok \in BOOLEAN, Reply(c, ok)
      PROVE  \A d \in calls' : d \in calls \/ d.stage = "replied"
  <2>1. [c EXCEPT !.stage = "replied", !.ok = ok].stage = "replied"
    BY <1>1 DEF Call
  <2> QED
    BY <1>8, <2>1 DEF Reply, Move
<1>9. ASSUME NEW c \in calls, EnrollCheck(c) PROVE OneToken(t)'
  <2>1. CASE c.token \notin tokens
    <3>1. Reply(c, FALSE) /\ UNCHANGED <<issued, tokens, source, overlap>>
      BY <1>9, <2>1 DEF EnrollCheck
    <3> QED
      BY <1>2, <1>8, <3>1
  <2>2. CASE c.token \in tokens
    <3>1. PICK d : d = [c EXCEPT !.stage = "known"]
      OBVIOUS
    <3>2. /\ calls' = (calls \ {c}) \cup {d} /\ UNCHANGED <<issued, tokens, source>>
          /\ c.kind = "enroll" /\ c.stage = "sent"
          /\ overlap' = IF \E x \in calls : x.stage = "known" /\ x.token = c.token
                        THEN [overlap EXCEPT ![c.token] = overlap[c.token] + 1] ELSE overlap
      BY <1>9, <2>2, <3>1 DEF EnrollCheck, Move
    <3>3. d.stage = "known" /\ d.kind = "enroll" /\ d.token = c.token
      BY <1>1, <3>1, <3>2 DEF Call
    <3>4. Used(t)' \subseteq Used(t)
      BY <3>2, <3>3, SameCalls
    <3>5. CASE t # c.token
      <4>1. Known(t)' \subseteq Known(t)
        BY <3>2, <3>3, <3>5 DEF Known
      <4>2. overlap'[t] = overlap[t]
        BY <1>1, <3>2, <3>5
      <4> QED
        BY <1>1, <3>2, <3>4, <4>1, <4>2, CalmKeepsToken
    <3>6. CASE t = c.token
      <4>1. Used(t) = {} /\ Used(t)' = {} /\ t \in issued
        BY <1>1, <2>2, <3>4, <3>6 DEF OneToken
      <4>2. Cardinality(Used(t)') = 0
        BY <4>1, FS_EmptySet
      <4>3. Known(t)' \subseteq Known(t) \cup {d}
        BY <3>2, <3>3 DEF Known
      <4>4. /\ Cardinality(Known(t)') <= Cardinality(Known(t) \cup {d})
            /\ Cardinality(Known(t) \cup {d}) <= Cardinality(Known(t)) + 1
            /\ Cardinality(Known(t)') \in Nat /\ Cardinality(Known(t) \cup {d}) \in Nat
        <5>1. IsFiniteSet(Known(t) \cup {d}) /\ Cardinality(Known(t) \cup {d}) \in Nat
              /\ Cardinality(Known(t) \cup {d}) <= Cardinality(Known(t)) + 1
          BY <1>1, OneMore
        <5> QED
          BY <4>3, <5>1, FS_Subset, UseFiniteNext
      <4>5. Cardinality(Known(t)') <= 1 + overlap'[t]
        <5>1. CASE Known(t) = {}
          <6>1. Cardinality(Known(t)) = 0
            BY <5>1, FS_EmptySet
          <6>2. overlap'[t] \in Nat
            BY UseFiniteNext
          <6> QED
            BY <4>4, <6>1, <6>2
        <5>2. CASE Known(t) # {}
          <6>1. overlap'[t] = overlap[t] + 1
            BY <1>1, <3>2, <3>6, <5>2 DEF Known
          <6>2. Cardinality(Known(t)) <= 1 + overlap[t]
            BY <1>1, <4>1, FS_EmptySet DEF OneToken
          <6> QED
            BY <1>1, <4>4, <6>1, <6>2
        <5> QED
          BY <5>1, <5>2
      <4> QED
        BY <3>2, <4>1, <4>2, <4>4, <4>5, UseFiniteNext DEF OneToken
    <3> QED
      BY <3>5, <3>6
  <2> QED
    BY <2>1, <2>2
<1>10. ASSUME NEW c \in calls, EnrollSpend(c) PROVE OneToken(t)'
  <2>1. PICK d : d = [c EXCEPT !.stage = "spent", !.id = ids + 1]
    OBVIOUS
  <2>2. /\ calls' = (calls \ {c}) \cup {d} /\ UNCHANGED <<issued, source, overlap>>
        /\ c.kind = "enroll" /\ c.stage = "known" /\ tokens' = tokens \ {c.token} /\ ids < MaxId
    BY <1>10, <2>1 DEF EnrollSpend, Move, Without
  <2>3. d.stage = "spent" /\ d.token = c.token /\ d.id = ids + 1
    BY <1>1, <2>1 DEF Call
  <2>4. CASE t # c.token
    <3>1. Known(t)' \subseteq Known(t)
      BY <2>2, <2>3 DEF Known
    <3>2. Used(t)' \subseteq Used(t)
      BY <2>2, <2>3, <2>4 DEF Used, EnrolledWith
    <3> QED
      BY <1>1, <2>2, <3>1, <3>2, CalmKeepsToken
  <2>5. CASE t = c.token
    <3>1. c \in Known(t) /\ t \in issued
      BY <1>1, <2>2, <2>5 DEF Known, OneToken
    <3>2. Known(t)' \subseteq Known(t) \ {c}
      BY <2>2, <2>3 DEF Known
    <3>3. Used(t)' \subseteq Used(t) \cup {ids + 1}
      BY <2>2, <2>3 DEF Used, EnrolledWith
    <3>4. /\ Cardinality(Known(t)') <= Cardinality(Known(t) \ {c})
          /\ Cardinality(Known(t) \ {c}) = Cardinality(Known(t)) - 1
          /\ Cardinality(Known(t)') \in Nat
      BY <1>1, <3>1, <3>2, FS_RemoveElement, FS_Subset, FS_CardinalityType, UseFiniteNext
    <3>5. /\ Cardinality(Used(t)') <= Cardinality(Used(t) \cup {ids + 1})
          /\ Cardinality(Used(t) \cup {ids + 1}) <= Cardinality(Used(t)) + 1
          /\ Cardinality(Used(t)') \in Nat /\ Cardinality(Used(t) \cup {ids + 1}) \in Nat
      <4>1. IsFiniteSet(Used(t) \cup {ids + 1}) /\ Cardinality(Used(t) \cup {ids + 1}) \in Nat
            /\ Cardinality(Used(t) \cup {ids + 1}) <= Cardinality(Used(t)) + 1
        BY <1>1, OneMore
      <4> QED
        BY <3>3, <4>1, FS_Subset, UseFiniteNext
    <3>6. Cardinality(Used(t)') + Cardinality(Known(t)') <= 1 + overlap'[t]
      BY <1>1, <2>2, <3>4, <3>5 DEF OneToken
    <3> QED
      BY <2>2, <2>5, <3>1, <3>6 DEF OneToken
  <2> QED
    BY <2>4, <2>5
<1>11. ASSUME NEW c \in calls, EnrollCommit(c) PROVE OneToken(t)'
  <2>1. PICK d : d = [c EXCEPT !.stage = "stored"]
    OBVIOUS
  <2>2. /\ calls' = (calls \ {c}) \cup {d} /\ UNCHANGED <<issued, tokens, overlap>>
        /\ c.stage = "spent" /\ source' = [source EXCEPT ![c.id] = c.token]
    BY <1>11, <2>1 DEF EnrollCommit, Move
  <2>3. d.stage = "stored" /\ c.id \in Id
    BY <1>1, <2>1, <2>2 DEF Call, CallOK
  <2>4. Known(t)' \subseteq Known(t)
    BY <2>2, <2>3 DEF Known
  <2>5. EnrolledWith(t)' \subseteq Used(t)
    <3>1. \A e \in Id : source'[e] = t => source[e] = t \/ (e = c.id /\ c.token = t)
      BY <1>1, <2>2, <2>3
    <3> QED
      BY <2>2, <3>1 DEF Used, EnrolledWith
  <2>6. Used(t)' \subseteq Used(t)
    <3>1. \A x \in calls' : x.stage = "spent" => x \in calls
      BY <2>2, <2>3
    <3> QED
      BY <2>5, <3>1 DEF Used
  <2> QED
    BY <1>1, <2>2, <2>4, <2>6, CalmKeepsToken
<1>12. ASSUME NEW c \in calls, EnrollAnswer(c) PROVE OneToken(t)'
  BY <1>2, <1>8, <1>12 DEF EnrollAnswer
<1>13. ASSUME NEW c \in calls, BeatAuth(c) PROVE OneToken(t)'
  <2>1. c.kind = "heartbeat" /\ UNCHANGED <<issued, tokens, source, overlap>>
    BY <1>13 DEF BeatAuth
  <2>2. CASE Admits(c.id)
    <3>1. PICK d : d = [c EXCEPT !.stage = "known", !.seen = status[c.id]]
      OBVIOUS
    <3>2. d.kind = "heartbeat" /\ d.stage = "known"
      BY <1>1, <2>1, <3>1 DEF Call
    <3>3. calls' = (calls \ {c}) \cup {d}
      BY <1>13, <2>2, <3>1 DEF BeatAuth, Move
    <3> QED
      BY <1>2, <2>1, <3>2, <3>3
  <2>3. CASE ~Admits(c.id)
    <3>1. Reply(c, FALSE)
      BY <1>13, <2>3 DEF BeatAuth
    <3> QED
      BY <1>2, <1>8, <2>1, <3>1
  <2> QED
    BY <2>2, <2>3
<1>14. ASSUME NEW c \in calls, BeatMark(c) PROVE OneToken(t)'
  <2>1. [c EXCEPT !.stage = "marked"].stage = "marked"
    BY <1>1 DEF Call
  <2> QED
    BY <1>2, <1>14, <2>1 DEF BeatMark, Move
<1>15. ASSUME NEW c \in calls, BeatCommit(c) PROVE OneToken(t)'
  BY <1>2, <1>8, <1>15 DEF BeatCommit
<1>16. CASE UNCHANGED vars
  BY <1>2, <1>16 DEF vars
<1> QED
  BY <1>3, <1>4, <1>5, <1>6, <1>7, <1>9, <1>10, <1>11, <1>12, <1>13, <1>14, <1>15, <1>16 DEF Next, Serve

LEMMA SpendInvInit == Init => SpendInv
<1> SUFFICES ASSUME Init, NEW t \in Token PROVE OneToken(t)
  BY DEF SpendInv
<1>1. Used(t) = {} /\ Known(t) = {} /\ overlap[t] = 0 /\ tokens = {}
  BY EnrollmentAssumption DEF Init, Used, Known, EnrolledWith
<1> QED
  BY <1>1, FS_EmptySet DEF OneToken

\* No crash, retry or time-out by itself makes a token enrol a second endpoint:
\* for that, two calls must have found it at the same time.
THEOREM SpentOnce == Spec => []TokenSpentOnce
<1>1. EInv /\ SpendInv => TokenSpentOnce
  <2> SUFFICES ASSUME EInv, SpendInv, NEW t \in Token PROVE Cardinality(EnrolledWith(t)) <= 1 + overlap[t]
    BY DEF TokenSpentOnce
  <2>1. EnrolledWith(t) \subseteq Used(t)
    BY DEF Used
  <2>2. Cardinality(EnrolledWith(t)) <= Cardinality(Used(t)) /\ Cardinality(EnrolledWith(t)) \in Nat
    BY <2>1, UseFinite, FS_Subset, FS_CardinalityType
  <2> QED
    BY <2>2, UseFinite DEF SpendInv, OneToken
<1>2. Init => EInv /\ SpendInv
  BY EInvInit, SpendInvInit
<1>3. EInv /\ SpendInv /\ [Next]_vars => (EInv /\ SpendInv)'
  BY EInvStep, SpendInvStep
<1> QED
  BY <1>1, <1>2, <1>3, PTL DEF Spec

-----------------------------------------------------------------------------
(* An endpoint is made once, and what an administrator decides of it stays *)

\* An id that a call is about to commit was handed out to this call only and is
\* in no row yet.
FreshInv ==
  /\ \A e \in Id : status[e] # "none" => e <= ids
  /\ \A c \in calls : c.stage = "spent" => c.id <= ids /\ status[c.id] = "none"
  /\ \A c, d \in calls : c.stage = "spent" /\ d.stage = "spent" /\ c.id = d.id => c = d

LEMMA FreshInvInit == Init => FreshInv
BY DEF Init, FreshInv

\* A step after which no other calls are about to commit than before, and in which
\* no row comes or goes
LEMMA PlainKeepsFresh ==
  ASSUME EInv, FreshInv, ids' = ids, status' \in [Id -> Status],
         \A e \in Id : status'[e] = "none" <=> status[e] = "none",
         \A d \in calls' : d.stage = "spent" => d \in calls
  PROVE  FreshInv'
<1>1. \A c \in calls : c.stage = "spent" => c.id \in Id
  BY DEF EInv, CallOK
<1> QED
  BY <1>1 DEF FreshInv

LEMMA SpendKeepsFresh ==
  ASSUME EInv, FreshInv, NEW c \in calls, EnrollSpend(c)
  PROVE  FreshInv'
<1>1. PICK d : d = [c EXCEPT !.stage = "spent", !.id = ids + 1]
  OBVIOUS
<1>2. /\ c \in Call /\ ids < MaxId /\ ids' = ids + 1 /\ status' = status /\ ids \in Nat
      /\ calls' = (calls \ {c}) \cup {d} /\ Id \subseteq Nat /\ ids + 1 \in Id
  BY <1>1, IdFacts DEF EnrollSpend, Move, EInv, TypeOK, Id
<1>3. d.stage = "spent" /\ d.id = ids + 1
  BY <1>1, <1>2 DEF Call
<1>4. \A b \in calls : b.stage = "spent" => b.id \in Id
  BY DEF EInv, CallOK
<1>5. status[ids + 1] = "none"
  BY <1>2 DEF FreshInv
<1>6. /\ \A e \in Id : status'[e] # "none" => e <= ids'
      /\ \A b \in calls' : b.stage = "spent" => b.id <= ids' /\ status'[b.id] = "none"
  <2>1. \A e \in Id : e <= ids => e <= ids'
    BY <1>2
  <2>2. \A e \in Id : status'[e] # "none" => e <= ids'
    BY <1>2, <2>1 DEF FreshInv
  <2>3. ASSUME NEW b \in calls', b.stage = "spent" PROVE b.id <= ids' /\ status'[b.id] = "none"
    <3>1. CASE b = d
      BY <1>2, <1>3, <1>5, <3>1
    <3>2. CASE b \in calls
      BY <1>2, <1>4, <2>1, <2>3, <3>2 DEF FreshInv
    <3> QED
      BY <1>2, <3>1, <3>2
  <2> QED
    BY <2>2, <2>3
<1>7. ASSUME NEW a \in calls', NEW b \in calls', a.stage = "spent", b.stage = "spent", a.id = b.id
      PROVE  a = b
  <2>1. \A x \in calls : x.stage = "spent" => x.id # ids + 1
    BY <1>2, <1>4 DEF FreshInv
  <2> QED
    BY <1>2, <1>3, <1>7, <2>1 DEF FreshInv
<1> QED
  BY <1>6, <1>7 DEF FreshInv

LEMMA CommitKeepsFresh ==
  ASSUME EInv, FreshInv, NEW c \in calls, EnrollCommit(c)
  PROVE  FreshInv'
<1>1. PICK d : d = [c EXCEPT !.stage = "stored"]
  OBVIOUS
<1>2. /\ c \in Call /\ c.stage = "spent" /\ c.id \in Id /\ ids' = ids
      /\ status \in [Id -> Status] /\ status' = [status EXCEPT ![c.id] = "active"]
      /\ calls' = (calls \ {c}) \cup {d}
  BY <1>1 DEF EnrollCommit, Move, EInv, TypeOK, CallOK
<1>3. d.stage = "stored"
  BY <1>1, <1>2, StageFacts
<1>4. \A b \in calls' : b.stage = "spent" => b \in calls /\ b.id \in Id /\ b.id # c.id
  BY <1>2, <1>3 DEF EInv, CallOK, FreshInv
<1> QED
  BY <1>2, <1>4 DEF FreshInv

\* A call that timed out goes on under another name, and its repetition starts
\* from the beginning.
LEMMA TimeOutKeepsFresh ==
  ASSUME EInv, FreshInv, NEW c \in calls, AttemptTimesOut(c)
  PROVE  FreshInv'
<1>1. PICK d : d = [c EXCEPT !.live = FALSE]
  OBVIOUS
<1>2. /\ c \in Call /\ UNCHANGED <<ids, status>> /\ calls' = (calls \ {c}) \cup {d, Resend(c)}
  BY <1>1 DEF AttemptTimesOut, EInv, TypeOK
<1>3. d.id = c.id /\ d.stage = c.stage /\ Resend(c).stage = "sent"
  BY <1>1, <1>2, LateFacts, ResendFacts DEF EInv
<1>4. ASSUME NEW a \in calls', a.stage = "spent"
      PROVE  (a \in calls /\ a # c) \/ (a = d /\ c.stage = "spent")
  BY <1>2, <1>3, <1>4
<1>5. \A a \in calls' : a.stage = "spent" => a.id <= ids /\ status[a.id] = "none"
  BY <1>3, <1>4 DEF FreshInv
<1>6. ASSUME NEW a \in calls', NEW b \in calls', a.stage = "spent", b.stage = "spent", a.id = b.id
      PROVE  a = b
  BY <1>3, <1>4, <1>6 DEF FreshInv
<1> QED
  BY <1>2, <1>5, <1>6 DEF FreshInv

LEMMA FreshInvStep == EInv /\ EInv' /\ FreshInv /\ [Next]_vars => FreshInv'
<1> SUFFICES ASSUME EInv, EInv', FreshInv, [Next]_vars PROVE FreshInv'
  OBVIOUS
<1>1. status' \in [Id -> Status] /\ status \in [Id -> Status] /\ calls \subseteq Call
  BY DEF EInv, TypeOK
<1>2. ASSUME UNCHANGED <<ids, status>>, \A d \in calls' : d.stage = "spent" => d \in calls
      PROVE  FreshInv'
  BY <1>1, <1>2, PlainKeepsFresh
<1>3. CASE \E t \in Token : Issue(t) \/ TokenExpires(t)
  BY <1>2, <1>3 DEF Issue, TokenExpires
<1>4. CASE \E a \in Agent : Start(a) \/ Beat(a) \/ AgentDies(a) \/ \E t \in Token : Provision(a, t)
  BY <1>2, <1>4 DEF Start, Beat, AgentDies, Provision, Send
<1>5. CASE \E e \in Id : Quarantine(e) \/ Decommission(e)
  <2>1. /\ UNCHANGED <<ids, calls>>
        /\ \A e \in Id : status'[e] = "none" <=> status[e] = "none"
    BY <1>1, <1>5 DEF Quarantine, Decommission
  <2> QED
    BY <1>1, <2>1, PlainKeepsFresh
<1>6. CASE \E e \in Id : OnlineExpires(e) \/ CredentialExpires(e)
  BY <1>2, <1>6 DEF OnlineExpires, CredentialExpires
<1>7. ASSUME NEW c \in calls, Receive(c) PROVE FreshInv'
  BY <1>2, <1>7 DEF Receive
<1>8. ASSUME NEW c \in calls, AttemptFails(c) PROVE FreshInv'
  <2>1. Resend(c).stage = "sent"
    BY <1>1, ResendFacts DEF EInv
  <2> QED
    BY <1>2, <1>8, <2>1 DEF AttemptFails, Move
<1>9. ASSUME NEW c \in calls, AttemptTimesOut(c) PROVE FreshInv'
  BY <1>9, TimeOutKeepsFresh
<1>10. ASSUME NEW c \in calls, EnrollSpend(c) PROVE FreshInv'
  BY <1>10, SpendKeepsFresh
<1>11. ASSUME NEW c \in calls, EnrollCommit(c) PROVE FreshInv'
  BY <1>11, CommitKeepsFresh
<1>12. ASSUME NEW c \in calls, EnrollCheck(c) \/ BeatAuth(c) \/ BeatMark(c) \/ EnrollAnswer(c) \/ BeatCommit(c)
       PROVE  FreshInv'
  <2>1. ids' = ids /\ status' = status
    BY <1>1, <1>12 DEF EnrollCheck, BeatAuth, BeatMark, EnrollAnswer, BeatCommit, Written
  <2>2. PICK d : d.stage # "spent" /\ calls' \subseteq calls \cup {d}
    <3>1. \A ok \in BOOLEAN : [c EXCEPT !.stage = "replied", !.ok = ok].stage = "replied"
      BY <1>1 DEF Call
    <3>2. /\ [c EXCEPT !.stage = "known"].stage = "known"
          /\ [c EXCEPT !.stage = "marked"].stage = "marked"
          /\ [c EXCEPT !.stage = "known", !.seen = status[c.id]].stage = "known"
      BY <1>1 DEF Call
    <3> QED
      BY <1>12, <3>1, <3>2 DEF EnrollCheck, BeatAuth, BeatMark, EnrollAnswer, BeatCommit, Reply, Move
  <2> QED
    BY <1>2, <2>1, <2>2
<1>13. CASE UNCHANGED vars
  BY <1>2, <1>13 DEF vars
<1> QED
  BY <1>3, <1>4, <1>5, <1>6, <1>7, <1>8, <1>9, <1>10, <1>11, <1>12, <1>13 DEF Next, Serve

\* Only the commit of enroll writes "active", and it makes a row of its own.
LEMMA NobodyReturns ==
  ASSUME EInv, FreshInv, [Next]_vars, NEW e \in Id, status[e] = "decommissioned"
  PROVE  status'[e] # "active"
<1>1. status \in [Id -> Status]
  BY DEF EInv, TypeOK
<1>2. CASE \E i \in Id : Quarantine(i) \/ Decommission(i)
  BY <1>1, <1>2 DEF Quarantine, Decommission
<1>3. ASSUME NEW c \in calls, EnrollCommit(c) PROVE status'[e] # "active"
  <2>1. status[c.id] = "none" /\ status' = [status EXCEPT ![c.id] = "active"]
    BY <1>3 DEF EnrollCommit, FreshInv
  <2> QED
    BY <1>1, <2>1
<1>4. ASSUME NEW c \in calls, BeatCommit(c) PROVE status'[e] # "active"
  BY <1>1, <1>4 DEF BeatCommit, Written
<1>5. CASE UNCHANGED status
  BY <1>5
<1>6. \/ \E i \in Id : Quarantine(i) \/ Decommission(i)
      \/ \E c \in calls : EnrollCommit(c) \/ BeatCommit(c)
      \/ UNCHANGED status
  BY DEF Next, Serve, Issue, TokenExpires, Start, Beat, AgentDies, Provision, Receive, AttemptFails,
         AttemptTimesOut, EnrollCheck, EnrollSpend, EnrollAnswer, BeatAuth, BeatMark, OnlineExpires,
         CredentialExpires, vars
<1> QED
  BY <1>2, <1>3, <1>4, <1>5, <1>6

\* No heartbeat, retry or late commit makes a decommissioned endpoint active again.
THEOREM StaysDecommissioned == Spec => DecommissionSticks
<1>1. Init => EInv /\ FreshInv
  BY EInvInit, FreshInvInit
<1>2. EInv /\ FreshInv /\ [Next]_vars => (EInv /\ FreshInv)'
  BY EInvStep, FreshInvStep
<1>3. EInv /\ FreshInv /\ [Next]_vars
        => [\A e \in Id : status[e] = "decommissioned" => status'[e] # "active"]_vars
  BY NobodyReturns
<1> QED
  BY <1>1, <1>2, <1>3, PTL DEF Spec, DecommissionSticks
=============================================================================
