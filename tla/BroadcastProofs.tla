--------------------------- MODULE BroadcastProofs ---------------------------
(***************************************************************************)
(* The loop of broadcast over the list that others change under it, for    *)
(* any number of connections, handlers and attempts.                       *)
(***************************************************************************)
EXTENDS Broadcast, FiniteSetTheorems, TLAPS

-----------------------------------------------------------------------------
(* The list *)

\* In a list without repetitions, remove takes out its only occurrence and moves
\* what is behind it up by one.
LEMMA RemoveFacts ==
  ASSUME NEW s \in Seq(Socket), Distinct(s), NEW c \in Elements(s)
  PROVE  /\ Place(s, c) \in DOMAIN s /\ s[Place(s, c)] = c
         /\ Remove(s, c) \in Seq(Socket) /\ Len(Remove(s, c)) = Len(s) - 1
         /\ \A k \in 1..(Len(s) - 1) :
              Remove(s, c)[k] = IF k < Place(s, c) THEN s[k] ELSE s[k + 1]
         /\ Distinct(Remove(s, c))
         /\ Elements(Remove(s, c)) = Elements(s) \ {c}
<1>1. Len(s) \in Nat /\ DOMAIN s = 1..Len(s) /\ \A k \in 1..Len(s) : s[k] \in Socket
  OBVIOUS
<1>2. Place(s, c) \in DOMAIN s /\ s[Place(s, c)] = c
  <2>1. PICK k \in DOMAIN s : s[k] = c
    BY DEF Elements
  <2>2. \A j \in DOMAIN s : s[j] = c => k <= j
    BY <1>1, <2>1 DEF Distinct
  <2> QED
    BY <2>1, <2>2 DEF Place
<1> DEFINE p == Place(s, c)
           r == Remove(s, c)
<1>3. /\ r \in Seq(Socket) /\ Len(r) = Len(s) - 1 /\ DOMAIN r = 1..(Len(s) - 1)
      /\ \A k \in 1..(Len(s) - 1) : r[k] = IF k < p THEN s[k] ELSE s[k + 1]
  <2>1. Len(s) - 1 \in Nat
    BY <1>1, <1>2
  <2>2. \A k \in 1..(Len(s) - 1) : (IF k < p THEN s[k] ELSE s[k + 1]) \in Socket
    BY <1>1
  <2>3. r \in [1..(Len(s) - 1) -> Socket]
    BY <2>2 DEF Remove
  <2> QED
    BY <2>1, <2>3 DEF Remove
<1> HIDE DEF p, r
<1>4. p \in 1..Len(s) /\ s[p] = c
  BY <1>1, <1>2 DEF p
<1>5. Distinct(r)
  <2> SUFFICES ASSUME NEW j \in 1..(Len(s) - 1), NEW k \in 1..(Len(s) - 1), r[j] = r[k] PROVE j = k
    BY <1>3 DEF Distinct
  <2> DEFINE at(x) == IF x < p THEN x ELSE x + 1
  <2>1. at(j) \in DOMAIN s /\ at(k) \in DOMAIN s /\ r[j] = s[at(j)] /\ r[k] = s[at(k)]
    BY <1>1, <1>3, <1>4
  <2>2. at(j) = at(k)
    BY <2>1 DEF Distinct
  <2> QED
    BY <1>4, <2>2
<1>6. Elements(r) \subseteq Elements(s) \ {c}
  <2> SUFFICES ASSUME NEW k \in 1..(Len(s) - 1) PROVE r[k] \in Elements(s) /\ r[k] # c
    BY <1>3 DEF Elements
  <2> DEFINE x == IF k < p THEN k ELSE k + 1
  <2>1. x \in DOMAIN s /\ r[k] = s[x] /\ x # p /\ p \in DOMAIN s
    BY <1>1, <1>3, <1>4
  <2>2. s[x] # s[p]
    BY <2>1 DEF Distinct
  <2> QED
    BY <1>4, <2>1, <2>2 DEF Elements
<1>7. Elements(s) \ {c} \subseteq Elements(r)
  <2> SUFFICES ASSUME NEW k \in 1..Len(s), s[k] # c PROVE s[k] \in Elements(r)
    BY <1>1 DEF Elements
  <2> DEFINE x == IF k < p THEN k ELSE k - 1
  <2>1. k # p
    BY <1>4
  <2>2. x \in 1..(Len(s) - 1) /\ (IF x < p THEN x ELSE x + 1) = k
    BY <1>1, <1>4, <2>1
  <2>3. r[x] = s[k]
    BY <1>3, <2>2
  <2> QED
    BY <1>3, <2>2, <2>3 DEF Elements
<1> QED
  BY <1>2, <1>3, <1>5, <1>6, <1>7 DEF p, r

LEMMA AppendFacts ==
  ASSUME NEW s \in Seq(Socket), NEW c \in Socket
  PROVE  /\ Append(s, c) \in Seq(Socket) /\ Len(Append(s, c)) = Len(s) + 1
         /\ \A k \in 1..Len(s) : Append(s, c)[k] = s[k]
         /\ Append(s, c)[Len(s) + 1] = c
         /\ Elements(Append(s, c)) = Elements(s) \cup {c}
         /\ Distinct(s) /\ c \notin Elements(s) => Distinct(Append(s, c))
<1> DEFINE r == Append(s, c)
<1>1. /\ Len(s) \in Nat /\ DOMAIN s = 1..Len(s)
      /\ r \in Seq(Socket) /\ Len(r) = Len(s) + 1 /\ DOMAIN r = 1..(Len(s) + 1)
      /\ \A k \in 1..Len(s) : r[k] = s[k]
      /\ r[Len(s) + 1] = c
  OBVIOUS
<1> HIDE DEF r
<1>2. Elements(r) = Elements(s) \cup {c}
  <2>1. \A k \in 1..(Len(s) + 1) : k \in 1..Len(s) \/ k = Len(s) + 1
    BY <1>1
  <2>2. \A k \in 1..Len(s) : k \in 1..(Len(s) + 1)
    BY <1>1
  <2>3. Len(s) + 1 \in 1..(Len(s) + 1)
    BY <1>1
  <2> QED
    BY <1>1, <2>1, <2>2, <2>3 DEF Elements
<1>3. Distinct(s) /\ c \notin Elements(s) => Distinct(r)
  BY <1>1 DEF Distinct, Elements
<1> QED
  BY <1>1, <1>2, <1>3 DEF r

-----------------------------------------------------------------------------
(* Types, and the list of connections *)

Stage == {"idle", "loop", "purge", "done", "lost"}

\* A connection is in the list once, and only after its own handler put it there;
\* while a broadcast removes its dead, nothing else runs.
ListInv ==
  /\ TypeOK /\ Distinct(active)
  /\ \A c \in Elements(active) : joined[c] \in {"in", "out"}
  /\ \A b \in Call : cast[b].stage = "purge" <=> held = b

LEMMA IdleFacts ==
  /\ Idle \in Cast /\ Idle.stage = "idle" /\ Idle.sent = <<>> /\ Idle.try = 1
  /\ \A b \in Call : After(b) \in Cast /\ After(b).stage \in {"idle", "done"} /\ After(b).sent = <<>>
                     /\ After(b).try = 1
<1>1. 1 \in 1..MaxAttempts /\ <<>> \in Seq(Socket) /\ {} \in SUBSET Socket
  BY BroadcastAssumption
<1>2. Idle \in Cast
  BY <1>1 DEF Idle, Cast
<1>3. [Idle EXCEPT !.stage = "done"] \in Cast
  BY <1>2 DEF Cast
<1> QED
  BY <1>2, <1>3 DEF Idle, After

\* A call that has failed starts anew, or is lost.
LEMMA FailedFacts ==
  ASSUME TypeOK, NEW b \in Call
  PROVE  /\ Failed(b) \in Cast /\ Failed(b).stage \in {"idle", "lost"}
         /\ Failed(b).sent = cast[b].sent \/ Failed(b).sent = <<>>
         /\ \/ Failed(b).stage = "lost" /\ cast[b].try = MaxAttempts
            \/ Failed(b).stage = "idle" /\ Failed(b).try \in {1, cast[b].try + 1}
<1>1. cast[b] \in Cast
  BY DEF TypeOK
<1>2. CASE cast[b].try < MaxAttempts
  <2>1. cast[b].try + 1 \in 1..MaxAttempts
    BY <1>1, <1>2, BroadcastAssumption DEF Cast
  <2> QED
    BY <1>1, <1>2, <2>1 DEF Failed, Cast
<1>3. CASE ~(cast[b].try < MaxAttempts)
  <2>1. cast[b].try = MaxAttempts
    BY <1>1, <1>3, BroadcastAssumption DEF Cast
  <2>2. /\ [cast[b] EXCEPT !.stage = "lost"] \in Cast
        /\ [cast[b] EXCEPT !.stage = "lost"].stage = "lost"
        /\ [cast[b] EXCEPT !.stage = "lost"].sent = cast[b].sent
    BY <1>1 DEF Cast
  <2> QED
    BY <1>3, <2>1, <2>2, IdleFacts DEF Failed
<1> QED
  BY <1>2, <1>3

\* A broadcast begins anew with each attempt.
LEMMA FreshFacts ==
  ASSUME TypeOK, NEW b \in Call
  PROVE  /\ Fresh(b) \in Cast /\ Fresh(b).stage = "loop" /\ Fresh(b).sent = <<>>
         /\ Fresh(b).dead = <<>> /\ Fresh(b).try = cast[b].try
         /\ Fresh(b).i = 1 /\ Fresh(b).start = Elements(active) /\ Fresh(b).shifts = 0
<1>1. Elements(active) \in SUBSET Socket /\ <<>> \in Seq(Socket) /\ 1 \in Nat \ {0}
  BY DEF Elements, TypeOK
<1> DEFINE x == [cast[b] EXCEPT !.stage = "loop"]
           y == [x EXCEPT !.i = 1]
           z == [y EXCEPT !.dead = <<>>]
           u == [z EXCEPT !.sent = <<>>]
           v == [u EXCEPT !.start = Elements(active)]
           w == [v EXCEPT !.shifts = 0]
<1>2. Fresh(b) = w
  BY DEF Fresh
<1>3. x \in Cast /\ x.stage = "loop" /\ x.try = cast[b].try
  BY DEF TypeOK, Cast
<1> HIDE DEF x
<1>4. y \in Cast /\ y.stage = "loop" /\ y.try = cast[b].try /\ y.i = 1
  BY <1>1, <1>3 DEF Cast
<1> HIDE DEF y
<1>5. z \in Cast /\ z.stage = "loop" /\ z.try = cast[b].try /\ z.dead = <<>> /\ z.i = 1
  BY <1>1, <1>4 DEF Cast
<1> HIDE DEF z
<1>6. u \in Cast /\ u.stage = "loop" /\ u.try = cast[b].try /\ u.dead = <<>> /\ u.sent = <<>>
      /\ u.i = 1
  BY <1>1, <1>5 DEF Cast
<1> HIDE DEF u
<1>7. v \in Cast /\ v.stage = "loop" /\ v.try = cast[b].try /\ v.dead = <<>> /\ v.sent = <<>>
      /\ v.i = 1 /\ v.start = Elements(active)
  BY <1>1, <1>6 DEF Cast
<1> HIDE DEF v
<1>8. w \in Cast /\ w.stage = "loop" /\ w.try = cast[b].try /\ w.dead = <<>> /\ w.sent = <<>>
      /\ w.i = 1 /\ w.start = Elements(active) /\ w.shifts = 0
  BY <1>7 DEF Cast
<1> HIDE DEF w
<1> QED
  BY <1>2, <1>8

\* A round of the loop moves the iterator by one.
LEMMA ToldFacts ==
  ASSUME TypeOK, NEW b \in Call, NEW c \in Socket
  PROVE  \A x \in {Told(b, c), Found(b, c)} :
           /\ x \in Cast /\ x.stage = cast[b].stage /\ x.try = cast[b].try
           /\ x.i = cast[b].i + 1 /\ x.start = cast[b].start /\ x.shifts = cast[b].shifts
           /\ x = Told(b, c) => x.sent = Append(cast[b].sent, c) /\ x.dead = cast[b].dead
           /\ x = Found(b, c) => x.sent = cast[b].sent /\ x.dead = Append(cast[b].dead, c)
<1>1. cast[b] \in Cast
  BY DEF TypeOK
<1>2. Append(cast[b].sent, c) \in Seq(Socket) /\ Append(cast[b].dead, c) \in Seq(Socket)
      /\ cast[b].i + 1 \in Nat \ {0}
  BY <1>1 DEF Cast
<1> DEFINE x == [cast[b] EXCEPT !.i = cast[b].i + 1]
<1>3. /\ x \in Cast /\ x.stage = cast[b].stage /\ x.try = cast[b].try /\ x.i = cast[b].i + 1
      /\ x.sent = cast[b].sent /\ x.dead = cast[b].dead
      /\ x.start = cast[b].start /\ x.shifts = cast[b].shifts
  BY <1>1, <1>2 DEF Cast
<1>4. /\ Told(b, c) = [x EXCEPT !.sent = Append(cast[b].sent, c)]
      /\ Found(b, c) = [x EXCEPT !.dead = Append(cast[b].dead, c)]
  BY DEF Told, Found, Caught
<1> HIDE DEF x
<1>5. /\ Told(b, c) \in Cast /\ Told(b, c).stage = cast[b].stage /\ Told(b, c).try = cast[b].try
      /\ Told(b, c).i = cast[b].i + 1 /\ Told(b, c).sent = Append(cast[b].sent, c)
      /\ Told(b, c).dead = cast[b].dead
      /\ Told(b, c).start = cast[b].start /\ Told(b, c).shifts = cast[b].shifts
  BY <1>2, <1>3, <1>4 DEF Cast
<1>6. /\ Found(b, c) \in Cast /\ Found(b, c).stage = cast[b].stage /\ Found(b, c).try = cast[b].try
      /\ Found(b, c).i = cast[b].i + 1 /\ Found(b, c).sent = cast[b].sent
      /\ Found(b, c).dead = Append(cast[b].dead, c)
      /\ Found(b, c).start = cast[b].start /\ Found(b, c).shifts = cast[b].shifts
  BY <1>2, <1>3, <1>4 DEF Cast
<1> QED
  BY <1>5, <1>6

\* How the other broadcasts see a removal
LEMMA ShiftedFacts ==
  ASSUME TypeOK, NEW b, NEW c
  PROVE  /\ Shifted(b, c) \in [Call -> Cast]
         /\ \A d \in Call :
              /\ Shifted(b, c)[d].stage = cast[d].stage /\ Shifted(b, c)[d].try = cast[d].try
              /\ Shifted(b, c)[d].i = cast[d].i /\ Shifted(b, c)[d].dead = cast[d].dead
              /\ Shifted(b, c)[d].sent = cast[d].sent /\ Shifted(b, c)[d].start = cast[d].start
              /\ Shifted(b, c)[d].shifts = IF d # b /\ cast[d].stage = "loop" /\ Place(active, c) < cast[d].i
                                           THEN cast[d].shifts + 1 ELSE cast[d].shifts
<1> SUFFICES ASSUME NEW d \in Call
             PROVE  /\ Shifted(b, c)[d] \in Cast
                    /\ Shifted(b, c)[d].stage = cast[d].stage /\ Shifted(b, c)[d].try = cast[d].try
                    /\ Shifted(b, c)[d].i = cast[d].i /\ Shifted(b, c)[d].dead = cast[d].dead
                    /\ Shifted(b, c)[d].sent = cast[d].sent /\ Shifted(b, c)[d].start = cast[d].start
                    /\ Shifted(b, c)[d].shifts = IF d # b /\ cast[d].stage = "loop" /\ Place(active, c) < cast[d].i
                                                 THEN cast[d].shifts + 1 ELSE cast[d].shifts
  BY DEF Shifted
<1>1. cast[d] \in Cast
  BY DEF TypeOK
<1>2. Shifted(b, c)[d] = IF d # b /\ cast[d].stage = "loop" /\ Place(active, c) < cast[d].i
                         THEN [cast[d] EXCEPT !.shifts = cast[d].shifts + 1] ELSE cast[d]
  BY DEF Shifted
<1>3. cast[d].shifts + 1 \in Nat
  BY <1>1 DEF Cast
<1> QED
  BY <1>1, <1>2, <1>3 DEF Cast

LEMMA ListInvInit == Init => ListInv
<1> HAVE Init
<1>1. active \in Seq(Socket) /\ DOMAIN active = {} /\ shut = gone /\ gone = {}
  BY DEF Init
<1>2. cast \in [Call -> Cast] /\ \A b \in Call : cast[b].stage = "idle"
  BY IdleFacts DEF Init
<1>3. TypeOK
  BY <1>1, <1>2 DEF Init, TypeOK
<1> QED
  BY <1>1, <1>2, <1>3, BroadcastAssumption DEF Init, ListInv, Distinct, Elements

\* The steps of the connections
LEMMA SocketKeepsList ==
  ASSUME ListInv, NEW c \in Socket, Accept(c) \/ Join(c) \/ Close(c) \/ Ping(c)
  PROVE  ListInv'
<1>1. /\ active \in Seq(Socket) /\ joined \in [Socket -> {"new", "accepted", "in", "out"}]
      /\ gone \subseteq Socket /\ shut \subseteq gone /\ cast \in [Call -> Cast]
      /\ held \in Call \cup {None} /\ TypeOK /\ Distinct(active)
      /\ \A x \in Elements(active) : joined[x] \in {"in", "out"}
      /\ \A b \in Call : cast[b].stage = "purge" <=> held = b
  BY DEF ListInv, TypeOK
<1>2. CASE Accept(c)
  BY <1>1, <1>2 DEF Accept, ListInv, TypeOK, Elements, Distinct
<1>3. CASE Close(c)
  BY <1>1, <1>3 DEF Close, ListInv, TypeOK, Elements, Distinct
<1>4. CASE Join(c)
  <2>1. /\ active' = Append(active, c) /\ joined' = [joined EXCEPT ![c] = "in"]
        /\ joined[c] = "accepted" /\ UNCHANGED <<gone, shut, cast, held>>
    BY <1>4 DEF Join, Joined
  <2>2. c \notin Elements(active)
    BY <1>1, <2>1
  <2>3. active' \in Seq(Socket) /\ Distinct(active') /\ Elements(active') = Elements(active) \cup {c}
    BY <1>1, <2>1, <2>2, AppendFacts
  <2>4. \A x \in Elements(active') : joined'[x] \in {"in", "out"}
    BY <1>1, <2>1, <2>3
  <2> QED
    BY <1>1, <2>1, <2>3, <2>4 DEF ListInv, TypeOK, Elements, Distinct
<1>5. CASE Ping(c)
  <2>1. /\ joined[c] = "in" /\ c \in gone /\ joined' = [joined EXCEPT ![c] = "out"]
        /\ shut' = shut \cup {c} /\ UNCHANGED <<gone, held>>
    BY <1>5 DEF Ping
  <2>2. CASE c \notin shut /\ c \in Elements(active)
    <3>1. active' = Remove(active, c) /\ cast' = Shifted(None, c)
      BY <1>5, <2>2 DEF Ping
    <3>2. active' \in Seq(Socket) /\ Distinct(active') /\ Elements(active') = Elements(active) \ {c}
      BY <1>1, <2>2, <3>1, RemoveFacts
    <3>3. cast' \in [Call -> Cast] /\ \A b \in Call : cast'[b].stage = cast[b].stage
      BY <1>1, <3>1, ShiftedFacts
    <3>4. \A x \in Elements(active') : joined'[x] \in {"in", "out"}
      BY <1>1, <2>1, <3>2 DEF Elements
    <3> QED
      BY <1>1, <2>1, <3>2, <3>3, <3>4 DEF ListInv, TypeOK, Elements, Distinct
  <2>3. CASE ~(c \notin shut /\ c \in Elements(active))
    <3>1. UNCHANGED <<active, cast>>
      BY <1>5, <2>3 DEF Ping
    <3> QED
      BY <1>1, <2>1, <3>1 DEF ListInv, TypeOK, Elements, Distinct
  <2> QED
    BY <2>2, <2>3
<1> QED
  BY <1>2, <1>3, <1>4, <1>5

\* The steps of a broadcast
LEMMA CallKeepsList ==
  ASSUME ListInv, NEW b \in Call, Begin(b) \/ Tell(b) \/ EndLoop(b) \/ Purge(b)
  PROVE  ListInv'
<1>1. /\ active \in Seq(Socket) /\ joined \in [Socket -> {"new", "accepted", "in", "out"}]
      /\ gone \subseteq Socket /\ shut \subseteq gone /\ cast \in [Call -> Cast] /\ cast[b] \in Cast
      /\ held \in Call \cup {None} /\ TypeOK /\ Distinct(active)
      /\ \A x \in Elements(active) : joined[x] \in {"in", "out"}
      /\ \A d \in Call : cast[d].stage = "purge" <=> held = d
      /\ None \notin Call /\ UNCHANGED <<joined, gone>>
  BY BroadcastAssumption DEF ListInv, TypeOK, Begin, Tell, EndLoop, Purge
<1>2. ASSUME UNCHANGED <<active, held>>, held = None, shut' \subseteq gone,
             cast' \in [Call -> Cast], \A d \in Call : cast'[d].stage # "purge"
      PROVE  ListInv'
  BY <1>1, <1>2 DEF ListInv, TypeOK, Elements, Distinct
<1>3. CASE Begin(b)
  <2>1. Fresh(b) \in Cast /\ Fresh(b).stage = "loop"
    BY <1>1, FreshFacts
  <2>2. PICK x \in {Fresh(b), After(b)} : cast' = [cast EXCEPT ![b] = x]
    BY <1>3 DEF Begin
  <2>3. x \in Cast /\ x.stage # "purge"
    BY <2>1, <2>2, IdleFacts
  <2>4. cast' \in [Call -> Cast] /\ \A d \in Call : cast'[d].stage # "purge"
    BY <1>1, <1>3, <2>2, <2>3 DEF Begin
  <2> QED
    BY <1>1, <1>2, <1>3, <2>4 DEF Begin
<1>4. CASE Tell(b)
  <2>1. PICK c : c = active[cast[b].i]
    OBVIOUS
  <2>2. /\ cast[b].stage = "loop" /\ held = None /\ UNCHANGED <<active, held>>
        /\ \/ cast' = [cast EXCEPT ![b] = Told(b, c)] /\ UNCHANGED shut
           \/ c \in gone /\ shut' = shut \cup {c} /\ cast' = [cast EXCEPT ![b] = Found(b, c)]
    BY <1>4, <2>1 DEF Tell
  <2>3. c \in Socket
    BY <1>1, <1>4, <2>1 DEF Tell, AtEnd, Cast
  <2>4. PICK x \in {Told(b, c), Found(b, c)} : cast' = [cast EXCEPT ![b] = x]
    BY <2>2
  <2>5. x \in Cast /\ x.stage = "loop"
    BY <1>1, <2>2, <2>3, <2>4, ToldFacts
  <2>6. cast' \in [Call -> Cast] /\ \A d \in Call : cast'[d].stage # "purge"
    BY <1>1, <2>2, <2>4, <2>5
  <2> QED
    BY <1>1, <1>2, <2>2, <2>6
<1>5. CASE EndLoop(b)
  <2>1. /\ held = None /\ held' = b /\ cast' = [cast EXCEPT ![b].stage = "purge"]
        /\ UNCHANGED <<active, shut>>
    BY <1>5 DEF EndLoop
  <2>2. [cast[b] EXCEPT !.stage = "purge"] \in Cast
    BY <1>1 DEF Cast
  <2>3. /\ cast' \in [Call -> Cast] /\ cast'[b].stage = "purge"
        /\ \A d \in Call \ {b} : cast'[d] = cast[d]
    BY <1>1, <2>1, <2>2
  <2> QED
    BY <1>1, <2>1, <2>3 DEF ListInv, TypeOK, Elements, Distinct
<1>6. CASE Purge(b)
  <2>1. held = b /\ UNCHANGED <<shut>> /\ cast[b].stage = "purge"
    BY <1>1, <1>6 DEF Purge
  <2>2. CASE held' = None /\ UNCHANGED active /\ \E x \in {After(b), Failed(b)} : cast' = [cast EXCEPT ![b] = x]
    <3>1. PICK x \in {After(b), Failed(b)} : cast' = [cast EXCEPT ![b] = x]
      BY <2>2
    <3>2. x \in Cast /\ x.stage # "purge"
      BY <1>1, <3>1, IdleFacts, FailedFacts
    <3> QED
      BY <1>1, <2>1, <2>2, <3>1, <3>2 DEF ListInv, TypeOK, Elements, Distinct
  <2>3. ASSUME cast[b].dead # <<>>, Head(cast[b].dead) \in Elements(active)
        PROVE  ListInv'
    <3> DEFINE c == Head(cast[b].dead)
    <3>1. /\ active' = Remove(active, c) /\ UNCHANGED held
          /\ cast' = [Shifted(b, c) EXCEPT ![b].dead = Tail(Shifted(b, c)[b].dead)]
      BY <1>6, <2>3 DEF Purge
    <3>2. active' \in Seq(Socket) /\ Distinct(active') /\ Elements(active') = Elements(active) \ {c}
      BY <1>1, <2>3, <3>1, RemoveFacts
    <3>3. /\ Shifted(b, c) \in [Call -> Cast] /\ \A d \in Call : Shifted(b, c)[d].stage = cast[d].stage
          /\ Shifted(b, c)[b].dead = cast[b].dead /\ cast[b].dead \in Seq(Socket)
      BY <1>1, ShiftedFacts DEF Cast
    <3>4. [Shifted(b, c)[b] EXCEPT !.dead = Tail(Shifted(b, c)[b].dead)] \in Cast
      <4>1. Tail(Shifted(b, c)[b].dead) \in Seq(Socket) /\ Shifted(b, c)[b] \in Cast
        BY <2>3, <3>3
      <4> QED
        BY <4>1 DEF Cast
    <3>5. cast' \in [Call -> Cast] /\ \A d \in Call : cast'[d].stage = cast[d].stage
      <4>1. Shifted(b, c)[b] \in Cast
        BY <3>3
      <4>2. [Shifted(b, c)[b] EXCEPT !.dead = Tail(Shifted(b, c)[b].dead)].stage = cast[b].stage
        BY <3>3, <4>1 DEF Cast
      <4> QED
        BY <3>1, <3>3, <3>4, <4>2
    <3>6. \A x \in Elements(active') : joined'[x] \in {"in", "out"}
      BY <1>1, <3>2
    <3> QED
      BY <1>1, <2>1, <3>1, <3>2, <3>5, <3>6 DEF ListInv, TypeOK, Elements, Distinct
  <2> QED
    BY <1>6, <2>2, <2>3 DEF Purge
<1> QED
  BY <1>3, <1>4, <1>5, <1>6

LEMMA ListInvStep == ListInv /\ [Next]_vars => ListInv'
<1> SUFFICES ASSUME ListInv, [Next]_vars PROVE ListInv'
  OBVIOUS
<1>1. CASE \E c \in Socket : Accept(c) \/ Join(c) \/ Close(c) \/ Ping(c)
  BY <1>1, SocketKeepsList
<1>2. CASE \E b \in Call : Begin(b) \/ Serve(b)
  BY <1>2, CallKeepsList DEF Serve
<1>3. CASE UNCHANGED vars
  BY <1>3 DEF ListInv, TypeOK, Distinct, Elements, vars
<1> QED
  BY <1>1, <1>2, <1>3 DEF Next

\* The manager keeps a list of connections, each once, for any number of them.
THEOREM BroadcastTypeCorrect == Spec => []TypeOK
<1>1. ListInv => TypeOK
  BY DEF ListInv
<1> QED
  BY <1>1, ListInvInit, ListInvStep, PTL DEF Spec

LEMMA ListAlways == Spec => []ListInv
  BY ListInvInit, ListInvStep, PTL DEF Spec

-----------------------------------------------------------------------------
(* What a broadcast has told, and how often it has failed *)

\* Closed connections that are out of the list: none of them makes b fail again.
Released(b) ==
  {c \in gone : /\ joined[c] \in {"in", "out"} /\ c \notin Elements(active)
                /\ cast[b].stage \in {"loop", "purge"} => c \notin Elements(cast[b].dead)}

Tally(b) == IF cast[b].stage = "lost" THEN MaxAttempts ELSE cast[b].try - 1

\* What is still before the iterator is not told yet, whatever was removed behind
\* it; every failure has released another closed connection.
OneCall(b) ==
  /\ Distinct(cast[b].sent)
  /\ \A c \in Elements(cast[b].sent) : joined[c] \in {"in", "out"}
  /\ cast[b].stage = "loop" =>
       \A k \in DOMAIN active : k >= cast[b].i => active[k] \notin Elements(cast[b].sent)
  /\ cast[b].stage \in {"loop", "purge"} =>
       \A c \in Elements(cast[b].dead) : c \in gone /\ joined[c] \in {"in", "out"}
  /\ Tally(b) <= Cardinality(Released(b))

CallInv == \A b \in Call : OneCall(b)

\* What somebody else may do to the list while b waits
Gentle ==
  /\ gone \subseteq gone'
  /\ \A c \in Socket : joined[c] \in {"in", "out"} => joined'[c] \in {"in", "out"}
  /\ \/ UNCHANGED active
     \/ \E c \in Elements(active) : active' = Remove(active, c)
     \/ \E c \in Socket : joined[c] = "accepted" /\ active' = Append(active, c)

Same(b) ==
  /\ cast'[b].stage = cast[b].stage /\ cast'[b].try = cast[b].try /\ cast'[b].i = cast[b].i
  /\ cast'[b].dead = cast[b].dead /\ cast'[b].sent = cast[b].sent

LEMMA ReleasedFinite ==
  ASSUME TypeOK, NEW b \in Call
  PROVE  /\ IsFiniteSet(Released(b)) /\ Cardinality(Released(b)) \in Nat
         /\ IsFiniteSet(gone) /\ Cardinality(Released(b)) <= Cardinality(gone)
<1>1. IsFiniteSet(gone) /\ Released(b) \subseteq gone
  BY BroadcastAssumption, FS_Subset DEF TypeOK, Released
<1> QED
  BY <1>1, FS_Subset, FS_CardinalityType

\* While the others change the list, the elements before the iterator of b stay
\* those before it, or leave, or are new.
LEMMA WaitingKeepsCall ==
  ASSUME ListInv, ListInv', NEW b \in Call, OneCall(b), Gentle, Same(b)
  PROVE  OneCall(b)'
<1>1. /\ active \in Seq(Socket) /\ Distinct(active) /\ TypeOK /\ cast[b] \in Cast
      /\ Len(active) \in Nat /\ DOMAIN active = 1..Len(active)
      /\ \A c \in Elements(active) : joined[c] \in {"in", "out"} /\ c \in Socket
      /\ cast[b].i \in Nat
  <2>1. active \in Seq(Socket) /\ Distinct(active) /\ TypeOK /\ cast[b] \in Cast
    BY DEF ListInv, TypeOK
  <2>2. Len(active) \in Nat /\ DOMAIN active = 1..Len(active) /\ \A k \in DOMAIN active : active[k] \in Socket
    BY <2>1
  <2>3. cast[b].i \in Nat
    BY <2>1 DEF Cast
  <2> QED
    BY <2>1, <2>2, <2>3 DEF ListInv, Elements
<1>2. /\ \A c \in Elements(cast[b].sent) : c \in Socket
      /\ \A c \in Elements(cast[b].dead) : c \in Socket
  BY <1>1 DEF Elements, Cast
<1>3. \A k \in DOMAIN active' : k >= cast[b].i =>
        \/ \E j \in DOMAIN active : j >= cast[b].i /\ active'[k] = active[j]
        \/ active'[k] \in Socket /\ joined[active'[k]] = "accepted"
  <2>1. CASE UNCHANGED active
    BY <2>1
  <2>2. CASE \E c \in Elements(active) : active' = Remove(active, c)
    <3>1. PICK c \in Elements(active) : active' = Remove(active, c)
      BY <2>2
    <3> DEFINE r == Remove(active, c)
               p == Place(active, c)
    <3>2. /\ p \in DOMAIN active /\ r \in Seq(Socket) /\ Len(r) = Len(active) - 1
          /\ \A k \in 1..(Len(active) - 1) : r[k] = IF k < p THEN active[k] ELSE active[k + 1]
      BY <1>1, <3>1, RemoveFacts
    <3> HIDE DEF r, p
    <3>3. active' = r /\ DOMAIN r = 1..(Len(active) - 1)
      BY <1>1, <3>1, <3>2 DEF r
    <3>4. ASSUME NEW k \in 1..(Len(active) - 1), k >= cast[b].i
          PROVE  \E j \in DOMAIN active : j >= cast[b].i /\ r[k] = active[j]
      <4>1. k \in DOMAIN active /\ k + 1 \in DOMAIN active /\ k + 1 >= cast[b].i
        BY <1>1, <3>4
      <4> QED
        BY <3>2, <3>4, <4>1
    <3> QED
      BY <3>3, <3>4
  <2>3. CASE \E c \in Socket : joined[c] = "accepted" /\ active' = Append(active, c)
    <3>1. PICK c \in Socket : joined[c] = "accepted" /\ active' = Append(active, c)
      BY <2>3
    <3>2. /\ active' \in Seq(Socket) /\ Len(active') = Len(active) + 1
          /\ \A k \in 1..Len(active) : active'[k] = active[k]
          /\ active'[Len(active) + 1] = c
      BY <1>1, <3>1, AppendFacts
    <3>3. \A k \in DOMAIN active' : k \in 1..Len(active) \/ k = Len(active) + 1
      BY <1>1, <3>2
    <3> QED
      BY <1>1, <3>1, <3>2, <3>3
  <2> QED
    BY <2>1, <2>2, <2>3 DEF Gentle
<1>4. \A c \in Elements(active') : c \in Elements(active) \/ joined[c] = "accepted"
  <2>1. CASE UNCHANGED active
    BY <2>1 DEF Elements
  <2>2. CASE \E c \in Elements(active) : active' = Remove(active, c)
    <3>1. PICK c \in Elements(active) : active' = Remove(active, c)
      BY <2>2
    <3>2. Elements(Remove(active, c)) = Elements(active) \ {c}
      BY <1>1, RemoveFacts
    <3>3. Elements(active') = Elements(active) \ {c}
      BY <3>1, <3>2 DEF Elements
    <3> QED
      BY <3>3
  <2>3. CASE \E c \in Socket : joined[c] = "accepted" /\ active' = Append(active, c)
    <3>1. PICK c \in Socket : joined[c] = "accepted" /\ active' = Append(active, c)
      BY <2>3
    <3>2. Elements(Append(active, c)) = Elements(active) \cup {c}
      BY <1>1, AppendFacts
    <3>3. Elements(active') = Elements(active) \cup {c}
      BY <3>1, <3>2 DEF Elements
    <3> QED
      BY <3>1, <3>3
  <2> QED
    BY <2>1, <2>2, <2>3 DEF Gentle
<1>5. Elements(cast'[b].sent) = Elements(cast[b].sent) /\ Elements(cast'[b].dead) = Elements(cast[b].dead)
  BY DEF Same, Elements
<1>6. Released(b) \subseteq Released(b)'
  BY <1>1, <1>4, <1>5 DEF Released, Gentle, Same, TypeOK
<1>7. Tally(b)' = Tally(b) /\ Tally(b) \in Int
  BY <1>1, BroadcastAssumption DEF Tally, Same, Cast
<1>8. Tally(b)' <= Cardinality(Released(b))'
  <2>1. IsFiniteSet(Released(b)') /\ Cardinality(Released(b)') \in Nat
    <3>1. Released(b)' \subseteq Socket
      BY DEF Released, ListInv, TypeOK
    <3> QED
      BY <3>1, BroadcastAssumption, FS_Subset, FS_CardinalityType
  <2>2. Cardinality(Released(b)) <= Cardinality(Released(b)') /\ Cardinality(Released(b)) \in Nat
    BY <1>1, <1>6, <2>1, ReleasedFinite, FS_Subset
  <2> QED
    BY <1>7, <2>1, <2>2 DEF OneCall
<1>9. cast'[b].stage = "loop" =>
        \A k \in DOMAIN active' : k >= cast'[b].i => active'[k] \notin Elements(cast'[b].sent)
  BY <1>1, <1>3, <1>5 DEF OneCall, Same
<1> QED
  BY <1>2, <1>5, <1>8, <1>9 DEF OneCall, Gentle, Same, Distinct

\* The steps of a broadcast itself
LEMMA OwnStepKeepsCall ==
  ASSUME ListInv, ListInv', NEW b \in Call, OneCall(b), Begin(b) \/ Tell(b) \/ EndLoop(b) \/ Purge(b)
  PROVE  OneCall(b)' /\ Gentle /\ \A d \in Call \ {b} : Same(d)
<1>1. /\ active \in Seq(Socket) /\ Distinct(active) /\ TypeOK
      /\ cast \in [Call -> Cast] /\ cast[b] \in Cast /\ cast'[b] \in Cast
      /\ cast[b].sent \in Seq(Socket) /\ cast[b].dead \in Seq(Socket)
      /\ cast[b].i \in Nat \ {0} /\ cast[b].try \in 1..MaxAttempts
      /\ MaxAttempts \in Nat \ {0} /\ joined' = joined /\ gone' = gone
  <2>1. cast \in [Call -> Cast] /\ cast[b] \in Cast /\ cast' \in [Call -> Cast] /\ cast'[b] \in Cast
    BY DEF ListInv, TypeOK
  <2>2. /\ cast[b].sent \in Seq(Socket) /\ cast[b].dead \in Seq(Socket)
        /\ cast[b].i \in Nat \ {0} /\ cast[b].try \in 1..MaxAttempts
    BY <2>1 DEF Cast
  <2>3. joined' = joined /\ gone' = gone
    BY DEF Begin, Tell, EndLoop, Purge
  <2> QED
    BY <2>1, <2>2, <2>3, BroadcastAssumption DEF ListInv, TypeOK
<1>2. /\ Len(active) \in Nat /\ DOMAIN active = 1..Len(active)
      /\ \A c \in Elements(active) : c \in Socket /\ joined[c] \in {"in", "out"}
  <2>1. Len(active) \in Nat /\ DOMAIN active = 1..Len(active) /\ \A k \in DOMAIN active : active[k] \in Socket
    BY <1>1
  <2> QED
    BY <2>1 DEF ListInv, Elements
<1>3. /\ IsFiniteSet(Released(b)) /\ Cardinality(Released(b)) \in Nat
      /\ IsFiniteSet(Released(b)') /\ Cardinality(Released(b)') \in Nat
  <2>1. Released(b) \subseteq Socket /\ Released(b)' \subseteq Socket
    BY DEF Released, ListInv, TypeOK
  <2> QED
    BY <2>1, BroadcastAssumption, FS_Subset, FS_CardinalityType
<1>4. ASSUME Released(b) \subseteq Released(b)', Tally(b)' = Tally(b)
      PROVE  Tally(b)' <= Cardinality(Released(b)')
  <2>1. Cardinality(Released(b)) <= Cardinality(Released(b)')
    BY <1>3, <1>4, FS_Subset
  <2> QED
    BY <1>1, <1>3, <1>4, <2>1 DEF OneCall, Tally
<1>5. ASSUME UNCHANGED active, NEW x, cast' = [cast EXCEPT ![b] = x]
      PROVE  Gentle /\ (\A d \in Call \ {b} : Same(d)) /\ cast'[b] = x
  BY <1>1, <1>5 DEF Gentle, Same
<1>6. CASE Begin(b)
  <2>1. PICK x \in {Fresh(b), After(b)} : cast' = [cast EXCEPT ![b] = x]
    BY <1>6 DEF Begin
  <2>2. UNCHANGED active /\ cast[b].stage = "idle"
    BY <1>6 DEF Begin
  <2>3. Gentle /\ (\A d \in Call \ {b} : Same(d)) /\ cast'[b] = x
    BY <1>5, <2>1, <2>2
  <2>4. /\ x.stage \in {"idle", "loop", "done"} /\ x.sent = <<>>
        /\ x.stage = "loop" => x.dead = <<>> /\ x.try = cast[b].try
        /\ x.stage # "loop" => x.try = 1
    BY <1>1, <2>1, FreshFacts, IdleFacts
  <2>5. Released(b) \subseteq Released(b)'
    BY <1>1, <2>2, <2>3, <2>4 DEF Released, Elements
  <2>6. Tally(b)' <= Cardinality(Released(b)')
    <3>1. CASE x.stage = "loop"
      BY <1>4, <2>2, <2>3, <2>4, <2>5, <3>1 DEF Tally
    <3>2. CASE x.stage # "loop"
      BY <1>3, <2>3, <2>4, <3>2 DEF Tally
    <3> QED
      BY <3>1, <3>2
  <2> QED
    BY <2>3, <2>4, <2>6 DEF OneCall, Distinct, Elements
<1>7. CASE Tell(b)
  <2>1. PICK c : c = active[cast[b].i]
    OBVIOUS
  <2>2. /\ cast[b].stage = "loop" /\ UNCHANGED active /\ cast[b].i \in DOMAIN active
        /\ c \in Elements(active) /\ c \in Socket
    <3>1. cast[b].stage = "loop" /\ UNCHANGED active /\ cast[b].i \in DOMAIN active
      BY <1>1, <1>2, <1>7 DEF Tell, AtEnd
    <3> QED
      BY <1>2, <2>1, <3>1 DEF Elements
  <2>3. PICK x \in {Told(b, c), Found(b, c)} :
          cast' = [cast EXCEPT ![b] = x] /\ (x = Told(b, c) \/ c \in gone)
    BY <1>7, <2>1 DEF Tell
  <2>4. Gentle /\ (\A d \in Call \ {b} : Same(d)) /\ cast'[b] = x
    BY <1>5, <2>2, <2>3
  <2>5. x.stage = "loop" /\ x.try = cast[b].try /\ x.i = cast[b].i + 1
    BY <1>1, <2>2, <2>3, ToldFacts
  <2>6. \A k \in DOMAIN active : k >= cast[b].i + 1 => active[k] \notin Elements(cast[b].sent) \cup {c}
    <3> SUFFICES ASSUME NEW k \in DOMAIN active, k >= cast[b].i + 1
                 PROVE  active[k] \notin Elements(cast[b].sent) /\ active[k] # c
      OBVIOUS
    <3>1. k >= cast[b].i /\ k # cast[b].i
      BY <1>1, <1>2
    <3> QED
      BY <1>1, <2>1, <2>2, <3>1 DEF OneCall, Distinct
  <2>7. CASE x = Told(b, c)
    <3>1. x.sent = Append(cast[b].sent, c) /\ x.dead = cast[b].dead
      BY <1>1, <2>2, <2>7, ToldFacts
    <3>2. c \notin Elements(cast[b].sent)
      BY <1>1, <2>1, <2>2 DEF OneCall
    <3>3. Distinct(x.sent) /\ Elements(x.sent) = Elements(cast[b].sent) \cup {c}
      BY <1>1, <2>2, <3>1, <3>2, AppendFacts DEF OneCall
    <3>4. Released(b) \subseteq Released(b)'
      BY <1>1, <2>2, <2>4, <2>5, <3>1 DEF Released, Elements
    <3>5. Tally(b)' <= Cardinality(Released(b)')
      BY <1>4, <2>2, <2>4, <2>5, <3>4 DEF Tally
    <3>6. Elements(cast'[b].sent) = Elements(cast[b].sent) \cup {c} /\ Distinct(cast'[b].sent)
          /\ Elements(cast'[b].dead) = Elements(cast[b].dead)
      BY <2>4, <3>1, <3>3
    <3> QED
      BY <1>1, <1>2, <2>2, <2>4, <2>5, <2>6, <3>5, <3>6 DEF OneCall, Distinct
  <2>8. CASE x = Found(b, c) /\ c \in gone
    <3>1. x.sent = cast[b].sent /\ x.dead = Append(cast[b].dead, c)
      BY <1>1, <2>2, <2>8, ToldFacts
    <3>2. Elements(x.dead) = Elements(cast[b].dead) \cup {c}
      BY <1>1, <2>2, <3>1, AppendFacts
    <3>3. Elements(cast'[b].dead) = Elements(cast[b].dead) \cup {c} /\ cast'[b].sent = cast[b].sent
      BY <2>4, <3>1, <3>2
    <3>4. Released(b) \subseteq Released(b)'
      BY <1>1, <2>2, <2>4, <2>5, <3>3 DEF Released, Elements
    <3>5. Tally(b)' <= Cardinality(Released(b)')
      BY <1>4, <2>2, <2>4, <2>5, <3>4 DEF Tally
    <3>6. /\ cast'[b].stage = "loop" /\ active' = active /\ cast'[b].i = cast[b].i + 1
          /\ \A d \in Elements(cast'[b].dead) : d \in gone /\ joined[d] \in {"in", "out"}
      BY <1>2, <2>2, <2>4, <2>5, <2>8, <3>3 DEF OneCall
    <3>7. Distinct(cast'[b].sent) /\ \A d \in Elements(cast'[b].sent) : joined[d] \in {"in", "out"}
      BY <3>3 DEF OneCall
    <3> QED
      BY <1>1, <2>4, <2>6, <3>3, <3>5, <3>6, <3>7 DEF OneCall, Distinct
  <2> QED
    BY <2>3, <2>7, <2>8
<1>8. CASE EndLoop(b)
  <2>1. /\ cast[b].stage = "loop" /\ UNCHANGED active
        /\ cast' = [cast EXCEPT ![b] = [cast[b] EXCEPT !.stage = "purge"]]
    BY <1>8 DEF EndLoop
  <2>2. Gentle /\ (\A d \in Call \ {b} : Same(d)) /\ cast'[b] = [cast[b] EXCEPT !.stage = "purge"]
    BY <1>5, <2>1
  <2>3. /\ cast'[b].stage = "purge" /\ cast'[b].try = cast[b].try /\ cast'[b].sent = cast[b].sent
        /\ cast'[b].dead = cast[b].dead
    BY <1>1, <2>2 DEF Cast
  <2>4. Released(b) \subseteq Released(b)'
    BY <1>1, <2>1, <2>3 DEF Released, Elements
  <2>5. Tally(b)' <= Cardinality(Released(b)')
    BY <1>4, <2>1, <2>3, <2>4 DEF Tally
  <2> QED
    BY <1>1, <2>1, <2>2, <2>3, <2>5 DEF OneCall, Distinct, Elements
<1>9. CASE Purge(b)
  <2>1. held = b /\ cast[b].stage = "purge"
    BY <1>9 DEF Purge, ListInv
  <2>2. CASE UNCHANGED active /\ cast' = [cast EXCEPT ![b] = After(b)]
    <3>1. Gentle /\ (\A d \in Call \ {b} : Same(d)) /\ cast'[b] = After(b)
      BY <1>5, <2>2
    <3>2. cast'[b].stage \in {"idle", "done"} /\ cast'[b].sent = <<>> /\ cast'[b].try = 1
      BY <3>1, IdleFacts
    <3>3. Tally(b)' <= Cardinality(Released(b)')
      BY <1>3, <3>2 DEF Tally
    <3> QED
      BY <3>1, <3>2, <3>3 DEF OneCall, Distinct, Elements
  <2>3. ASSUME cast[b].dead # <<>>
        PROVE  /\ Head(cast[b].dead) \in Elements(cast[b].dead)
               /\ Elements(Tail(cast[b].dead)) \subseteq Elements(cast[b].dead)
    <3>1. PICK s \in Seq(Socket) : s = cast[b].dead
      BY <1>1
    <3>2. Head(s) = s[1] /\ 1 \in DOMAIN s
      BY <2>3, <3>1
    <3>3. \A k \in DOMAIN Tail(s) : k + 1 \in DOMAIN s /\ Tail(s)[k] = s[k + 1]
      BY <2>3, <3>1
    <3> QED
      BY <3>1, <3>2, <3>3 DEF Elements
  <2>4. ASSUME cast[b].dead # <<>>, Head(cast[b].dead) \in Elements(active)
        PROVE  OneCall(b)' /\ Gentle /\ \A d \in Call \ {b} : Same(d)
    <3> DEFINE c == Head(cast[b].dead)
    <3>1. /\ active' = Remove(active, c)
          /\ cast' = [Shifted(b, c) EXCEPT ![b].dead = Tail(Shifted(b, c)[b].dead)]
      BY <1>9, <2>4 DEF Purge
    <3>2. Elements(Remove(active, c)) = Elements(active) \ {c}
      BY <1>1, <2>4, RemoveFacts
    <3>3. Elements(active') = Elements(active) \ {c}
      BY <3>1, <3>2
    <3>4. /\ Shifted(b, c) \in [Call -> Cast]
          /\ \A d \in Call :
              /\ Shifted(b, c)[d].stage = cast[d].stage /\ Shifted(b, c)[d].try = cast[d].try
              /\ Shifted(b, c)[d].i = cast[d].i /\ Shifted(b, c)[d].dead = cast[d].dead
              /\ Shifted(b, c)[d].sent = cast[d].sent
      BY <1>1, ShiftedFacts
    <3>5. /\ \A d \in Call \ {b} : cast'[d] = Shifted(b, c)[d]
          /\ cast'[b] = [Shifted(b, c)[b] EXCEPT !.dead = Tail(Shifted(b, c)[b].dead)]
          /\ Shifted(b, c)[b] \in Cast
      BY <3>1, <3>4
    <3>6. /\ cast'[b].stage = "purge" /\ cast'[b].try = cast[b].try /\ cast'[b].sent = cast[b].sent
          /\ cast'[b].dead = Tail(cast[b].dead)
      BY <2>1, <3>4, <3>5 DEF Cast
    <3>7. Gentle /\ \A d \in Call \ {b} : Same(d)
      BY <1>1, <2>4, <3>1, <3>4, <3>5 DEF Gentle, Same
    <3>8. Elements(cast'[b].dead) \subseteq Elements(cast[b].dead)
      BY <2>3, <2>4, <3>6
    <3>9. Released(b) \subseteq Released(b)'
      BY <1>1, <2>1, <3>3, <3>6, <3>8 DEF Released
    <3>10. Tally(b)' <= Cardinality(Released(b)')
      BY <1>4, <2>1, <3>6, <3>9 DEF Tally
    <3> QED
      BY <1>1, <2>1, <3>6, <3>7, <3>8, <3>10 DEF OneCall, Distinct, Elements
  <2>5. ASSUME cast[b].dead # <<>>, Head(cast[b].dead) \notin Elements(active)
        PROVE  OneCall(b)' /\ Gentle /\ \A d \in Call \ {b} : Same(d)
    <3> DEFINE c == Head(cast[b].dead)
    <3>1. UNCHANGED active /\ cast' = [cast EXCEPT ![b] = Failed(b)]
      BY <1>9, <2>5 DEF Purge
    <3>2. Gentle /\ (\A d \in Call \ {b} : Same(d)) /\ cast'[b] = Failed(b)
      BY <1>5, <3>1
    <3>3. /\ cast'[b].stage \in {"idle", "lost"} /\ cast'[b].sent \in {cast[b].sent, <<>>}
          /\ \/ cast'[b].stage = "lost" /\ cast[b].try = MaxAttempts
             \/ cast'[b].stage = "idle" /\ cast'[b].try \in {1, cast[b].try + 1}
      BY <1>1, <3>2, FailedFacts
    <3>4. c \in gone /\ joined[c] \in {"in", "out"} /\ c \notin Released(b)
      BY <2>1, <2>3, <2>5 DEF OneCall, Released
    <3>5. Released(b) \cup {c} \subseteq Released(b)'
      BY <1>1, <2>5, <3>1, <3>3, <3>4 DEF Released, Elements
    <3>6. Cardinality(Released(b)) + 1 <= Cardinality(Released(b)')
      <4>1. Cardinality(Released(b) \cup {c}) = Cardinality(Released(b)) + 1
        BY <1>3, <3>4, FS_AddElement
      <4>2. Cardinality(Released(b) \cup {c}) <= Cardinality(Released(b)')
        BY <1>3, <3>5, FS_Subset
      <4> QED
        BY <4>1, <4>2
    <3>7. Tally(b)' <= Cardinality(Released(b)')
      <4>1. Tally(b) = cast[b].try - 1 /\ Tally(b) <= Cardinality(Released(b))
        BY <2>1 DEF Tally, OneCall
      <4>2. Tally(b)' <= cast[b].try
        BY <1>1, <3>3 DEF Tally
      <4>3. Tally(b)' \in Int
        BY <1>1, <3>3 DEF Tally
      <4> QED
        BY <1>1, <1>3, <3>6, <4>1, <4>2, <4>3
    <3> QED
      BY <1>1, <3>2, <3>3, <3>7 DEF OneCall, Distinct, Elements
  <2> QED
    BY <1>9, <2>2, <2>4, <2>5 DEF Purge
<1> QED
  BY <1>6, <1>7, <1>8, <1>9

LEMMA CallInvStep == ListInv /\ ListInv' /\ CallInv /\ [Next]_vars => CallInv'
<1> SUFFICES ASSUME ListInv, ListInv', CallInv, [Next]_vars PROVE CallInv'
  OBVIOUS
<1>1. ASSUME NEW c \in Socket, Accept(c) \/ Join(c) \/ Close(c) \/ Ping(c)
      PROVE  Gentle /\ \A d \in Call : Same(d)
  <2>1. TypeOK /\ joined \in [Socket -> {"new", "accepted", "in", "out"}]
    BY DEF ListInv, TypeOK
  <2>2. CASE Accept(c)
    BY <2>1, <2>2 DEF Accept, Gentle, Same
  <2>3. CASE Join(c)
    BY <2>1, <2>3 DEF Join, Joined, Gentle, Same
  <2>4. CASE Close(c)
    BY <2>1, <2>4 DEF Close, Gentle, Same
  <2>5. CASE Ping(c)
    <3>1. \A x \in Socket : joined[x] \in {"in", "out"} => joined'[x] \in {"in", "out"}
      BY <2>1, <2>5 DEF Ping
    <3>2. CASE active' = Remove(active, c) /\ cast' = Shifted(None, c) /\ c \in Elements(active)
      BY <2>1, <2>5, <3>1, <3>2, ShiftedFacts DEF Ping, Gentle, Same
    <3>3. CASE UNCHANGED <<active, cast>>
      BY <2>5, <3>1, <3>3 DEF Ping, Gentle, Same
    <3> QED
      BY <2>5, <3>2, <3>3 DEF Ping
  <2> QED
    BY <1>1, <2>2, <2>3, <2>4, <2>5
<1>2. CASE \E c \in Socket : Accept(c) \/ Join(c) \/ Close(c) \/ Ping(c)
  BY <1>1, <1>2, WaitingKeepsCall DEF CallInv
<1>3. CASE \E b \in Call : Begin(b) \/ Serve(b)
  <2>1. PICK b \in Call : Begin(b) \/ Tell(b) \/ EndLoop(b) \/ Purge(b)
    BY <1>3 DEF Serve
  <2>2. OneCall(b)' /\ Gentle /\ \A d \in Call \ {b} : Same(d)
    BY <2>1, OwnStepKeepsCall DEF CallInv
  <2>3. \A d \in Call \ {b} : OneCall(d)'
    BY <2>2, WaitingKeepsCall DEF CallInv
  <2> QED
    BY <2>2, <2>3 DEF CallInv
<1>4. CASE UNCHANGED vars
  <2>1. Gentle /\ \A d \in Call : Same(d)
    BY <1>4 DEF vars, Gentle, Same
  <2> QED
    BY <2>1, WaitingKeepsCall DEF CallInv
<1> QED
  BY <1>2, <1>3, <1>4 DEF Next

LEMMA CallInvInit == Init => CallInv
<1> SUFFICES ASSUME Init, NEW b \in Call PROVE OneCall(b)
  BY DEF CallInv
<1>1. cast[b].stage = "idle" /\ cast[b].sent = <<>> /\ cast[b].try = 1 /\ gone = {}
  BY IdleFacts DEF Init
<1>2. Released(b) = {}
  BY <1>1 DEF Released
<1> QED
  BY <1>1, <1>2, FS_EmptySet DEF OneCall, Tally, Distinct, Elements

LEMMA CallsAlways == Spec => [](ListInv /\ CallInv)
  BY ListInvInit, ListInvStep, CallInvInit, CallInvStep, PTL DEF Spec

\* However many connections come and go during a broadcast, none gets its message twice.
THEOREM ToldOnce == Spec => []AtMostOnce
<1>1. CallInv => AtMostOnce
  BY DEF CallInv, OneCall, AtMostOnce
<1> QED
  BY <1>1, CallsAlways, PTL

\* Each failed attempt of a call is paid for by another closed connection.
THEOREM FailuresPaidFor == Spec => []FailuresBounded
<1>1. ListInv /\ CallInv => FailuresBounded
  <2> SUFFICES ASSUME ListInv, CallInv, NEW b \in Call PROVE Tally(b) <= Cardinality(gone)
    BY DEF FailuresBounded, Tally
  <2>1. /\ Cardinality(Released(b)) \in Nat /\ Cardinality(Released(b)) <= Cardinality(gone)
        /\ Tally(b) <= Cardinality(Released(b))
    BY ReleasedFinite DEF ListInv, CallInv, OneCall
  <2>2. Cardinality(gone) \in Nat
    BY ReleasedFinite, FS_CardinalityType DEF ListInv
  <2>3. Tally(b) \in Int
    <3>1. cast[b] \in Cast
      BY DEF ListInv, TypeOK
    <3> QED
      BY <3>1, BroadcastAssumption DEF Tally, Cast
  <2> QED
    BY <2>1, <2>2, <2>3
<1> QED
  BY <1>1, CallsAlways, PTL

-----------------------------------------------------------------------------
(* Who is left out *)

\* The connections the iterator of b has passed over so far
Skipped(b) == {c \in Missed(b) : \E k \in DOMAIN active : k < cast[b].i /\ active[k] = c}

\* In its loop, b has passed over no more connections than were removed from
\* before its iterator; at the end of the loop these are all that it missed.  No
\* connection that was there at the start can come in once more.
OneShift(b) ==
  /\ cast[b].stage \in {"loop", "purge"} => \A c \in cast[b].start : joined[c] \in {"in", "out"}
  /\ cast[b].stage = "loop" => Cardinality(Skipped(b)) <= cast[b].shifts
  /\ cast[b].stage = "purge" => Cardinality(Missed(b)) <= cast[b].shifts

ShiftInv == \A b \in Call : OneShift(b)

LEMMA MissedFinite ==
  ASSUME TypeOK, NEW b \in Call
  PROVE  /\ IsFiniteSet(Missed(b)) /\ Cardinality(Missed(b)) \in Nat
         /\ IsFiniteSet(Skipped(b)) /\ Cardinality(Skipped(b)) \in Nat
         /\ cast[b].shifts \in Nat
<1>1. cast[b] \in Cast
  BY DEF TypeOK
<1>2. cast[b].start \subseteq Socket /\ cast[b].shifts \in Nat
  BY <1>1 DEF Cast
<1>3. Missed(b) \subseteq Socket /\ Skipped(b) \subseteq Socket
  BY <1>2 DEF Missed, Skipped
<1> QED
  BY <1>2, <1>3, BroadcastAssumption, FS_Subset, FS_CardinalityType

LEMMA NoMore ==
  ASSUME NEW S, IsFiniteSet(S), NEW T, T \subseteq S
  PROVE  Cardinality(T) <= Cardinality(S) /\ Cardinality(S) \in Nat /\ Cardinality(T) \in Nat
BY FS_Subset, FS_CardinalityType

LEMMA OneMore ==
  ASSUME NEW S, IsFiniteSet(S), NEW x, NEW T, T \subseteq S \cup {x}
  PROVE  Cardinality(T) <= Cardinality(S) + 1 /\ Cardinality(S) \in Nat /\ Cardinality(T) \in Nat
<1>1. IsFiniteSet(S \cup {x}) /\ Cardinality(S) \in Nat
  BY FS_AddElement, FS_CardinalityType
<1>2. Cardinality(S \cup {x}) \in {Cardinality(S), Cardinality(S) + 1}
  BY FS_AddElement
<1>3. Cardinality(T) <= Cardinality(S \cup {x}) /\ Cardinality(T) \in Nat
  BY <1>1, NoMore
<1> QED
  BY <1>1, <1>2, <1>3

\* What b sees of the others while it waits: shifts counts what they remove from
\* before its iterator.
Waits(b) ==
  /\ cast'[b].stage = cast[b].stage /\ cast'[b].i = cast[b].i /\ cast'[b].start = cast[b].start
  /\ cast'[b].dead = cast[b].dead /\ cast'[b].sent = cast[b].sent
  /\ \/ UNCHANGED active /\ cast'[b].shifts = cast[b].shifts
     \/ \E c \in Elements(active) :
          /\ active' = Remove(active, c)
          /\ cast'[b].shifts = IF cast[b].stage = "loop" /\ Place(active, c) < cast[b].i
                               THEN cast[b].shifts + 1 ELSE cast[b].shifts
     \/ \E c \in Socket : /\ joined[c] = "accepted" /\ active' = Append(active, c)
                          /\ cast'[b].shifts = cast[b].shifts

LEMMA WaitingKeepsShift ==
  ASSUME ListInv, NEW b \in Call, OneShift(b), Gentle, Waits(b)
  PROVE  OneShift(b)'
<1>1. /\ TypeOK /\ active \in Seq(Socket) /\ Distinct(active) /\ cast[b] \in Cast
      /\ Len(active) \in Nat /\ DOMAIN active = 1..Len(active)
  BY DEF ListInv, TypeOK
<1>2. /\ cast[b].i \in Nat /\ cast[b].start \subseteq Socket /\ cast[b].shifts \in Nat
      /\ IsFiniteSet(Missed(b)) /\ IsFiniteSet(Skipped(b))
      /\ Cardinality(Missed(b)) \in Nat /\ Cardinality(Skipped(b)) \in Nat
  BY <1>1, MissedFinite DEF Cast
<1>3. cast'[b].stage \in {"loop", "purge"} => \A c \in cast'[b].start : joined'[c] \in {"in", "out"}
  BY <1>2 DEF OneShift, Waits, Gentle
<1>4. Elements(cast'[b].sent) = Elements(cast[b].sent) /\ Elements(cast'[b].dead) = Elements(cast[b].dead)
  BY DEF Waits
<1>5. ASSUME Missed(b)' \subseteq Missed(b), Skipped(b)' \subseteq Skipped(b),
             cast'[b].shifts = cast[b].shifts
      PROVE  OneShift(b)'
  <2>1. Cardinality(Missed(b)') <= Cardinality(Missed(b)) /\ Cardinality(Missed(b)') \in Nat
    BY <1>2, <1>5, NoMore
  <2>2. Cardinality(Skipped(b)') <= Cardinality(Skipped(b)) /\ Cardinality(Skipped(b)') \in Nat
    BY <1>2, <1>5, NoMore
  <2> QED
    BY <1>2, <1>3, <1>5, <2>1, <2>2 DEF OneShift, Waits
<1>6. CASE UNCHANGED active /\ cast'[b].shifts = cast[b].shifts
  <2>1. Missed(b)' = Missed(b)
    BY <1>4, <1>6 DEF Missed, Waits, Elements
  <2>2. Skipped(b)' = Skipped(b)
    BY <1>6, <2>1 DEF Skipped, Waits
  <2> QED
    BY <1>5, <1>6, <2>1, <2>2
<1>7. ASSUME NEW c \in Elements(active), active' = Remove(active, c),
             cast'[b].shifts = IF cast[b].stage = "loop" /\ Place(active, c) < cast[b].i
                               THEN cast[b].shifts + 1 ELSE cast[b].shifts
      PROVE  OneShift(b)'
  <2> DEFINE r == Remove(active, c)
             p == Place(active, c)
  <2>1. /\ p \in DOMAIN active /\ r \in Seq(Socket) /\ Len(r) = Len(active) - 1
        /\ \A k \in 1..(Len(active) - 1) : r[k] = IF k < p THEN active[k] ELSE active[k + 1]
        /\ Elements(r) = Elements(active) \ {c}
    BY <1>1, RemoveFacts
  <2> HIDE DEF r, p
  <2>2. active' = r /\ DOMAIN r = 1..(Len(active) - 1) /\ Elements(active') = Elements(active) \ {c}
    BY <1>1, <1>7, <2>1 DEF r
  <2>3. Missed(b)' \subseteq Missed(b)
    BY <1>4, <2>2 DEF Missed, Waits
  <2>4. ASSUME NEW x \in Skipped(b)'
        PROVE  x \in Skipped(b) \/ (p < cast[b].i /\ x = active[cast[b].i])
    <3>1. PICK k \in 1..(Len(active) - 1) : k < cast[b].i /\ r[k] = x
      BY <2>2, <2>4 DEF Skipped, Waits
    <3>2. x \in Missed(b)
      BY <2>3, <2>4 DEF Skipped
    <3>3. k \in DOMAIN active /\ k + 1 \in DOMAIN active /\ p \in Nat
      BY <1>1, <2>1
    <3>4. CASE k < p
      BY <2>1, <3>1, <3>2, <3>3, <3>4 DEF Skipped
    <3>5. CASE ~(k < p) /\ k + 1 < cast[b].i
      BY <2>1, <3>1, <3>2, <3>3, <3>5 DEF Skipped
    <3>6. CASE ~(k < p) /\ ~(k + 1 < cast[b].i)
      <4>1. k + 1 = cast[b].i /\ p < cast[b].i
        BY <1>2, <3>1, <3>3, <3>6
      <4> QED
        BY <2>1, <3>1, <3>6, <4>1
    <3> QED
      BY <3>4, <3>5, <3>6
  <2>5. CASE cast[b].stage = "loop" /\ p < cast[b].i
    <3>1. Skipped(b)' \subseteq Skipped(b) \cup {active[cast[b].i]}
      BY <2>4
    <3>2. Cardinality(Skipped(b)') <= Cardinality(Skipped(b)) + 1 /\ Cardinality(Skipped(b)') \in Nat
      BY <1>2, <3>1, OneMore
    <3>3. cast'[b].shifts = cast[b].shifts + 1
      BY <1>7, <2>5 DEF p
    <3> QED
      BY <1>2, <1>3, <2>5, <3>2, <3>3 DEF OneShift, Waits
  <2>6. CASE cast[b].stage = "loop" /\ ~(p < cast[b].i)
    <3>1. Skipped(b)' \subseteq Skipped(b)
      BY <2>4, <2>6
    <3>2. cast'[b].shifts = cast[b].shifts
      BY <1>7, <2>6 DEF p
    <3> QED
      BY <1>5, <2>3, <3>1, <3>2
  <2>7. CASE cast[b].stage # "loop"
    <3>1. cast'[b].shifts = cast[b].shifts
      BY <1>7, <2>7
    <3>2. Cardinality(Missed(b)') <= Cardinality(Missed(b)) /\ Cardinality(Missed(b)') \in Nat
      BY <1>2, <2>3, NoMore
    <3> QED
      BY <1>2, <1>3, <2>7, <3>1, <3>2 DEF OneShift, Waits
  <2> QED
    BY <2>5, <2>6, <2>7
<1>8. ASSUME NEW c \in Socket, joined[c] = "accepted", active' = Append(active, c),
             cast'[b].shifts = cast[b].shifts
      PROVE  OneShift(b)'
  <2>1. /\ Len(active') = Len(active) + 1 /\ DOMAIN active' = 1..(Len(active) + 1)
        /\ \A k \in 1..Len(active) : active'[k] = active[k]
        /\ active'[Len(active) + 1] = c
        /\ Elements(Append(active, c)) = Elements(active) \cup {c}
    BY <1>1, <1>8, AppendFacts
  <2>2. Elements(active') = Elements(active) \cup {c}
    BY <1>8, <2>1
  <2>3. CASE cast[b].stage \notin {"loop", "purge"}
    BY <2>3 DEF OneShift, Waits
  <2>4. CASE cast[b].stage \in {"loop", "purge"}
    <3>1. c \notin cast[b].start
      BY <1>8, <2>4 DEF OneShift
    <3>2. Missed(b)' \subseteq Missed(b)
      BY <1>4, <2>2, <3>1 DEF Missed, Waits
    <3>3. Skipped(b)' \subseteq Skipped(b)
      <4> SUFFICES ASSUME NEW x \in Skipped(b)' PROVE x \in Skipped(b)
        OBVIOUS
      <4>1. PICK k \in 1..(Len(active) + 1) : k < cast[b].i /\ active'[k] = x
        BY <2>1 DEF Skipped, Waits
      <4>2. x \in Missed(b) /\ x # c
        BY <3>1, <3>2 DEF Skipped, Missed
      <4>3. k \in 1..Len(active)
        BY <1>1, <2>1, <4>1, <4>2
      <4> QED
        BY <1>1, <2>1, <4>1, <4>2, <4>3 DEF Skipped
    <3> QED
      BY <1>5, <1>8, <3>2, <3>3
  <2> QED
    BY <2>3, <2>4
<1> QED
  BY <1>6, <1>7, <1>8 DEF Waits

\* The steps of a broadcast itself
LEMMA OwnStepKeepsShift ==
  ASSUME ListInv, NEW b \in Call, OneShift(b), Begin(b) \/ Tell(b) \/ EndLoop(b) \/ Purge(b)
  PROVE  OneShift(b)'
<1>1. /\ TypeOK /\ active \in Seq(Socket) /\ Distinct(active)
      /\ cast \in [Call -> Cast] /\ cast[b] \in Cast /\ joined' = joined
      /\ Len(active) \in Nat /\ DOMAIN active = 1..Len(active)
      /\ \A c \in Elements(active) : joined[c] \in {"in", "out"}
      /\ cast[b].stage = "purge" <=> held = b
  BY DEF ListInv, TypeOK, Begin, Tell, EndLoop, Purge
<1>2. /\ cast[b].i \in Nat /\ cast[b].start \subseteq Socket /\ cast[b].shifts \in Nat
      /\ cast[b].dead \in Seq(Socket) /\ cast[b].sent \in Seq(Socket)
      /\ IsFiniteSet(Missed(b)) /\ IsFiniteSet(Skipped(b))
      /\ Cardinality(Missed(b)) \in Nat /\ Cardinality(Skipped(b)) \in Nat
  BY <1>1, MissedFinite DEF Cast
<1>3. ASSUME NEW x, x.stage \notin {"loop", "purge"}, cast' = [cast EXCEPT ![b] = x]
      PROVE  OneShift(b)'
  <2>1. cast'[b] = x
    BY <1>1, <1>3
  <2> QED
    BY <1>3, <2>1 DEF OneShift
<1>4. CASE Begin(b)
  <2>1. CASE cast' = [cast EXCEPT ![b] = After(b)]
    BY <1>3, <2>1, IdleFacts
  <2>2. CASE cast' = [cast EXCEPT ![b] = Fresh(b)]
    <3>1. cast'[b] = Fresh(b) /\ active' = active
      BY <1>1, <1>4, <2>2 DEF Begin
    <3>2. /\ cast'[b].stage = "loop" /\ cast'[b].i = 1 /\ cast'[b].shifts = 0
          /\ cast'[b].start = Elements(active)
      BY <1>1, <3>1, FreshFacts
    <3>3. \A k \in DOMAIN active' : ~(k < cast'[b].i)
      BY <1>1, <3>1, <3>2
    <3>4. Skipped(b)' = {}
      BY <3>3 DEF Skipped
    <3>5. Cardinality(Skipped(b)') = 0
      BY <3>4, FS_EmptySet
    <3> QED
      BY <1>1, <3>2, <3>5 DEF OneShift
  <2> QED
    BY <1>4, <2>1, <2>2 DEF Begin
<1>5. CASE Tell(b)
  <2>1. PICK c : c = active[cast[b].i]
    OBVIOUS
  <2>2. PICK x \in {Told(b, c), Found(b, c)} : cast' = [cast EXCEPT ![b] = x]
    BY <1>5, <2>1 DEF Tell
  <2>3. cast[b].stage = "loop" /\ active' = active /\ cast[b].i \in DOMAIN active /\ c \in Socket
    <3>1. cast[b].stage = "loop" /\ active' = active /\ cast[b].i \in DOMAIN active
      <4>1. cast[b].i # 0
        BY <1>1 DEF Cast
      <4> QED
        BY <1>1, <1>2, <1>5, <4>1 DEF Tell, AtEnd
    <3> QED
      BY <1>1, <2>1, <3>1
  <2>4. cast'[b] = x
    BY <1>1, <2>2
  <2>5. /\ cast'[b].stage = "loop" /\ cast'[b].i = cast[b].i + 1
        /\ cast'[b].start = cast[b].start /\ cast'[b].shifts = cast[b].shifts
    BY <1>1, <2>2, <2>3, <2>4, ToldFacts
  <2>6. Elements(cast'[b].sent) \cup Elements(cast'[b].dead)
          = (Elements(cast[b].sent) \cup Elements(cast[b].dead)) \cup {c}
    <3>1. /\ Elements(Append(cast[b].sent, c)) = Elements(cast[b].sent) \cup {c}
          /\ Elements(Append(cast[b].dead, c)) = Elements(cast[b].dead) \cup {c}
      BY <1>2, <2>3, AppendFacts
    <3>2. CASE x = Told(b, c)
      <4>1. x.sent = Append(cast[b].sent, c) /\ x.dead = cast[b].dead
        BY <1>1, <2>3, <3>2, ToldFacts
      <4>2. cast'[b].sent = Append(cast[b].sent, c) /\ cast'[b].dead = cast[b].dead
        BY <2>4, <4>1
      <4> QED
        BY <3>1, <4>2
    <3>3. CASE x = Found(b, c)
      <4>1. x.sent = cast[b].sent /\ x.dead = Append(cast[b].dead, c)
        BY <1>1, <2>3, <3>3, ToldFacts
      <4>2. cast'[b].sent = cast[b].sent /\ cast'[b].dead = Append(cast[b].dead, c)
        BY <2>4, <4>1
      <4> QED
        BY <3>1, <4>2
    <3> QED
      BY <2>2, <3>2, <3>3
  <2>7. Elements(active') = Elements(active)
    BY <2>3 DEF Elements
  <2>8. Missed(b)' \subseteq Missed(b) \ {c}
    BY <2>5, <2>6, <2>7 DEF Missed
  <2>9. Skipped(b)' \subseteq Skipped(b)
    <3> SUFFICES ASSUME NEW y \in Skipped(b)' PROVE y \in Skipped(b)
      OBVIOUS
    <3>1. PICK k \in DOMAIN active : k < cast[b].i + 1 /\ active[k] = y
      BY <2>3, <2>5 DEF Skipped
    <3>2. y \in Missed(b) /\ y # c
      BY <2>8 DEF Skipped
    <3>3. k < cast[b].i
      BY <1>1, <1>2, <2>1, <3>1, <3>2
    <3> QED
      BY <3>1, <3>2, <3>3 DEF Skipped
  <2>10. Cardinality(Skipped(b)') <= Cardinality(Skipped(b)) /\ Cardinality(Skipped(b)') \in Nat
    BY <1>2, <2>9, NoMore
  <2> QED
    BY <1>1, <1>2, <2>3, <2>5, <2>10 DEF OneShift
<1>6. CASE EndLoop(b)
  <2>1. /\ cast[b].stage = "loop" /\ active' = active /\ cast[b].i > Len(active)
        /\ cast' = [cast EXCEPT ![b] = [cast[b] EXCEPT !.stage = "purge"]]
    BY <1>6 DEF EndLoop, AtEnd
  <2>2. /\ cast'[b].stage = "purge" /\ cast'[b].start = cast[b].start /\ cast'[b].sent = cast[b].sent
        /\ cast'[b].dead = cast[b].dead /\ cast'[b].shifts = cast[b].shifts
    BY <1>1, <2>1 DEF Cast
  <2>3. Missed(b)' \subseteq Missed(b)
    BY <2>1, <2>2 DEF Missed, Elements
  <2>4. \A y \in Elements(active) : \E k \in DOMAIN active : k < cast[b].i /\ active[k] = y
    <3>1. \A k \in DOMAIN active : k < cast[b].i
      BY <1>1, <1>2, <2>1
    <3> QED
      BY <3>1 DEF Elements
  <2>5. Missed(b) \subseteq Skipped(b)
    BY <2>4 DEF Skipped, Missed
  <2>6. Cardinality(Missed(b)') <= Cardinality(Skipped(b)) /\ Cardinality(Missed(b)') \in Nat
    BY <1>2, <2>3, <2>5, NoMore
  <2> QED
    BY <1>1, <1>2, <2>1, <2>2, <2>6 DEF OneShift
<1>7. CASE Purge(b)
  <2>1. cast[b].stage = "purge" /\ held = b
    BY <1>1, <1>7 DEF Purge
  <2>2. CASE \E x \in {After(b), Failed(b)} : cast' = [cast EXCEPT ![b] = x]
    BY <1>1, <1>3, <2>2, IdleFacts, FailedFacts
  <2>3. ASSUME cast[b].dead # <<>>, Head(cast[b].dead) \in Elements(active)
        PROVE  OneShift(b)'
    <3>1. PICK c : c = Head(cast[b].dead)
      OBVIOUS
    <3>2. PICK f : f = Shifted(b, c)
      OBVIOUS
    <3>3. /\ active' = Remove(active, c) /\ cast' = [f EXCEPT ![b].dead = Tail(f[b].dead)]
      BY <1>7, <2>3, <3>1, <3>2 DEF Purge
    <3>4. /\ f \in [Call -> Cast] /\ f[b].stage = "purge" /\ f[b].dead = cast[b].dead
          /\ f[b].sent = cast[b].sent /\ f[b].start = cast[b].start /\ f[b].shifts = cast[b].shifts
      BY <1>1, <2>1, <3>2, ShiftedFacts
    <3>5. /\ cast'[b].stage = "purge" /\ cast'[b].dead = Tail(cast[b].dead) /\ cast'[b].sent = cast[b].sent
          /\ cast'[b].start = cast[b].start /\ cast'[b].shifts = cast[b].shifts
      BY <3>3, <3>4 DEF Cast
    <3>6. Elements(Remove(active, c)) = Elements(active) \ {c}
      BY <1>1, <2>3, <3>1, RemoveFacts
    <3>7. Elements(active') = Elements(active) \ {c}
      BY <3>3, <3>6
    <3>8. Elements(cast[b].dead) \subseteq Elements(cast'[b].dead) \cup {c}
      <4>1. PICK d \in Seq(Socket) : d = cast[b].dead
        BY <1>2
      <4>2. \A k \in DOMAIN d : d[k] = c \/ (k - 1 \in DOMAIN Tail(d) /\ Tail(d)[k - 1] = d[k])
        BY <2>3, <3>1, <4>1
      <4>3. Elements(d) \subseteq Elements(Tail(d)) \cup {c}
        BY <4>2 DEF Elements
      <4> QED
        BY <3>5, <4>1, <4>3
    <3>9. Missed(b)' \subseteq Missed(b)
      BY <3>5, <3>7, <3>8 DEF Missed
    <3>10. Cardinality(Missed(b)') <= Cardinality(Missed(b)) /\ Cardinality(Missed(b)') \in Nat
      BY <1>2, <3>9, NoMore
    <3> QED
      BY <1>1, <1>2, <2>1, <3>5, <3>10 DEF OneShift
  <2> QED
    BY <1>7, <2>2, <2>3 DEF Purge
<1> QED
  BY <1>4, <1>5, <1>6, <1>7

LEMMA ShiftInvInit == Init => ShiftInv
  BY IdleFacts DEF Init, ShiftInv, OneShift

LEMMA ShiftInvStep == ListInv /\ ShiftInv /\ [Next]_vars => ShiftInv'
<1> SUFFICES ASSUME ListInv, ShiftInv, [Next]_vars PROVE ShiftInv'
  OBVIOUS
<1>1. /\ TypeOK /\ active \in Seq(Socket) /\ cast \in [Call -> Cast] /\ None \notin Call
      /\ joined \in [Socket -> {"new", "accepted", "in", "out"}]
  BY BroadcastAssumption DEF ListInv, TypeOK
<1>2. ASSUME UNCHANGED active, NEW d \in Call, cast'[d] = cast[d] PROVE Waits(d)
  BY <1>2 DEF Waits
<1>3. ASSUME NEW b, NEW c \in Elements(active), NEW d \in Call \ {b}, active' = Remove(active, c),
             cast'[d] = Shifted(b, c)[d]
      PROVE  Waits(d)
  BY <1>1, <1>3, ShiftedFacts DEF Waits
<1>4. ASSUME NEW c \in Socket, Accept(c) \/ Join(c) \/ Close(c) \/ Ping(c)
      PROVE  Gentle /\ \A d \in Call : Waits(d)
  <2>1. CASE Accept(c)
    BY <1>1, <1>2, <2>1 DEF Accept, Gentle
  <2>2. CASE Join(c)
    BY <1>1, <2>2 DEF Join, Joined, Gentle, Waits
  <2>3. CASE Close(c)
    BY <1>1, <1>2, <2>3 DEF Close, Gentle
  <2>4. CASE Ping(c)
    <3>1. /\ gone' = gone
          /\ \A x \in Socket : joined[x] \in {"in", "out"} => joined'[x] \in {"in", "out"}
      BY <1>1, <2>4 DEF Ping
    <3>2. CASE active' = Remove(active, c) /\ cast' = Shifted(None, c) /\ c \in Elements(active)
      BY <1>1, <1>3, <3>1, <3>2 DEF Gentle
    <3>3. CASE UNCHANGED <<active, cast>>
      BY <1>2, <3>1, <3>3 DEF Gentle
    <3> QED
      BY <2>4, <3>2, <3>3 DEF Ping
  <2> QED
    BY <1>4, <2>1, <2>2, <2>3, <2>4
<1>5. ASSUME NEW b \in Call, Begin(b) \/ Tell(b) \/ EndLoop(b) \/ Purge(b)
      PROVE  Gentle /\ \A d \in Call \ {b} : Waits(d)
  <2>1. joined' = joined /\ gone' = gone
    BY <1>5 DEF Begin, Tell, EndLoop, Purge
  <2>2. CASE UNCHANGED active
    <3>1. \A d \in Call \ {b} : cast'[d] = cast[d]
      <4>1. CASE ~Purge(b)
        BY <1>1, <1>5, <4>1 DEF Begin, Tell, EndLoop
      <4>2. CASE Purge(b) /\ \E x : cast' = [cast EXCEPT ![b] = x]
        BY <1>1, <4>2
      <4>3. CASE Purge(b) /\ Head(cast[b].dead) \in Elements(active)
                 /\ active' = Remove(active, Head(cast[b].dead))
        <5>1. PICK c \in Elements(active) : active' = Remove(active, c)
          BY <4>3
        <5>2. Elements(Remove(active, c)) = Elements(active) \ {c}
          BY <5>1, RemoveFacts DEF ListInv, TypeOK
        <5> QED
          BY <2>2, <5>1, <5>2
      <4> QED
        BY <4>1, <4>2, <4>3 DEF Purge
    <3> QED
      BY <1>2, <2>1, <2>2, <3>1 DEF Gentle
  <2>3. CASE ~UNCHANGED active
    <3>1. PICK c \in Elements(active) : active' = Remove(active, c)
                                        /\ cast' = [Shifted(b, c) EXCEPT ![b].dead = Tail(@)]
      BY <1>5, <2>3 DEF Begin, Tell, EndLoop, Purge
    <3>2. \A d \in Call \ {b} : cast'[d] = Shifted(b, c)[d]
      BY <3>1 DEF Shifted
    <3> QED
      BY <1>3, <2>1, <3>1, <3>2 DEF Gentle
  <2> QED
    BY <2>2, <2>3
<1>6. CASE \E c \in Socket : Accept(c) \/ Join(c) \/ Close(c) \/ Ping(c)
  BY <1>4, <1>6, WaitingKeepsShift DEF ShiftInv
<1>7. CASE \E b \in Call : Begin(b) \/ Serve(b)
  <2>1. PICK b \in Call : Begin(b) \/ Tell(b) \/ EndLoop(b) \/ Purge(b)
    BY <1>7 DEF Serve
  <2>2. OneShift(b)'
    BY <2>1, OwnStepKeepsShift DEF ShiftInv
  <2>3. \A d \in Call \ {b} : OneShift(d)'
    BY <1>5, <2>1, WaitingKeepsShift DEF ShiftInv
  <2> QED
    BY <2>2, <2>3 DEF ShiftInv
<1>8. CASE UNCHANGED vars
  <2>1. Gentle /\ \A d \in Call : Waits(d)
    BY <1>2, <1>8 DEF vars, Gentle
  <2> QED
    BY <2>1, WaitingKeepsShift DEF ShiftInv
<1> QED
  BY <1>6, <1>7, <1>8 DEF Next

\* Among any number of connections and broadcasts, one that stays in the list is
\* passed over only for another one that was removed from before the iterator.
THEOREM LeftOutForALeaver == Spec => []MissedOnlyByShift
<1>1. ShiftInv => MissedOnlyByShift
  BY DEF ShiftInv, OneShift, MissedOnlyByShift
<1>2. Init => ListInv /\ ShiftInv
  BY ListInvInit, ShiftInvInit
<1>3. ListInv /\ ShiftInv /\ [Next]_vars => (ListInv /\ ShiftInv)'
  BY ListInvStep, ShiftInvStep
<1> QED
  BY <1>1, <1>2, <1>3, PTL DEF Spec
=============================================================================
